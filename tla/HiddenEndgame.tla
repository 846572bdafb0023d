---------------------------- MODULE HiddenEndgame ----------------------------
(* The proof of an end-game with at most one tile in the bag:                *)
(* src/src/engine.cpp, HiddenBagSolver and solveHiddenEndgame.               *)
(*                                                                           *)
(* The bag is one of the submultisets of the unseen tiles, a world each.     *)
(* First every option -- a placement or a pass -- is searched in every       *)
(* world with a full window, and its guarantee is the worst over the worlds. *)
(* If no guarantee wins, every option is searched again with an opponent who *)
(* helps, and what an option can reach is the best over the worlds.  One     *)
(* search is one step.  Searches share a node budget and a direct-mapped     *)
(* table, and an overrun of the budget ends a pass over the options: the     *)
(* first with no result, the second with a result that does not claim to     *)
(* know.                                                                     *)
(*                                                                           *)
(* Abstracted: killers, history and scores only permute the moves of a node; *)
(* here the order is part of the request and any order may be asked for.     *)
(* The clock is read at nodes and aborts as the node budget does.  The       *)
(* 64-bit hash of a state stands for the state.                              *)
EXTENDS TileGame

CONSTANTS
    Infinity,          \* HiddenBagSolver::INF
    TableSize,         \* slots of the table
    MostScore,         \* no placement scores more
    None

VARIABLES
    req,               \* the request: see RequestShape in EngineRequest
    stage,             \* what the proof does next
    unit,              \* the world and option to be searched next
    solver,            \* nodes, aborted, optimistic, table
    guaranteed,        \* per option: worst margin over the worlds searched
    reachable,         \* per option: best margin over the worlds searched
    result             \* HiddenResult

proofVars == <<stage, unit, solver, guaranteed, reachable, result>>

---------------------------------------------------------------------------
(* The solver: a search is a function of a call -- a position, a window and *)
(* the state of the solver -- and returns a value and the new state.        *)

\* A state is told apart by its position and by which question is asked.
Keys == [pos : Positions, optimistic : BOOLEAN]
Slots == [key : Keys \cup {None}, value : Int, flag : 0..2, move : Plays \cup {Pass}]
SolverStates == [nodes : Nat, aborted : BOOLEAN, optimistic : BOOLEAN,
                 table : [0..TableSize-1 -> Slots]]
Calls == [pos : Positions, alpha : Int, beta : Int, solver : SolverStates]

\* What a game can still be won or lost by with some tiles: each of them scores
\* once at most, alone, and its points count at most twice at the end.
Stake(c) == SumFunctionOnSet([k \in Kinds |-> c[k] * (MostScore + 2 * PointsOf[k])], Kinds)

Answer(v, s) == [value |-> v, solver |-> s]

EmptySlot == [key |-> None, value |-> 0, flag |-> 0, move |-> Pass]
NewSolver == [nodes |-> 0, aborted |-> FALSE, optimistic |-> FALSE,
              table |-> [i \in 0..TableSize-1 |-> EmptySlot]]

\* Every node counts; one more than the budget aborts, for good.
Visit(s) ==
    IF s.aborted THEN s
    ELSE [s EXCEPT !.nodes = @ + 1, !.aborted = s.nodes + 1 > req.nodeBudget]

\* One entry for a state, whichever question it answered.
KeyOfState(p, s) == [pos |-> p, optimistic |-> FALSE]

\* An entry is for a state, and for one of the two questions.
KeyOf(p, s) == [pos |-> p, optimistic |-> s.optimistic]
SlotOf(p) == (Cardinality(p.board) + p.side + Total(p.racks[0])) % TableSize

\* Flags: 0 the value, 1 a lower bound, 2 an upper bound.
Cuts(e, alpha, beta) ==
    \/ e.flag = 0
    \/ e.flag = 1 /\ e.value >= beta
    \/ e.flag = 2 /\ e.value <= alpha

FlagAtEnd(best, alpha, beta) ==
    IF best <= alpha THEN 2 ELSE IF best >= beta THEN 1 ELSE 0

Maximizing(p, s) == p.side = 0 \/ s.optimistic

\* The moves of a node: the stored best move first, then the others.
Ordered(p, hint) ==
    IF hint \in Playable(p) THEN <<hint>> \o Filtered(req.order, Playable(p) \ {hint})
    ELSE Filtered(req.order, Playable(p))

\* Fold the value of an option into a node and narrow its window.
Consider(node, m, v) ==
    LET better == IF node.max THEN v > node.best ELSE v < node.best
        best == IF better THEN v ELSE node.best
        alpha == IF node.max THEN Max({node.alpha, best}) ELSE node.alpha
        beta == IF node.max THEN node.beta ELSE Min({node.beta, best})
    IN  [node EXCEPT !.best = best, !.alpha = alpha, !.beta = beta,
                     !.move = IF better THEN m ELSE @,
                     !.cut = alpha >= beta]

\* The table is used when the bag is empty.
UseTable(p) == Total(p.bag) = 0
Known(p, s) == UseTable(p) /\ s.table[SlotOf(p)].key = KeyOf(p, s)

\* A node before its first option, and its options: the pass is the last.
NewNode(c) ==
    LET max == Maximizing(c.pos, c.solver)
    IN  [max |-> max, best |-> IF max THEN -Infinity ELSE Infinity, move |-> Pass,
         alpha |-> c.alpha, beta |-> c.beta, cut |-> FALSE, solver |-> c.solver]
OptionsAt(p, s) ==
    Append(Ordered(p, IF Known(p, s) THEN s.table[SlotOf(p)].move ELSE Pass), Pass)

\* The value of a node that was searched to its end is stored with what it
\* says about the window.
Stored(c, node) ==
    [key |-> KeyOf(c.pos, node.solver), value |-> node.best, move |-> node.move,
     flag |-> IF node.cut THEN IF node.max THEN 1 ELSE 2
              ELSE FlagAtEnd(node.best, c.alpha, c.beta)]

Finished(c, node) ==
    IF node.solver.aborted THEN Answer(0, node.solver)
    ELSE IF UseTable(c.pos)
    THEN Answer(node.best, [node.solver EXCEPT !.table[SlotOf(c.pos)] = Stored(c, node)])
    ELSE Answer(node.best, node.solver)

\* In what follows `deeper` is what a search of the next position answers.

\* The tile k out of the bag, on the rack of the side to move.
Drawn(p, k) == [p EXCEPT !.bag = Without(@, k), !.racks[p.side] = With(@, k)]

Worse(worst, a) ==
    IF a.solver.aborted THEN Answer(0, a.solver)
    ELSE Answer(Min({worst.value, a.value}), a.solver)

\* The tile to be drawn is one of `kinds`: the worst of what comes of it, until
\* it closes the window.
WorstOver(drawMore, kinds, c) ==
    LET over[i \in 0..Len(kinds)] ==
          IF i = 0 THEN Answer(Infinity, c.solver)
          ELSE LET worst == over[i - 1]
                   beta == Min({c.beta, worst.value})
               IN  IF worst.solver.aborted \/ c.alpha >= beta THEN worst
                   ELSE Worse(worst, drawMore[[pos |-> Drawn(c.pos, kinds[i]), alpha |-> c.alpha,
                                               beta |-> beta, solver |-> worst.solver]])
    IN  over[Len(kinds)]

\* drawWorst: the mover refills one tile after the other, each time what is
\* worst for the engine.
DrawWorst(deeper) ==
    LET draw[n \in Nat] ==
          [c \in Calls |->
             IF c.solver.aborted THEN Answer(0, c.solver)
             ELSE IF n = 0 THEN deeper[[c EXCEPT !.pos = AfterScore(@)]]
             ELSE WorstOver(draw[n - 1], SetToSeq({k \in Kinds : c.pos.bag[k] > 0}), c)]
    IN  draw

\* What a placement scores at once comes on top of what it leads to, and moves
\* the window.
AfterGain(gain, a) == IF a.solver.aborted THEN a ELSE Answer(gain + a.value, a.solver)

PlayValue(deeper, m, c) ==
    LET q == Placed(c.pos, m)
        gain == Signed(c.pos, req.scoreOf[m])
    IN  IF RackedOut(q) THEN Answer(gain + RackOutGain(q), c.solver)
        ELSE AfterGain(gain, DrawWorst(deeper)[DrawsOf(q)]
                               [[c EXCEPT !.pos = q, !.alpha = @ - gain, !.beta = @ - gain]])

OptionValue(deeper, m, c) ==
    IF m # Pass THEN PlayValue(deeper, m, c)
    ELSE IF PassEnds(c.pos) THEN Answer(StreakGain(c.pos), c.solver)
    ELSE deeper[[c EXCEPT !.pos = AfterPass(@)]]

\* The options of a node in their order, until one closes its window.
Explored(node, m, a) ==
    IF a.solver.aborted THEN [node EXCEPT !.solver = a.solver]
    ELSE Consider([node EXCEPT !.solver = a.solver], m, a.value)

Explore(deeper, options, c) ==
    LET upto[i \in 0..Len(options)] ==
          IF i = 0 THEN NewNode(c)
          ELSE LET node == upto[i - 1]
               IN  IF node.cut \/ node.solver.aborted THEN node
                   ELSE Explored(node, options[i],
                                 OptionValue(deeper, options[i],
                                             [c EXCEPT !.alpha = node.alpha, !.beta = node.beta,
                                                       !.solver = node.solver]))
    IN  upto[Len(options)]

\* A node that has been counted: an entry may answer it, and too many moves
\* abort like the budget.
SearchCounted(deeper, c) ==
    IF c.solver.aborted THEN Answer(0, c.solver)
    ELSE LET e == c.solver.table[SlotOf(c.pos)] IN
         IF Known(c.pos, c.solver) /\ Cuts(e, c.alpha, c.beta) THEN Answer(e.value, c.solver)
         ELSE IF Cardinality(Playable(c.pos)) > req.genLimit
         THEN Answer(0, [c.solver EXCEPT !.aborted = TRUE])
         ELSE Finished(c, Explore(deeper, OptionsAt(c.pos, c.solver), c))

\* mm: the value of a position within a window.  Searches nest as deep as there
\* are nodes in the budget and one more, which aborts: there is none below.
Search[depth \in Nat] ==
    [c \in Calls |->
       IF depth = 0 THEN Answer(0, [c.solver EXCEPT !.aborted = TRUE])
       ELSE SearchCounted(Search[depth - 1], [c EXCEPT !.solver = Visit(@)])]

---------------------------------------------------------------------------
(* The proof.  Its root is the request's position, in one of the worlds.    *)

\* enumerateBags: the bags that are possible, two tiles at most.
EnumerateBags(pool, count) ==
    SetToSeq(Submultisets(pool, IF count <= 0 THEN 0 ELSE IF count = 1 THEN 1 ELSE 2))

Worlds == EnumerateBags(req.unseen, req.bagCount)

Root(bag) ==
    [board |-> req.board, racks |-> [i \in 0..1 |-> IF i = 0 THEN req.rack ELSE Minus(req.unseen, bag)],
     bag |-> bag, side |-> 0, streak |-> req.streak]

\* The placements of the root in the order of the generator, then the pass.
RootPlays == Filtered(req.order, Playable(Root(NoTiles)))
Options == Append(RootPlays, Pass)

\* The margin that has to be beaten to win.
Threshold == req.oppScore - req.myScore

NoResult == [found |-> FALSE, solved |-> FALSE, move |-> Pass, value |-> -Infinity,
             outcome |-> "unknown", threshold |-> 0, reachable |-> 0, optimisticComplete |-> FALSE]

\* bestBy: the first option with the largest value over `floor`, or 0.
BestBy(values, floor) ==
    LET over == {i \in DOMAIN values : values[i] > floor}
    IN  IF over = {} THEN 0
        ELSE Min({i \in over : \A j \in over : values[j] <= values[i]})

Commit(i) == [result EXCEPT !.value = guaranteed[i], !.move = Options[i]]

\* The next option in this world, or the first in the next one.
NextUnit == IF unit.option < Len(Options) THEN [unit EXCEPT !.option = @ + 1]
            ELSE [world |-> unit.world + 1, option |-> 1]
LastUnit == unit.world = Len(Worlds) /\ unit.option = Len(Options)

ProofInit ==
    /\ unit = [world |-> 1, option |-> 1]
    /\ solver = NewSolver
    /\ guaranteed = <<>> /\ reachable = <<>>
    /\ result = NoResult

\* Too many worlds, or a root that cannot be enumerated: nothing is tried.
BeginProof ==
    /\ stage = "proof"
    /\ IF Worlds = <<>> \/ Len(Worlds) > req.maxScenarios \/ Len(RootPlays) > 2 * req.genLimit
       THEN stage' = "proof_over" /\ UNCHANGED guaranteed
       ELSE stage' = "prove" /\ guaranteed' = [i \in 1..Len(Options) |-> Infinity]
    /\ UNCHANGED <<req, unit, solver, reachable, result>>

\* The unit's option in the unit's world, with a full window.
SearchUnit ==
    LET m == Options[unit.option]
        gain == IF m = Pass THEN 0 ELSE req.scoreOf[m]
    IN  OptionValue(Search[req.nodeBudget + 1], m,
                    [pos |-> Root(Worlds[unit.world]), alpha |-> gain - Infinity,
                     beta |-> gain + Infinity, solver |-> solver])

\* An option is proved in a world, or the proof is given up.
ProveUnit ==
    /\ stage = "prove"
    /\ LET a == SearchUnit
       IN  /\ solver' = a.solver
           /\ IF a.solver.aborted
              THEN stage' = "proof_over" /\ UNCHANGED <<guaranteed, unit>>
              ELSE /\ guaranteed' = [guaranteed EXCEPT ![unit.option] = Min({@, a.value})]
                   /\ stage' = IF LastUnit THEN "judge" ELSE "prove"
                   /\ unit' = NextUnit
    /\ UNCHANGED <<req, reachable, result>>

\* Everything is proved.  A guarantee that wins is taken, the largest one;
\* otherwise what can still be reached is asked for.
Judge ==
    /\ stage = "judge"
    /\ LET forced == BestBy(guaranteed, Threshold)
           proved(r) == [r EXCEPT !.found = TRUE, !.solved = TRUE, !.threshold = Threshold]
       IN  IF forced > 0
           THEN /\ result' = [proved(Commit(forced)) EXCEPT !.outcome = "forced_win"]
                /\ stage' = "proof_over"
                /\ UNCHANGED <<unit, solver, reachable>>
           ELSE /\ result' = proved(result)
                /\ reachable' = [i \in 1..Len(Options) |-> -Infinity]
                /\ solver' = [solver EXCEPT !.optimistic = TRUE]
                /\ unit' = [world |-> 1, option |-> 1]
                /\ stage' = "reach"
    /\ UNCHANGED <<req, guaranteed>>

\* What an option can reach in a world, or the end of the second pass.
ReachUnit ==
    /\ stage = "reach"
    /\ LET a == SearchUnit
       IN  /\ solver' = a.solver
           /\ IF a.solver.aborted
              THEN stage' = "settle" /\ UNCHANGED <<reachable, unit, result>>
              ELSE /\ reachable' = [reachable EXCEPT ![unit.option] = Max({@, a.value})]
                   /\ stage' = IF LastUnit THEN "settle" ELSE "reach"
                   /\ unit' = NextUnit
                   /\ result' = [result EXCEPT !.optimisticComplete = LastUnit]
    /\ UNCHANGED <<req, guaranteed>>

\* No guarantee wins: the best that can be reached if it wins, the best
\* guarantee otherwise -- and what is known about it.
Settle ==
    /\ stage = "settle"
    /\ LET cond == IF result.optimisticComplete THEN BestBy(reachable, Threshold) ELSE 0
           best == BestBy(guaranteed, -Infinity - 1)
       IN  result' =
             IF cond > 0
             THEN [Commit(cond) EXCEPT !.outcome = "conditional_win", !.reachable = reachable[cond]]
             ELSE [Commit(best) EXCEPT !.outcome =
                     IF ~result.optimisticComplete THEN "unknown"
                     ELSE IF guaranteed[best] = Threshold THEN "forced_draw" ELSE "forced_loss"]
    /\ stage' = "proof_over"
    /\ UNCHANGED <<req, unit, solver, guaranteed, reachable>>

ProofNext == BeginProof \/ ProveUnit \/ Judge \/ ReachUnit \/ Settle

---------------------------------------------------------------------------
(* Properties.                                                              *)

\* What an option is really worth: against the best defence in the worst
\* world, and with an opponent who helps in the best one.
TrueValue(m, bag, optimistic) ==
    LET value == ValueOf(req.scoreOf, optimistic)
    IN  IF m = Pass THEN WorthOfPass(value, Root(bag)) ELSE WorthOfPlay(value, Root(bag), m, req.scoreOf)
TrueWorlds == Submultisets(req.unseen, req.bagCount)
TrueGuarantee(m) == Min({TrueValue(m, bag, FALSE) : bag \in TrueWorlds})
TrueReach(m) == Max({TrueValue(m, bag, TRUE) : bag \in TrueWorlds})
TrueOptions == Playable(Root(NoTiles)) \cup {Pass}

\* Whatever is left in the table by searches with narrowed windows, in either
\* pass, finished or given up: an exact entry is the value of its state, and a
\* bound is on the right side of it.
TableSound ==
    stage \in {"judge", "proof_over"} =>
        \A i \in DOMAIN solver.table :
            LET e == solver.table[i]
                v == ValueOf(req.scoreOf, e.key.optimistic)[e.key.pos]
            IN  e.key # None =>
                    CASE e.flag = 0 -> e.value = v
                      [] e.flag = 1 -> e.value <= v
                      [] OTHER -> e.value >= v

\* A forced win wins in every world against every defence; a conditional win
\* is claimed only when no option forces one, and is really within reach; a
\* draw or a loss only when no option could win even with the opponent's help.
OutcomeSound ==
    stage = "proof_over" /\ result.found =>
        LET T == Threshold IN
        /\ result.value = TrueGuarantee(result.move)
        /\ CASE result.outcome = "forced_win" ->
                  /\ result.value > T
                  /\ \A m \in TrueOptions : TrueGuarantee(m) <= result.value
             [] result.outcome = "conditional_win" ->
                  /\ \A m \in TrueOptions : TrueGuarantee(m) <= T
                  /\ result.reachable = TrueReach(result.move) /\ result.reachable > T
             [] result.outcome = "unknown" ->
                  /\ ~result.optimisticComplete
                  /\ \A m \in TrueOptions : TrueGuarantee(m) <= result.value
             [] OTHER ->
                  /\ \A m \in TrueOptions : TrueReach(m) <= T
                  /\ \A m \in TrueOptions : TrueGuarantee(m) <= result.value
                  /\ (result.outcome = "forced_draw") = (result.value = T)

\* What the proof says of its move is what is so, and so is every entry its
\* searches have left for the next one.
ProofSound == TableSound /\ OutcomeSound

=============================================================================
