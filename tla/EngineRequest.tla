---------------------------- MODULE EngineRequest ----------------------------
(* One request to the engine, from its arrival to its answer:                *)
(* src/src/engine.cpp, parseRequest and handleRequest with everything they   *)
(* call.  The steps are the ones handleRequest takes in order: parse,        *)
(* generate the root, prove (HiddenEndgame), settle on a move that ends the  *)
(* game at once, rank, admit candidates, sample row by row, choose.          *)
(*                                                                           *)
(* Abstracted: what a placement is statically worth beyond its score, what   *)
(* holding a tile is worth, and what a candidate is worth in a sample are    *)
(* numbers of the request.  The clock may cut generation to any prefix of    *)
(* its order and may stop the sampling wherever the code looks at it.        *)
EXTENDS HiddenEndgame

CONSTANTS
    Distribution,          \* TILE_COUNTS
    ExactBagMax,           \* endgameExactBagMax
    StaticTilesMax,        \* endgameStaticTilesMax
    SimTopK,               \* simTopK
    SimSamples,            \* simSamples
    ExchangeMost,          \* the most tiles an exchange may name, 7
    Requests               \* the requests that may arrive

VARIABLES
    moves,                 \* the root's placements, one per footprint
    ranked,                \* the admissible ones, by static equity
    candidates,            \* what the sampling search compares
    sim,                   \* the sums of the sampling search
    answer                 \* the response, or None

\* What a request says, and what is known of its position: the order in which
\* placements are found, their scores and worths.
RequestShape ==
    [board : SUBSET Plays, rack : Tiles, unseen : Tiles, oppRackCount : Nat, bagCount : Nat,
     streak : Nat, myScore : Int, oppScore : Int, solver : STRING, topN : Int, lambda : Int,
     unlimited : BOOLEAN, exchangeAllowed : BOOLEAN, forceHidden : BOOLEAN, sampleCap : Int,
     nodeBudget : Nat, genLimit : Nat, maxScenarios : Nat, withinNodes : SUBSET Plays,
     order : Seq(Plays), scoreOf : [Plays -> -MostScore..MostScore],
     dangerOf : [{Covers[m] : m \in Plays} -> Int], leaveOf : [Kinds -> Int],
     freshTile : Int, tempoCost : Int,
     priceOf : [1..SimSamples -> [Plays \cup {"exchange", "pass"} -> Int]]]

\* Whatever can be placed on the board of the request, now or later, is found
\* by the generator, once.
FindsAll(r) ==
    /\ \A i, j \in DOMAIN r.order : r.order[i] = r.order[j] => i = j
    /\ \A m \in Plays \ Range(r.order) :
         ~ Needs[m] \subseteq Occupied(r.board \cup Range(r.order))

\* "A player holds a full rack while there are tiles to draw": study.ts.  Of an
\* opponent about whom nothing is known the request says 0.
RacksFilled(r) ==
    /\ Total(r.rack) <= RackSize /\ r.oppRackCount <= RackSize
    /\ r.bagCount > 0 => r.oppRackCount \in {0, RackSize} /\ Total(r.rack) = RackSize

ASSUME RequestAssumption ==
    /\ Distribution \in Tiles /\ None \notin Keys
    /\ {TableSize, SimTopK, SimSamples, ExchangeMost} \subseteq Nat \ {0}
    /\ {Infinity, MostScore} \subseteq Nat /\ ExactBagMax \in 0..2
    /\ \A r \in Requests :
         /\ r \in RequestShape /\ FindsAll(r) /\ RacksFilled(r)
         /\ 2 * (Stake(r.rack) + Stake(Distribution)) < Infinity

requestVars == <<req, proofVars, moves, ranked, candidates, sim, answer>>

---------------------------------------------------------------------------
(* Moves, as they are answered: a placement, an exchange or a pass.         *)

PlaceMove(m) == [type |-> "place", play |-> m, drops |-> <<>>]
ExchangeMove(drops) == [type |-> "exchange", play |-> None, drops |-> drops]
PassMove == [type |-> "pass", play |-> None, drops |-> <<>>]
MoveOf(option) == IF option = Pass THEN PassMove ELSE PlaceMove(option)

---------------------------------------------------------------------------
(* parseRequest.                                                            *)

BoardTiles == [k \in Kinds |-> SumFunctionOnSet([m \in req.board |-> Uses[m][k]], req.board)]

\* A tile the distribution no longer holds is not subtracted below zero.
UnseenOf(seen) == [k \in Kinds |-> Max({0, Distribution[k] - seen[k]})]

Solvers == {"sim", "static"}
TopN == Min({64, Max({1, req.topN})})

Refused(why) == [solver |-> "error", move |-> why, value |-> 0, outcome |-> None, rows |-> <<>>]

ParseRequest ==
    /\ stage = "parse"
    /\ IF req.solver \in Solvers
       THEN /\ req' = [req EXCEPT !.unseen = UnseenOf(Plus(BoardTiles, req.rack))]
            /\ stage' = "generate"
            /\ UNCHANGED answer
       ELSE answer' = Refused("bad solver") /\ stage' = "done" /\ UNCHANGED req
    /\ UNCHANGED <<unit, solver, guaranteed, reachable, result, moves, ranked, candidates, sim>>

---------------------------------------------------------------------------
(* The root: placements that differ only in the face a choice tile shows    *)
(* share a footprint, and the first of those that score most stands for it. *)

Footprint(m) == <<Covers[m], Uses[m]>>
Twins(m, list) == Filtered(list, {v \in Range(list) : Footprint(v) = Footprint(m)})
BestFace(twins) ==
    twins[Min({i \in DOMAIN twins : \A j \in DOMAIN twins : req.scoreOf[twins[j]] <= req.scoreOf[twins[i]]})]

\* A footprint keeps the place of the face found first.
Deduped(list) ==
    LET firsts == Filtered(list, {m \in Range(list) : Twins(m, list)[1] = m})
    IN  [i \in DOMAIN firsts |-> BestFace(Twins(firsts[i], list))]

AccountedFor == req.oppRackCount > 0 /\ Total(req.unseen) = req.oppRackCount + req.bagCount
TilesLeft == Total(req.rack) + req.oppRackCount + req.bagCount

\* The proof is tried when every unseen tile is accounted for and the bag is
\* nearly empty; by the static solver only with few tiles left.
TriesProof ==
    /\ AccountedFor
    /\ req.bagCount <= ExactBagMax
    /\ req.forceHidden \/ req.solver = "sim" \/ TilesLeft <= StaticTilesMax

\* What an enumeration that is cut short still finds is any part of the whole,
\* in its order (see MoveGenerator): the static solver's node limit cuts to what
\* the request says, the other solver's clock anywhere, or nowhere when the
\* request is unlimited.
Generated ==
    LET parts == CASE req.solver = "static" -> {req.withinNodes}
                   [] req.solver = "sim" /\ req.unlimited -> {Plays}
                   [] OTHER -> SUBSET Range(RootPlays)
    IN  {Filtered(RootPlays, part) : part \in parts}

GenerateRoot ==
    /\ stage = "generate"
    /\ \E list \in Generated : moves' = Deduped(list)
    /\ stage' = IF TriesProof THEN "proof" ELSE "terminal"
    /\ UNCHANGED <<req, unit, solver, guaranteed, reachable, result, ranked, candidates, sim, answer>>

---------------------------------------------------------------------------
(* Reports: rows by value, the chosen one first among equals, then by their *)
(* order; the rest is cut.                                                  *)

RowBefore(a, b) ==
    \/ a.value > b.value
    \/ a.value = b.value /\ a.chosen /\ ~b.chosen
    \/ a.value = b.value /\ a.chosen = b.chosen /\ a.order < b.order

SerializeRows(rows) ==
    LET sorted == Sorted(rows, RowBefore)
    IN  SubSeq(sorted, 1, Min({TopN, Len(sorted)}))

Row(m, value, chosen, order) ==
    [move |-> m, value |-> value, chosen |-> chosen, order |-> order, mean |-> value, parts |-> value]

BuildEndgameReport(chosen) ==
    SerializeRows({Row(MoveOf(Options[i]), guaranteed[i], Options[i] = chosen, i) : i \in DOMAIN Options})

---------------------------------------------------------------------------
(* What the proof found, if anything.                                       *)

Respond(kind, m, value, outcome, rows) ==
    [solver |-> kind, move |-> m, value |-> value, outcome |-> outcome, rows |-> rows]

UseProof ==
    /\ stage = "proof_over"
    /\ IF result.found /\ result.solved
       THEN /\ answer' = Respond("endgame", MoveOf(result.move), result.value, result.outcome,
                                 BuildEndgameReport(result.move))
            /\ stage' = "done"
       ELSE IF req.forceHidden THEN answer' = Refused("hidden_no_result") /\ stage' = "done"
       ELSE stage' = "terminal" /\ UNCHANGED answer
    /\ UNCHANGED <<req, unit, solver, guaranteed, reachable, result, moves, ranked, candidates, sim>>

---------------------------------------------------------------------------
(* Moves that end the game at once.                                         *)

\* immediateOutMargin: does playing `m` empty the rack where that ends the
\* game, and by how much does it win from here on?
EndsAtOnce(m) ==
    /\ Total(req.unseen) = req.oppRackCount + req.bagCount
    /\ Total(Uses[m]) = Total(req.rack)
    /\ req.oppRackCount + req.bagCount <= RackSize
\* Without the doubling.
OutMarginOnce(m) == req.scoreOf[m] + Points(req.unseen)
OutMargin(m) == req.scoreOf[m] + 2 * Points(req.unseen)

Outs == {i \in DOMAIN moves : EndsAtOnce(moves[i])}
BestOut == Min({i \in Outs : \A j \in Outs : OutMargin(moves[j]) <= OutMargin(moves[i])})

LeaveValue(c) == SumFunctionOnSet([k \in Kinds |-> c[k] * req.leaveOf[k]], Kinds)

\* The score, what the rack keeps and what the placement opens.
StaticEquity(m) == req.scoreOf[m] + LeaveValue(Minus(req.rack, Uses[m])) - req.dangerOf[Covers[m]]

RankedBefore(i, j) ==
    \/ StaticEquity(moves[i]) > StaticEquity(moves[j])
    \/ StaticEquity(moves[i]) = StaticEquity(moves[j]) /\ i < j
Ranked == Sorted(DOMAIN moves \ Outs, RankedBefore)

Immediate(outcome) ==
    Respond("endgame", PlaceMove(moves[BestOut]), OutMargin(moves[BestOut]), outcome, <<>>)

\* A move that ends the game with a win or a draw is returned.  So is the best
\* of those that lose, when the generator found nothing else and no exchange is
\* allowed; otherwise those that lose are not considered any further.
SettleAtOnce ==
    /\ stage = "terminal"
    /\ ranked' = Ranked
    /\ IF Outs # {} /\ OutMargin(moves[BestOut]) >= Threshold
       THEN /\ answer' = Immediate(IF OutMargin(moves[BestOut]) > Threshold
                                   THEN "forced_win" ELSE "forced_draw")
            /\ stage' = "done"
       ELSE IF Outs # {} /\ Ranked = <<>> /\ ~req.exchangeAllowed
       THEN answer' = Immediate("forced_loss") /\ stage' = "done"
       ELSE /\ stage' = IF req.oppRackCount > 0 /\ req.solver = "sim" THEN "admit" ELSE "greedy"
            /\ UNCHANGED answer
    /\ UNCHANGED <<req, unit, solver, guaranteed, reachable, result, moves, candidates, sim>>

---------------------------------------------------------------------------
(* Exchanges: one per size, each dropping one more tile, the one whose loss *)
(* leaves the best rack.                                                    *)

DropsBest(rack) ==
    LET held == {k \in Kinds : rack[k] > 0}
        best == {k \in held : \A j \in held : LeaveValue(Without(rack, j)) <= LeaveValue(Without(rack, k))}
    IN  Filtered(SetToSeq(Kinds), best)[1]

\* As many as are held.
DrawableFromRack == Min({Total(req.rack), ExchangeMost})
Drawable == Min({Total(req.rack), req.bagCount, ExchangeMost})

\* The rack after dropping n tiles and the kinds dropped, in order.
Dropping[n \in Nat] ==
    IF n = 0 THEN [rack |-> req.rack, dropped |-> <<>>]
    ELSE LET before == Dropping[n - 1]
             k == DropsBest(before.rack)
         IN  [rack |-> Without(before.rack, k), dropped |-> Append(before.dropped, k)]

DropsCount(drops) == [k \in Kinds |-> Cardinality({i \in DOMAIN drops : drops[i] = k})]

EnumerateExchanges ==
    IF req.exchangeAllowed /\ Total(req.rack) > 0
    THEN [n \in 1..Drawable |-> ExchangeMove(Dropping[n].dropped)]
    ELSE <<>>

---------------------------------------------------------------------------
(* Admission.                                                               *)

\* The highest scorer among the admissible moves, the first of them.
TopScorer(list) ==
    Min({i \in Range(list) : \A j \in Range(list) : req.scoreOf[moves[j]] <= req.scoreOf[moves[i]]})

Admitted ==
    LET first == SubSeq(ranked, 1, Min({SimTopK, Len(ranked)}))
    IN  IF ranked = <<>> \/ TopScorer(ranked) \in Range(first) THEN first
        ELSE Append(first, TopScorer(ranked))

\* expandAdmittedAssignments: every admitted footprint is followed by all the
\* faces it can be played with, which an unbounded second generation finds.
Faces(m) == Filtered(RootPlays, {v \in Plays : Footprint(v) = Footprint(m)})
\* What was admitted, one face of each.
Unexpanded(list) == list
Expanded(list) == FlattenSeq([i \in DOMAIN list |-> Faces(list[i])])

AdmitCandidates ==
    /\ stage = "admit"
    /\ LET places == Expanded([i \in DOMAIN Admitted |-> moves[Admitted[i]]])
       IN  candidates' = [i \in DOMAIN places |-> PlaceMove(places[i])]
                            \o EnumerateExchanges \o <<PassMove>>
    /\ LET zero == [i \in DOMAIN candidates' |-> 0]
       IN  sim' = [done |-> 0, accum |-> zero, accumSq |-> zero, parts |-> zero]
    /\ stage' = "sample"
    /\ UNCHANGED <<req, unit, solver, guaranteed, reachable, result, moves, ranked, answer>>

---------------------------------------------------------------------------
(* simulate: a sample is a rack of the opponent and an order of the bag, and *)
(* every candidate is valued on it before any sum is touched.                *)

Samples == IF req.sampleCap > 0 THEN Min({req.sampleCap, SimSamples}) ELSE SimSamples

\* What a candidate is worth in the sample `s`: score, leave and potential,
\* less the opponent's reply.
Price(c, s) == req.priceOf[s][IF c.type = "place" THEN c.play ELSE c.type] + Len(c.drops)

\* The clock is obeyed from the third sample on, when there is one.
ClockMayStop(done) == ~req.unlimited /\ done >= 3

\* The sums shown with a candidate grow while a sample is being valued.
PartsAfter(s, upto) ==
    [i \in DOMAIN candidates |-> sim.parts[i] + IF i <= upto THEN Price(candidates[i], s) ELSE 0]

\* A sample every candidate has finished is committed.
CommitRow(s) ==
    [done |-> s,
     accum |-> [i \in DOMAIN candidates |-> sim.accum[i] + Price(candidates[i], s)],
     accumSq |-> [i \in DOMAIN candidates |-> sim.accumSq[i] + Price(candidates[i], s) * Price(candidates[i], s)],
     parts |-> PartsAfter(s, Len(candidates))]

\* The candidates that got there in time keep it.
CutRowKeeping(s, upto) ==
    [sim EXCEPT !.accum = [i \in DOMAIN candidates |->
                             sim.accum[i] + IF i <= upto THEN Price(candidates[i], s) ELSE 0],
                !.parts = PartsAfter(s, upto)]

\* A sample the clock cuts before the candidate after `upto` is not.
CutRow(s, upto) == [sim EXCEPT !.parts = PartsAfter(s, upto)]

SampleRow ==
    /\ stage = "sample"
    /\ sim' = CommitRow(sim.done + 1)
    /\ stage' \in {IF sim'.done = Samples THEN "rank" ELSE "sample"}
                    \cup IF ClockMayStop(sim'.done) THEN {"rank"} ELSE {}
    /\ UNCHANGED <<req, unit, solver, guaranteed, reachable, result, moves, ranked, candidates, answer>>

ClockCutsRow ==
    /\ stage = "sample" /\ ClockMayStop(sim.done)
    /\ \E upto \in 0..Len(candidates) - 1 : sim' = CutRow(sim.done + 1, upto)
    /\ stage' = "rank"
    /\ UNCHANGED <<req, unit, solver, guaranteed, reachable, result, moves, ranked, candidates, answer>>

\* Mean less lambda deviations, times the number of samples.  The deviation is
\* of no less than zero, rounded down; lambda is a whole number.
Root2(n) == Max({r \in 0..n : r * r <= n})
Spread(i) == Root2(Max({0, sim.done * sim.accumSq[i] - sim.accum[i] * sim.accum[i]}))
RiskValue(i) == sim.accum[i] - req.lambda * Spread(i)

\* Rows by what they score on average.
BuildCandidateReportByMean(chosen) ==
    SerializeRows({Row(candidates[i], sim.accum[i], i = chosen, i) : i \in DOMAIN candidates})

BuildCandidateReport(chosen) ==
    SerializeRows({[Row(candidates[i], RiskValue(i), i = chosen, i)
                        EXCEPT !.mean = sim.accum[i], !.parts = sim.parts[i]] : i \in DOMAIN candidates})

\* The first candidate with the largest value is played.
RankCandidates ==
    /\ stage = "rank"
    /\ LET all == DOMAIN candidates
           best == Min({i \in all : \A j \in all : RiskValue(j) <= RiskValue(i)})
       IN  answer' = Respond("sim", candidates[best], RiskValue(best), None, BuildCandidateReport(best))
    /\ stage' = "done"
    /\ UNCHANGED <<req, unit, solver, guaranteed, reachable, result, moves, ranked, candidates, sim>>

---------------------------------------------------------------------------
(* No simulation: static equity, exchanges included.                        *)

ExchangeEquity(c) == LeaveValue(Minus(req.rack, DropsCount(c.drops))) + req.freshTile * Len(c.drops) - req.tempoCost

\* buildGreedyReport: the first of the ranking, then every exchange.
GreedyRows ==
    LET k == Min({TopN, Len(ranked)})
    IN  [i \in 1..k |-> [move |-> PlaceMove(moves[ranked[i]]), value |-> StaticEquity(moves[ranked[i]])]]
          \o [i \in DOMAIN EnumerateExchanges |->
                [move |-> EnumerateExchanges[i], value |-> ExchangeEquity(EnumerateExchanges[i])]]

\* The best of the ranking, unless an exchange is worth more: the first of
\* those worth most.  With neither, a pass.
GreedyChoice ==
    LET exchanges == Range(EnumerateExchanges)
        most == {c \in exchanges : \A d \in exchanges : ExchangeEquity(d) <= ExchangeEquity(c)}
        first == CHOOSE c \in most : \A d \in most : Len(c.drops) <= Len(d.drops)
        front == moves[ranked[1]]
    IN  IF exchanges # {} /\ (ranked = <<>> \/ ExchangeEquity(first) > StaticEquity(front)) THEN first
        ELSE IF ranked = <<>> THEN PassMove ELSE PlaceMove(front)

BuildGreedyReport(chosen) ==
    SerializeRows({Row(GreedyRows[i].move, GreedyRows[i].value, GreedyRows[i].move = chosen, i) :
                     i \in DOMAIN GreedyRows})

PlayGreedy ==
    /\ stage = "greedy"
    /\ answer' = Respond("greedy", GreedyChoice, 0, None, BuildGreedyReport(GreedyChoice))
    /\ stage' = "done"
    /\ UNCHANGED <<req, unit, solver, guaranteed, reachable, result, moves, ranked, candidates, sim>>

---------------------------------------------------------------------------
(* runValidation: the other mode, which says whether a move may be made from *)
(* the position of the request.                                             *)

RunValidation(move) ==
    CASE move.type = "pass" -> TRUE
      [] move.type = "exchange" ->
           /\ move.drops # <<>>
           /\ req.exchangeAllowed
           /\ Within(DropsCount(move.drops), req.rack)
           /\ Len(move.drops) <= req.bagCount
      [] move.type = "place" -> move.play \in Playable(Root(NoTiles))

---------------------------------------------------------------------------
Next ==
    \/ ParseRequest \/ GenerateRoot
    \/ ProofNext /\ UNCHANGED <<moves, ranked, candidates, sim, answer>>
    \/ UseProof \/ SettleAtOnce \/ AdmitCandidates
    \/ SampleRow \/ ClockCutsRow \/ RankCandidates \/ PlayGreedy

Init ==
    /\ req \in Requests /\ stage = "parse"
    /\ ProofInit
    /\ moves = <<>> /\ ranked = <<>> /\ candidates = <<>>
    /\ sim = [done |-> 0, accum |-> <<>>, accumSq |-> <<>>, parts |-> <<>>]
    /\ answer = None

Answered == stage = "done" /\ UNCHANGED requestVars
Spec == Init /\ [][Next \/ Answered]_requestVars

---------------------------------------------------------------------------
(* Properties.                                                              *)

\* What the rules say of a placement at the root: it ends the game when it
\* empties the rack and no more is hidden than the opponent may hold.
EndsTheGame(m) ==
    /\ AccountedFor
    /\ Uses[m] = req.rack
    /\ Total(req.unseen) <= RackSize

\* A proof needs no search when the game is over on this turn: what is claimed
\* of a move on the endgame channel is what it is worth against every defence,
\* its class is the one that margin has, and where only an estimate is given,
\* the move is never one that ends the game -- it would have been a loss, known
\* for certain, taken over moves nobody has refuted.
TerminalMovesSettled ==
    stage = "done" =>
        LET option == IF answer.move = PassMove THEN Pass ELSE answer.move.play IN
        /\ answer.solver = "endgame" =>
             /\ answer.value = TrueGuarantee(option)
             /\ answer.outcome = "forced_win" <=> answer.value > Threshold
             /\ answer.outcome = "forced_draw" => answer.value = Threshold
        /\ answer.solver \in {"sim", "greedy"} /\ answer.move.type = "place" =>
             ~EndsTheGame(answer.move.play)

\* The candidates are compared on the same samples, whenever the clock stops
\* the comparison: every sum is over all samples done and nothing else, and at
\* least three were done unless fewer were asked for.
CommonSamples ==
    stage = "rank" =>
        LET price(i) == [s \in 1..sim.done |-> Price(candidates[i], s)]
            square(i) == [s \in 1..sim.done |-> Price(candidates[i], s) * Price(candidates[i], s)]
        IN  /\ sim.done >= Min({3, Samples})
            /\ \A i \in DOMAIN candidates :
                 /\ sim.accum[i] = SumFunctionOnSet(price(i), 1..sim.done)
                 /\ sim.accumSq[i] = SumFunctionOnSet(square(i), 1..sim.done)

\* One face per footprint is ranked, and the cut is made on those; still, of a
\* complete generation, a placement is left out of the comparison only when
\* SimTopK footprints with a face at least as good are in, and a highest scorer
\* of those that do not end the game is always in.
NothingBetterLeftOut ==
    stage = "sample" /\ req.unlimited =>
        LET compared == {candidates[i].play : i \in {j \in DOMAIN candidates : candidates[j].type = "place"}}
            open == {m \in Playable(Root(NoTiles)) : ~EndsTheGame(m)}
            better(m) == {Footprint(v) : v \in {u \in compared : StaticEquity(u) >= StaticEquity(m)}}
        IN  /\ compared \subseteq open
            /\ \A m \in open \ compared :
                 /\ Cardinality(better(m)) >= SimTopK
                 /\ \E v \in compared : req.scoreOf[v] >= req.scoreOf[m]

\* What one mode answers the other accepts: validation, which re-reads the
\* request and knows nothing of the search, allows every move the search may
\* answer, and everything else it compared.
AnswersAreLegal ==
    /\ stage = "done" /\ answer.solver # "error" => RunValidation(answer.move)
    /\ stage = "sample" => \A i \in DOMAIN candidates : RunValidation(candidates[i])

\* The report explains the move that was played: whatever was cut from it, its
\* first row is that move.  (Where the move is not the best by value, see
\* PlayedMoveReported.)
ReportLeadsWithPlayed ==
    stage = "done" /\ answer.rows # <<>> /\ answer.outcome # "conditional_win" =>
        answer.rows[1].move = answer.move

\* "The report exists to explain the move that was played, so the played move
\* must survive truncation": engine.cpp, serializeRows.
PlayedMoveReported ==
    stage = "done" /\ answer.rows # <<>> =>
        \E i \in DOMAIN answer.rows : answer.rows[i].chosen

\* "ForcedLoss -- proven: no line reaches a win, and best play still loses":
\* engine.cpp, EndgameOutcome.
ForcedLossHasNoWinningLine ==
    stage = "done" /\ answer.outcome = "forced_loss" =>
        \A m \in TrueOptions : TrueReach(m) <= Threshold

=============================================================================
