--------------------------- MODULE DecisionSearch ---------------------------
(***************************************************************************)
(* The decision search (src/decision_search.cpp): the candidate moves of a *)
(* position are measured in hidden worlds, one world after the other, and  *)
(* the loop stops when the schedule ends, when the decision is settled or  *)
(* when the work it may spend is spent.  It composes the work ledger and   *)
(* the paired race.                                                        *)
(*                                                                         *)
(* What the search computes about a position is an input here: how large   *)
(* the move trees are, how many replies an index holds, which moves end    *)
(* the game, and what an endpoint is worth.  A generation visits its whole *)
(* tree or stops, truncated, at the limit of its permit.                   *)
(***************************************************************************)
EXTENDS WorkLedger, PairedRace

CONSTANTS
    Policies,            \* the policies a decision may run under
    TreeSizes,           \* nodes of a move tree
    IndexSizes,          \* replies in the index of a world
    Values,              \* what an endpoint may be worth
    RevalidationWeight,  \* REVALIDATION_NODE_EQUIVALENT
    Headroom,            \* full generations beyond two per world
    Quiet                \* candidates that place no tile: exchanges, passes

Policy == [adaptive : BOOLEAN,      \* stops by credits, not by a schedule
           referenceReplies : BOOLEAN, \* no reply index
           eliminate : BOOLEAN,     \* a paired race
           worlds : Nat, minimumWorlds : Nat, maxWorlds : Nat,
           candidateCap : Nat \ {0},
           rootNodeLimit : Nat, opponentNodeLimit : Nat, maxMovegenNodes : Nat,
           credits : Nat, margin : Int, allowance : Nat]

ASSUME InputsAssumption ==
    /\ Policies \subseteq Policy
    /\ TreeSizes \subseteq Nat \ {0} /\ IndexSizes \subseteq Nat /\ Values \subseteq Int
    /\ RevalidationWeight \in Nat /\ Headroom \in Nat /\ Quiet \subseteq Nat

\* A policy that measures worlds screens some of them, and no more than it has.
ASSUME PoliciesAssumption ==
    \A p \in Policies : p.worlds > 0 =>
        /\ p.minimumWorlds \in 1 .. p.worlds
        /\ p.adaptive => p.maxWorlds > 0

VARIABLES
    policy,
    ledger,
    race,
    pc,        \* "root", "world", "observe" or "done"
    complete,  \* whether the root moves were all enumerated
    world,     \* worldIndex
    index,     \* the reply index of the world: [complete, size]
    row,       \* the observations of the world so far
    start,     \* costs and delta nodes when the world began, cost after its base
    log,       \* what the completed worlds cost
    stop,      \* stopReason
    verdict    \* decision.completion

vars == <<policy, ledger, race, pc, complete, world, index, row, start, log, stop, verdict>>

\* What belongs to one iteration of the loop.
worldVars == <<index, row, start>>

NoIndex == [complete |-> FALSE, size |-> 0]
NoCost == [atStart |-> 0, afterBase |-> 0, delta |-> 0]

Init ==
    /\ policy \in Policies
    /\ ledger = NewLedger([fullCalls |-> 0, deltaCalls |-> 0, nodes |-> 0, worlds |-> 0])
    /\ race = NewRace(0, 0, 0)
    /\ pc = "root"
    /\ complete = FALSE
    /\ world = 0
    /\ index = NoIndex
    /\ row = <<>>
    /\ start = NoCost
    /\ log = <<>>
    /\ stop = "none"
    /\ verdict = "none"

-----------------------------------------------------------------------------
(* Policies and cost                                                       *)

\* The worlds of the deck, which always has as many as are planned.
Planned(p) == IF p.adaptive THEN p.maxWorlds ELSE p.worlds

\* Mutant of SizeEnvelope: the calls are sized to the worlds alone.
SizeEnvelopeOfWorlds(p) ==
    [fullCalls |-> IF p.referenceReplies THEN 1 + Planned(p) ELSE 1 + 2 * Planned(p) + Headroom,
     deltaCalls |-> IF p.referenceReplies THEN 0 ELSE Planned(p),
     nodes |-> IF p.adaptive /\ p.maxMovegenNodes < 4 * p.credits THEN 4 * p.credits
                                                                  ELSE p.maxMovegenNodes,
     worlds |-> Planned(p)]

\* sizeEnvelope: the ceilings follow from the schedule and the admission.
SizeEnvelope(p) ==
    [fullCalls |-> IF p.referenceReplies THEN 1 + Planned(p) * p.candidateCap
                                         ELSE 1 + 2 * Planned(p) + Headroom,
     deltaCalls |-> IF p.referenceReplies THEN 0 ELSE Planned(p) * p.candidateCap,
     nodes |-> IF p.adaptive /\ p.maxMovegenNodes < 4 * p.credits THEN 4 * p.credits
                                                                  ELSE p.maxMovegenNodes,
     worlds |-> Planned(p)]

\* modeledSearchCost
Cost(l) == l.nodes + RevalidationWeight * l.revalidations

\* A generation: whether it was permitted and ran to its end, and the ledger.
Generation(l, delta, requested, tree) ==
    IF Permitted(l, delta)
      THEN LET limit == NodeLimit(l, requested)
               visited == Least(tree, limit)
               after == Commit(ReserveGeneration(l, delta), delta, limit, visited)
           IN  [done |-> tree <= limit /\ ~ after.invariantFailure, ledger |-> after]
      ELSE [done |-> FALSE, ledger |-> ReserveGeneration(l, delta)]

\* Sums over the completed worlds, one record of the log each.
Sum(field) == Total([i \in DOMAIN log |-> log[i][field]])
Worst == CHOOSE w \in {log[i].base + log[i].observing : i \in DOMAIN log} :
            \A i \in DOMAIN log : log[i].base + log[i].observing <= w

\* projectedWorldCost: the larger of a typical world and the worst one.
ProjectedWorldCost ==
    IF Sum("rows") = 0
      THEN 0
      ELSE LET typical == Sum("base") \div Len(log)
                          + (Sum("observing") \div Sum("rows")) * Cardinality(race.active)
           IN  IF typical > Worst THEN typical ELSE Worst

\* What the observations of a world would cost, from the size of its index.
ProjectedObservations(size) ==
    LET usual == IF Sum("rows") > 0 THEN Sum("delta") \div Sum("rows") ELSE 0
        mean == IF log # <<>> THEN Sum("index") \div Len(log) ELSE 0
        each == IF mean > 0 /\ size > mean THEN (usual * size) \div mean ELSE usual
    IN  Cardinality(race.active) * (RevalidationWeight * size + each)

-----------------------------------------------------------------------------
(* The verdict                                                             *)

Resolved(reason) ==
    IF policy.adaptive
      THEN reason \in {"SingleCandidate", "Indifferent"}
      ELSE \/ ledger'.completed = policy.worlds
           \/ policy.eliminate /\ Cardinality(race'.active) = 1

\* Mutant of Completion: an adaptive search is complete when its deck is.
CompletionOfDeck(reason) ==
    IF ~ complete' THEN "RootLimited"
    ELSE IF ledger'.completed > 0 /\ (Resolved(reason) \/ reason = "DeckExhausted")
      THEN "Complete"
    ELSE "WorkLimited"

\* The completion reported for the state the search leaves behind.
Completion(reason) ==
    IF ~ complete' THEN "RootLimited"
    ELSE IF ledger'.completed > 0 /\ Resolved(reason) THEN "Complete"
    ELSE "WorkLimited"

\* The loop is left.
Stops(reason) ==
    /\ pc' = "done"
    /\ stop' = reason
    /\ verdict' = Completion(reason)

-----------------------------------------------------------------------------
(* The root                                                                *)

\* The root catalogue is enumerated and n candidates are admitted.  A search
\* without worlds answers by its static values.
EnumerateRoot(tree, n) ==
    LET fresh == NewLedger(SizeEnvelope(policy))
        generation == Generation(fresh, FALSE, policy.rootNodeLimit, tree)
        minimum == IF policy.eliminate THEN policy.minimumWorlds ELSE Planned(policy) + 1
    IN  /\ pc = "root"
        /\ n <= policy.candidateCap
        /\ ledger' = generation.ledger
        /\ complete' = generation.done
        /\ race' = NewRace(n, minimum, policy.allowance)
        /\ IF policy.worlds = 0
             THEN /\ pc' = "done"
                  /\ stop' = "ScheduleComplete"
                  /\ verdict' = IF complete' THEN "Complete" ELSE "RootLimited"
             ELSE /\ pc' = "world"
                  /\ UNCHANGED <<stop, verdict>>
        /\ UNCHANGED <<policy, world, index, row, start, log>>

-----------------------------------------------------------------------------
(* Before a world                                                          *)

\* Why an adaptive search begins no further world.  The worlds of the screen
\* are counted by their place in the deck, whether they were completed or not.
ReasonToStop ==
    IF ~ policy.adaptive \/ world = 0 THEN "none"
    ELSE IF world < policy.minimumWorlds
      THEN IF Cost(ledger) >= policy.credits THEN "CreditsExhausted" ELSE "none"
    ELSE IF Cardinality(race.active) <= 1 THEN "SingleCandidate"
    ELSE IF Indifferent(race, policy.margin) THEN "Indifferent"
    ELSE IF Cost(ledger) + ProjectedWorldCost > policy.credits THEN "CreditsExhausted"
    ELSE "none"

StopBeforeWorld ==
    /\ pc = "world"
    /\ world < Planned(policy)
    /\ ReasonToStop # "none"
    /\ UNCHANGED <<policy, ledger, race, complete, world, worldVars, log>>
    /\ Stops(ReasonToStop)

EndOfDeck ==
    /\ pc = "world"
    /\ world = Planned(policy)
    /\ UNCHANGED <<policy, ledger, race, complete, world, worldVars, log>>
    /\ Stops(IF policy.adaptive THEN "DeckExhausted" ELSE "ScheduleComplete")

\* A world is reserved and its reply index is built; when the index shows that
\* its observations do not fit the credits, the world is given up unmeasured.
BeginWorld(tree, size) ==
    LET reserved == ReserveWorld(ledger)
        base == IF policy.referenceReplies
                  THEN [done |-> FALSE, ledger |-> reserved]
                  ELSE Generation(reserved, FALSE, policy.opponentNodeLimit, tree)
        replies == IF ~ policy.referenceReplies /\ Permitted(reserved, FALSE) THEN size ELSE 0
        overpriced == /\ policy.adaptive
                      /\ ~ policy.referenceReplies
                      /\ world >= policy.minimumWorlds
                      /\ Cost(base.ledger) + ProjectedObservations(replies) > policy.credits
    IN  /\ pc = "world"
        /\ world < Planned(policy)
        /\ ReasonToStop = "none"
        /\ UNCHANGED <<policy, race, complete, world, log>>
        /\ IF ~ WorldsLeft(ledger)
             THEN /\ ledger' = reserved
                  /\ UNCHANGED worldVars
                  /\ Stops("LedgerExhausted")
             ELSE IF overpriced
               THEN /\ ledger' = DiscardWorld(base.ledger)
                    /\ UNCHANGED worldVars
                    /\ Stops("CreditsExhausted")
               ELSE /\ ledger' = base.ledger
                    /\ index' = [complete |-> base.done, size |-> replies]
                    /\ UNCHANGED row
                    /\ start' = [atStart |-> Cost(ledger), afterBase |-> Cost(base.ledger),
                                 delta |-> ledger.deltaNodes]
                    /\ pc' = "observe"
                    /\ UNCHANGED <<stop, verdict>>

-----------------------------------------------------------------------------
(* In a world                                                              *)

Unmeasured == race.active \ {row[i].candidate : i \in DOMAIN row}

\* Candidates are measured in the order of their numbers.
Upcoming == CHOOSE c \in Unmeasured : \A d \in Unmeasured : c <= d

\* The opponent's replies are recovered from the index, by a delta generation
\* where the candidate put tiles, or enumerated in full when there is no
\* complete index, no complete delta, or no index at all.
Replies(c, delta, full) ==
    LET charged == [ledger EXCEPT !.revalidations = @ + index.size]
        recovered == IF c \in Quiet
                       THEN [done |-> TRUE, ledger |-> charged]
                       ELSE Generation(charged, TRUE, policy.opponentNodeLimit, delta)
    IN  IF index.complete /\ recovered.done
          THEN recovered
          ELSE Generation(IF index.complete THEN recovered.ledger ELSE ledger,
                          FALSE, policy.opponentNodeLimit, full)

\* Mutants of GiveUpWorld: the observations made so far stay in the row; the
\* world is tried again.
GiveUpKeepingRow(l) ==
    /\ ledger' = DiscardWorld(l)
    /\ UNCHANGED <<policy, race, complete, log, worldVars>>
    /\ IF policy.adaptive
         THEN world' = world + 1 /\ pc' = "world" /\ UNCHANGED <<stop, verdict>>
         ELSE UNCHANGED world /\ Stops("IncompleteWorld")

GiveUpAndRetry(l) ==
    /\ ledger' = DiscardWorld(l)
    /\ index' = NoIndex /\ row' = <<>> /\ start' = NoCost
    /\ UNCHANGED <<policy, race, complete, log, world>>
    /\ IF policy.adaptive
         THEN pc' = "world" /\ UNCHANGED <<stop, verdict>>
         ELSE Stops("IncompleteWorld")

\* A world with an incomplete row contributes nothing.  A fixed schedule stops
\* there, an adaptive search goes on with the next world.  (The code gives a
\* world up also when a transition is refused, which the moves of its own
\* generator never are.)
GiveUpWorld(l) ==
    /\ ledger' = DiscardWorld(l)
    /\ index' = NoIndex /\ row' = <<>> /\ start' = NoCost
    /\ UNCHANGED <<policy, race, complete, log>>
    /\ IF policy.adaptive
         THEN world' = world + 1 /\ pc' = "world" /\ UNCHANGED <<stop, verdict>>
         ELSE UNCHANGED world /\ Stops("IncompleteWorld")

\* The next candidate ends the game, or is answered by the opponent's best
\* reply; either way its endpoint is evaluated.
Observe(over, delta, full, value) ==
    LET answered == IF over THEN [done |-> TRUE, ledger |-> ledger]
                            ELSE Replies(Upcoming, delta, full)
    IN  /\ pc = "observe"
        /\ Unmeasured # {}
        /\ IF answered.done
             THEN /\ ledger' = answered.ledger
                  /\ row' = Append(row, [candidate |-> Upcoming, world |-> world, value |-> value])
                  /\ UNCHANGED <<policy, race, pc, complete, world, index, start, log, stop,
                                 verdict>>
             ELSE GiveUpWorld(answered.ledger)

\* Every active candidate was measured: the row is one batch of the race.
CompleteWorld ==
    LET cost == Cost(ledger)
    IN  /\ pc = "observe"
        /\ Unmeasured = {}
        /\ ledger' = CommitWorld(ledger)
        /\ race' = CommitBatch(race, row)
        /\ log' = Append(log, [base |-> start.afterBase - start.atStart,
                               observing |-> cost - start.afterBase,
                               delta |-> ledger.deltaNodes - start.delta,
                               rows |-> Len(row),
                               index |-> index.size])
        /\ index' = NoIndex /\ row' = <<>> /\ start' = NoCost
        /\ UNCHANGED <<policy, complete>>
        /\ IF race'.invariantFailure
             THEN pc' = "done" /\ stop' = "error" /\ UNCHANGED <<world, verdict>>
             ELSE IF policy.eliminate /\ Cardinality(race'.active) = 1
               THEN UNCHANGED world /\ Stops("SingleCandidate")
               ELSE world' = world + 1 /\ pc' = "world" /\ UNCHANGED <<stop, verdict>>

\* The decision has been returned.
Returned == pc = "done" /\ UNCHANGED vars

Next ==
    \/ \E tree \in TreeSizes, n \in 1 .. policy.candidateCap : EnumerateRoot(tree, n)
    \/ StopBeforeWorld
    \/ EndOfDeck
    \/ \E tree \in TreeSizes, size \in IndexSizes : BeginWorld(tree, size)
    \/ \E over \in BOOLEAN, delta, full \in TreeSizes, value \in Values :
          Observe(over, delta, full, value)
    \/ CompleteWorld
    \/ Returned

Spec == Init /\ [][Next]_vars
-----------------------------------------------------------------------------
(* Properties                                                              *)

TypeOK ==
    /\ policy \in Policies
    /\ ledger \in Ledger
    /\ race.active \subseteq DOMAIN race.values
    /\ pc \in {"root", "world", "observe", "done"}
    /\ complete \in BOOLEAN
    /\ world \in 0 .. Planned(policy)
    /\ index \in [complete : BOOLEAN, size : IndexSizes \cup {0}]
    /\ Len(row) <= Cardinality(race.active)
    /\ start \in [atStart : Nat, afterBase : Nat, delta : Nat]
    /\ Len(log) = race.batches
    /\ stop \in {"none", "ScheduleComplete", "SingleCandidate", "Indifferent",
                 "CreditsExhausted", "DeckExhausted", "IncompleteWorld"}
    /\ verdict \in {"none", "Complete", "RootLimited", "WorkLimited"}

\* The books of a decision: every world that was reserved is committed to the
\* ledger and the race together or discarded, before the next one and before
\* the search ends, and no permit is left out.  Neither the ledger nor the
\* race ever reports a broken invariant.
WorldsAccounted ==
    /\ TypeOK
    /\ ledger.completed = race.batches
    /\ ledger.worldReserved = (pc = "observe")
    /\ ledger.completed + ledger.discarded \in
          IF pc = "done" THEN {world, world + 1} ELSE {world}
    /\ ~ ledger.permitOut
    /\ ~ ledger.invariantFailure /\ ~ race.invariantFailure

WithinEnvelope ==
    /\ ledger.fullCalls <= ledger.envelope.fullCalls
    /\ ledger.deltaCalls <= ledger.envelope.deltaCalls
    /\ ledger.nodes <= ledger.envelope.nodes
    /\ ledger.completed <= ledger.envelope.worlds

SizedToSchedule ==
    pc = "observe" =>
        IF policy.referenceReplies
          THEN ledger.fullCalls + Cardinality(Unmeasured) <= ledger.envelope.fullCalls
          ELSE ledger.deltaCalls + Cardinality(Unmeasured) <= ledger.envelope.deltaCalls

\* No ceiling of the envelope is ever exceeded, whatever falls back to full
\* generation; and the ceilings are sized to the schedule and the admission:
\* every candidate that is still to be measured has a call left, so that no
\* ordinary generation is refused for the number of calls.
EnvelopeFits == WithinEnvelope /\ SizedToSchedule

\* Common random numbers: the candidates are compared world by world.  The
\* i-th measurements of any two candidates come from the same world, also when
\* worlds in between were given up or candidates were eliminated.
SameWorlds ==
    \A c, d \in DOMAIN race.values : \A i \in 1 .. Pairs(race, c, d) :
        race.values[c][i].world = race.values[d][i].world

\* A candidate that leaves the race has been measured in the minimum of
\* worlds and is behind the leader of that moment, who stays, by more than the
\* allowance in every mean that is consistent with it.
DroppedBehindLeader ==
    [][\A c \in race.active : (pc # "root" /\ c \notin race'.active) =>
          LET b == Leader(race')
          IN  /\ Len(race'.values[c]) >= race.minimum
              /\ Total(Differences(race', c, b)) < - race.allowance * Len(race'.values[c])]_vars

\* "Complete" is said only of a settled decision: every root move was
\* enumerated, and a fixed schedule was measured without a gap or down to one
\* candidate, an adaptive one down to one candidate or to indifference.
CompleteIsSettled ==
    (verdict = "Complete" /\ policy.worlds > 0) =>
        /\ complete
        /\ race.batches > 0
        /\ IF policy.adaptive
             THEN Cardinality(race.active) = 1 \/ Indifferent(race, policy.margin)
             ELSE /\ ledger.discarded = 0
                  /\ race.batches = policy.worlds \/ Cardinality(race.active) = 1
=============================================================================
