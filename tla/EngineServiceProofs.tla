------------------------- MODULE EngineServiceProofs -------------------------
(***************************************************************************)
(* Proofs about the compute service, in three layers: the queue and its    *)
(* slots, the registry of jobs over the queue, and the POST handlers over  *)
(* both.  They hold for any number of requests, accounts, games and slots, *)
(* every bound of the cache and every lifetime of a result.                *)
(***************************************************************************)
EXTENDS EngineService, Induction, SequenceTheorems

USE RequestsAssumption, PrioritiesAssumption, LimitsAssumption

-----------------------------------------------------------------------------
(* Type correctness                                                        *)

\* The number of jobs ahead is a number: the line is finite.
LEMMA AheadType ==
    ASSUME NEW ranks, NEW line \in SUBSET Requests, NEW j
    PROVE  Ahead(ranks, line, j) \in Nat
<1>1. {i \in line \ {j} : Outranks(ranks[i], ranks[j])} \in SUBSET Requests
  OBVIOUS
<1> QED
  BY <1>1, FS_Subset, FS_CardinalityType DEF Ahead

LEMMA SyncType ==
    ASSUME TypeOK, NEW ranks, NEW line \in SUBSET Requests, SyncPositions(ranks, line)
    PROVE  announced' \in [Requests -> Nat]
BY AheadType DEF SyncPositions, TypeOK

LEMMA CardinalityType ==
    ASSUME NEW S \in SUBSET Requests
    PROVE  IsFiniteSet(S) /\ Cardinality(S) \in Nat
BY FS_Subset, FS_CardinalityType

LEMMA AbandonType ==
    ASSUME TypeOK, NEW j, NEW why \in {"cancelled", "timeout"}, Abandon(j, why)
    PROVE  /\ waiting' \in SUBSET Requests
           /\ state' \in [Requests -> {"none", "waiting", "running", "settled"}]
           /\ outcome' \in [Requests -> {"pending", "value", "error", "cancelled", "timeout"}]
           /\ jobs' \in [Keys -> Requests \cup {None}]
           /\ announced' \in [Requests -> Nat]
<1>1. waiting \ {j} \in SUBSET Requests
  BY DEF TypeOK
<1>2. announced' \in [Requests -> Nat]
  BY <1>1, SyncType DEF Abandon
<1> QED
  BY <1>1, <1>2 DEF Abandon, TypeOK

LEMMA AbortType ==
    ASSUME TypeOK, NEW j, AbortJob(j)
    PROVE  /\ waiting' \in SUBSET Requests
           /\ state' \in [Requests -> {"none", "waiting", "running", "settled"}]
           /\ outcome' \in [Requests -> {"pending", "value", "error", "cancelled", "timeout"}]
           /\ jobs' \in [Keys -> Requests \cup {None}]
           /\ announced' \in [Requests -> Nat]
           /\ aborted' \in [Requests -> BOOLEAN]
<1>1. CASE state[j] = "waiting"
  BY <1>1, AbandonType DEF AbortJob, TypeOK
<1>2. CASE state[j] # "waiting"
  BY <1>2 DEF AbortJob, TypeOK
<1> QED
  BY <1>1, <1>2

LEMMA SubmitType ==
    ASSUME TypeOK, NEW r \in Requests, NEW k \in Keys, NEW p \in Priorities,
           NEW s \in Signals, Submit(r, k, p, s)
    PROVE  TypeOK'
<1>1. CASE Join(r, k, s)
  BY <1>1, SignalsAssumption DEF Join, TypeOK
<1>2. CASE Refuse(r, k, s)
  BY <1>2, SignalsAssumption DEF Refuse, TypeOK, lineVars
<1>3. CASE Create(r, k, p, s)
  <2> DEFINE rank == [key |-> k, priority |-> p, sequence |-> sequence]
             ranks == [task EXCEPT ![r] = rank]
             line == waiting \cup {r}
             started == Pump(ranks, line, Concurrency - running)
             dropped == IF s = "aborted" THEN {r} \ started ELSE {}
             left == (line \ started) \ dropped
  <2>1. started \in SUBSET Requests /\ left \in SUBSET Requests
    BY DEF Pump, TypeOK
  <2>2. running' \in Int
    <3>1. running' = running + Cardinality(started)
      BY <1>3 DEF Create
    <3> QED
      BY <3>1, <2>1, CardinalityType DEF TypeOK
  <2>3. rank \in Ranks /\ task' = ranks
    BY <1>3 DEF Create, Ranks, TypeOK
  <2>4. task' \in [Requests -> Ranks \cup {None}]
    BY <2>3 DEF TypeOK
  <2>5. announced' \in [Requests -> Nat]
    <3>1. SyncPositions(ranks, left)
      BY <1>3 DEF Create
    <3> QED
      BY <3>1, <2>1, SyncType
  <2>6. waiting' = left
    BY <1>3 DEF Create
  <2>7. state' \in [Requests -> {"none", "waiting", "running", "settled"}]
    <3>1. state' = [j \in Requests |-> CASE j \in started -> "running"
                                         [] j \in dropped -> "settled"
                                         [] j \in left -> "waiting"
                                         [] OTHER -> state[j]]
      BY <1>3 DEF Create
    <3> HIDE DEF started, dropped, left
    <3> QED
      BY <3>1 DEF TypeOK
  <2>8. /\ sequence' \in Nat
        /\ jobs' \in [Keys -> Requests \cup {None}]
        /\ refs' \in [Requests -> Int]
        /\ aborted' \in [Requests -> BOOLEAN]
        /\ outcome' \in [Requests -> {"pending", "value", "error", "cancelled", "timeout"}]
    <3> HIDE DEF dropped
    <3>1. /\ sequence' = sequence + 1
          /\ jobs' = [jobs EXCEPT ![k] = IF dropped = {} THEN r ELSE None]
          /\ refs' = [refs EXCEPT ![r] = IF s = "aborted" THEN 0 ELSE 1]
          /\ aborted' = [aborted EXCEPT ![r] = s = "aborted"]
          /\ outcome' = [outcome EXCEPT ![r] = IF dropped = {} THEN "pending"
                                                             ELSE "cancelled"]
      BY <1>3 DEF Create, dropped
    <3> QED
      BY <3>1 DEF TypeOK
  <2>9. /\ phase' \in [Requests -> {"idle", "attached", "answered", "refused"}]
        /\ joined' \in [Requests -> Requests \cup {None}]
        /\ signal' \in [Requests -> {"absent", "live", "aborted"}]
        /\ claim' \in [Requests -> BOOLEAN]
    <3>1. /\ phase' = [phase EXCEPT ![r] = "attached"]
          /\ joined' = [joined EXCEPT ![r] = r]
          /\ signal' = [signal EXCEPT ![r] = s]
          /\ claim' = [claim EXCEPT ![r] = ~ (s = "aborted")]
      BY <1>3 DEF Create
    <3> QED
      BY <3>1, SignalsAssumption DEF TypeOK
  <2> QED
    BY <2>1, <2>2, <2>4, <2>5, <2>6, <2>7, <2>8, <2>9 DEF TypeOK
<1> QED
  BY <1>1, <1>2, <1>3 DEF Submit

LEMMA CompleteType ==
    ASSUME TypeOK, NEW j \in Requests, NEW result \in {"value", "error"},
           Complete(j, result)
    PROVE  TypeOK'
<1> DEFINE started == Pump(task, waiting, Concurrency - (running - 1))
           left == waiting \ started
<1>1. started \in SUBSET Requests /\ left \in SUBSET Requests
  BY DEF Pump, TypeOK
<1>2. running' \in Int
  <2>1. running' = running - 1 + Cardinality(started)
    BY DEF Complete
  <2> QED
    BY <2>1, <1>1, CardinalityType DEF TypeOK
<1>3. announced' \in [Requests -> Nat]
  <2>1. SyncPositions(task, left)
    BY DEF Complete
  <2> QED
    BY <2>1, <1>1, SyncType
<1>4. state' \in [Requests -> {"none", "waiting", "running", "settled"}]
  <2>1. state' = [i \in Requests |-> CASE i = j -> "settled"
                                       [] i \in started -> "running"
                                       [] OTHER -> state[i]]
    BY DEF Complete
  <2> HIDE DEF started
  <2> QED
    BY <2>1 DEF TypeOK
<1>5. /\ waiting' = left
      /\ jobs' = [jobs EXCEPT ![task[j].key] = IF @ = j THEN None ELSE @]
      /\ outcome' = [outcome EXCEPT ![j] = result]
      /\ UNCHANGED <<sequence, task, aborted, refs, callerVars>>
  BY DEF Complete
<1> HIDE DEF started, left
<1>6. /\ waiting' \in SUBSET Requests /\ jobs' \in [Keys -> Requests \cup {None}]
      /\ outcome' \in [Requests -> {"pending", "value", "error", "cancelled", "timeout"}]
  BY <1>1, <1>5 DEF TypeOK
<1> QED
  BY <1>2, <1>3, <1>4, <1>5, <1>6 DEF TypeOK, callerVars

LEMMA CallerAbortsType ==
    ASSUME TypeOK, NEW r \in Requests, CallerAborts(r)
    PROVE  TypeOK'
<1> DEFINE j == jobs[task[joined[r]].key]
<1>1. /\ signal' \in [Requests -> {"absent", "live", "aborted"}]
      /\ claim' \in [Requests -> BOOLEAN]
      /\ UNCHANGED <<phase, joined>>
  BY DEF CallerAborts, TypeOK
<1>2. CASE ~ claim[r] \/ j = None
  BY <1>1, <1>2 DEF CallerAborts, TypeOK, lineVars
<1>3. CASE ~ (~ claim[r] \/ j = None)
  <2>1. /\ refs' = [refs EXCEPT ![j] = @ - 1]
        /\ UNCHANGED <<sequence, running, task>>
        /\ \/ AbortJob(j)
           \/ UNCHANGED <<aborted, waiting, state, outcome, jobs, announced>>
    BY <1>3 DEF CallerAborts
  <2> HIDE DEF j
  <2>2. refs' \in [Requests -> Int]
    <3>1. CASE j \in Requests
      BY <2>1, <3>1 DEF TypeOK
    <3>2. CASE j \notin Requests
      <4>1. refs' = refs
        BY <2>1, <3>2 DEF TypeOK
      <4> QED
        BY <4>1 DEF TypeOK
    <3> QED
      BY <3>1, <3>2
  <2>3. CASE AbortJob(j)
    BY <1>1, <2>1, <2>2, <2>3, AbortType DEF TypeOK
  <2>4. CASE UNCHANGED <<aborted, waiting, state, outcome, jobs, announced>>
    BY <1>1, <2>1, <2>2, <2>4 DEF TypeOK
  <2> QED
    BY <2>1, <2>3, <2>4
<1> QED
  BY <1>2, <1>3

\* Every operation keeps every variable in its type.
LEMMA TypePreserved == TypeOK /\ [Next]_vars => TypeOK'
<1> SUFFICES ASSUME TypeOK, [Next]_vars PROVE TypeOK'
  OBVIOUS
<1>1. CASE Arrive
  BY <1>1, SubmitType DEF Arrive
<1>2. ASSUME NEW k \in Keys, Cancel(k) PROVE TypeOK'
  <2>1. AbortJob(jobs[k]) /\ UNCHANGED <<sequence, running, task, refs, callerVars>>
    BY <1>2 DEF Cancel
  <2> QED
    BY <2>1, AbortType DEF TypeOK, callerVars
<1>3. ASSUME NEW r \in Requests, CallerAborts(r) PROVE TypeOK'
  BY <1>3, CallerAbortsType
<1>4. ASSUME NEW j \in Requests, WaitTimeout(j) PROVE TypeOK'
  <2>1. Abandon(j, "timeout") /\ UNCHANGED <<sequence, running, task, aborted, refs, callerVars>>
    BY <1>4 DEF WaitTimeout
  <2> QED
    BY <2>1, AbandonType DEF TypeOK, callerVars
<1>5. CASE Finish
  BY <1>5, CompleteType DEF Finish
<1>6. ASSUME NEW r \in Requests, Hear(r) PROVE TypeOK'
  BY <1>6 DEF Hear, TypeOK, lineVars
<1>7. CASE UNCHANGED vars
  BY <1>7 DEF TypeOK, vars, lineVars, callerVars
<1> QED
  BY <1>1, <1>2, <1>3, <1>4, <1>5, <1>6, <1>7 DEF Next

\* Type correctness of the queue, for every value of its constants.
THEOREM TypeCorrect == Spec => []TypeOK
<1>1. Init => TypeOK
  BY DEF Init, TypeOK
<1> QED
  BY <1>1, TypePreserved, PTL DEF Spec

-----------------------------------------------------------------------------
(* The loop of #pump                                                       *)

\* Outranks is a strict total order on the ranks of different jobs.
LEMMA OutranksOrder ==
    /\ \A a \in Ranks : ~ Outranks(a, a)
    /\ \A a, b, c \in Ranks : Outranks(a, b) /\ Outranks(b, c) => Outranks(a, c)
    /\ \A a, b \in Ranks : a.sequence # b.sequence => Outranks(a, b) \/ Outranks(b, a)
<1>1. \A a \in Ranks : a.priority \in Int /\ a.sequence \in Int
  <2> SUFFICES ASSUME NEW a \in Ranks PROVE a.priority \in Int /\ a.sequence \in Int
    OBVIOUS
  <2>1. a.priority \in Priorities /\ a.sequence \in Nat
    BY DEF Ranks
  <2>2. a.priority \in Int
    BY <2>1, PrioritiesAssumption, Zenon
  <2>3. a.sequence \in Int
    BY <2>1
  <2> QED
    BY <2>2, <2>3
<1> QED
  BY <1>1 DEF Outranks

\* With no free slot the loop starts nobody.
LEMMA PumpNone ==
    ASSUME NEW ranks, NEW line \in SUBSET Requests, NEW slots \in Int, slots <= 0
    PROVE  Pump(ranks, line, slots) = {}
BY AheadType DEF Pump

\* A job that is alone in the line starts as soon as there is a slot.
LEMMA PumpAlone ==
    ASSUME NEW ranks, NEW r \in Requests, NEW slots \in Int, slots > 0
    PROVE  Pump(ranks, {r}, slots) = {r}
<1>1. {i \in {r} \ {r} : Outranks(ranks[i], ranks[r])} = {}
  OBVIOUS
<1>2. Ahead(ranks, {r}, r) = 0
  BY <1>1, FS_EmptySet DEF Ahead
<1> QED
  BY <1>2 DEF Pump

\* With one free slot the loop starts exactly one job, the best of the line.
LEMMA PumpOne ==
    ASSUME NEW ranks, NEW line \in SUBSET Requests, line # {},
           \A i \in line : ranks[i] \in Ranks,
           \A i, j \in line : i # j => ranks[i].sequence # ranks[j].sequence
    PROVE  \E best \in line : /\ Pump(ranks, line, 1) = {best}
                              /\ \A i \in line \ {best} : Outranks(ranks[best], ranks[i])
<1> DEFINE Above(j) == {i \in line \ {j} : Outranks(ranks[i], ranks[j])}
           Sets == {Above(j) : j \in line}
<1>1. IsFiniteSet(line)
  BY CardinalityType
<1>2. Sets \subseteq FiniteSubsetsOf(line)
  BY <1>1, FS_Subset DEF FiniteSubsetsOf
<1>3. IsWellFoundedOn(StrictSubsetOrdering(line), FiniteSubsetsOf(line))
  BY FS_StrictSubsetOrderingWellFounded
<1>4. \E x \in Sets : \A y \in Sets : ~ (<<y, x>> \in StrictSubsetOrdering(line))
  <2>1. \A j \in line : Above(j) \in Sets
    OBVIOUS
  <2> HIDE DEF Sets
  <2> QED
    BY <1>2, <1>3, <2>1, WFMin
<1>5. PICK best \in line : \A j \in line : ~ (<<Above(j), Above(best)>> \in StrictSubsetOrdering(line))
  BY <1>4
<1>6. Above(best) = {}
  <2> SUFFICES ASSUME NEW i \in Above(best) PROVE FALSE
    OBVIOUS
  <2>1. i \in line /\ i # best /\ Outranks(ranks[i], ranks[best])
    OBVIOUS
  <2>2. Above(i) \subseteq Above(best)
    <3> SUFFICES ASSUME NEW h \in Above(i) PROVE h \in Above(best)
      OBVIOUS
    <3>1. Outranks(ranks[h], ranks[best])
      BY <2>1, OutranksOrder
    <3>2. h # best
      BY <3>1, OutranksOrder
    <3> QED
      BY <3>1, <3>2
  <2>3. i \notin Above(i)
    OBVIOUS
  <2>4. Above(i) \in SUBSET line /\ Above(best) \in SUBSET line
    OBVIOUS
  <2>5. <<Above(i), Above(best)>> \in StrictSubsetOrdering(line)
    <3> HIDE DEF Above
    <3> QED
      BY <2>2, <2>3, <2>4 DEF StrictSubsetOrdering
  <2> QED
    BY <2>1, <2>5, <1>5
<1>7. \A i \in line \ {best} : Outranks(ranks[best], ranks[i])
  BY <1>6, OutranksOrder
<1>8. Ahead(ranks, line, best) = 0
  BY <1>6, FS_EmptySet DEF Ahead
<1>9. ASSUME NEW j \in line, j # best PROVE ~ (Ahead(ranks, line, j) < 1)
  <2>1. best \in Above(j)
    BY <1>7, <1>9
  <2>2. IsFiniteSet(Above(j))
    BY <1>1, FS_Subset
  <2>3. Cardinality(Above(j)) # 0
    BY <2>1, <2>2, FS_EmptySet
  <2>4. Cardinality(Above(j)) \in Nat
    BY <2>2, FS_CardinalityType
  <2> QED
    BY <2>3, <2>4 DEF Ahead
<1> QED
  BY <1>7, <1>8, <1>9 DEF Pump

-----------------------------------------------------------------------------
(* What the two operations that pump do to the line                        *)

\* A job that is created while a slot is free finds an empty line and starts;
\* otherwise it waits, or leaves at once when its caller has already gone.
LEMMA CreateEffect ==
    ASSUME QueueInv, NEW r \in Requests, NEW k \in Keys, NEW p \in Priorities,
           NEW s \in Signals, phase[r] = "idle", Create(r, k, p, s)
    PROVE  \/ /\ running < Concurrency /\ waiting = {} /\ waiting' = {}
              /\ running' = running + 1
              /\ state' = [state EXCEPT ![r] = "running"]
              /\ jobs' = [jobs EXCEPT ![k] = r]
           \/ /\ running = Concurrency /\ running' = running
              /\ waiting' = waiting \cup {r}
              /\ state' = [state EXCEPT ![r] = "waiting"]
              /\ jobs' = [jobs EXCEPT ![k] = r]
           \/ /\ running = Concurrency /\ running' = running
              /\ waiting' = waiting
              /\ state' = [state EXCEPT ![r] = "settled"]
              /\ jobs' = jobs
<1> DEFINE rank == [key |-> k, priority |-> p, sequence |-> sequence]
           ranks == [task EXCEPT ![r] = rank]
           line == waiting \cup {r}
           started == Pump(ranks, line, Concurrency - running)
           dropped == IF s = "aborted" THEN {r} \ started ELSE {}
           left == (line \ started) \ dropped
<1>1. /\ jobs[k] = None
      /\ running' = running + Cardinality(started)
      /\ waiting' = left
      /\ state' = [j \in Requests |-> CASE j \in started -> "running"
                                         [] j \in dropped -> "settled"
                                         [] j \in left -> "waiting"
                                         [] OTHER -> state[j]]
      /\ jobs' = [jobs EXCEPT ![k] = IF dropped = {} THEN r ELSE None]
  BY DEF Create
<1>2. /\ r \notin waiting /\ line \in SUBSET Requests
      /\ running \in Int /\ Concurrency \in Int /\ running <= Concurrency
      /\ \A j \in waiting : state[j] = "waiting"
  BY DEF QueueInv, TypeOK, Arrivals, Bounded
<1> HIDE DEF rank, ranks
<1>3. CASE running < Concurrency
  <2>1. waiting = {}
    BY <1>3 DEF QueueInv, WorkConserving, TypeOK
  <2>2. started = {r}
    BY <1>2, <1>3, <2>1, PumpAlone
  <2> HIDE DEF started
  <2>3. Cardinality(started) = 1
    BY <2>2, FS_Singleton
  <2>4. dropped = {} /\ left = {}
    BY <2>1, <2>2
  <2>5. state' = [state EXCEPT ![r] = "running"]
    BY <1>1, <2>2, <2>4 DEF QueueInv, TypeOK
  <2> QED
    BY <1>1, <1>3, <2>1, <2>3, <2>4, <2>5
<1>4. CASE running = Concurrency
  <2>1. started = {}
    BY <1>2, <1>4, PumpNone
  <2> HIDE DEF started
  <2>2. running' = running
    BY <1>1, <1>2, <2>1, FS_EmptySet
  <2>3. CASE s = "aborted"
    <3>1. dropped = {r} /\ left = waiting
      BY <1>2, <2>1, <2>3
    <3>2. state' = [state EXCEPT ![r] = "settled"]
      BY <1>1, <1>2, <2>1, <3>1 DEF QueueInv, TypeOK
    <3>3. jobs' = jobs
      BY <1>1, <3>1 DEF QueueInv, TypeOK
    <3> QED
      BY <1>1, <1>4, <2>2, <3>1, <3>2, <3>3
  <2>4. CASE s # "aborted"
    <3>1. dropped = {} /\ left = waiting \cup {r}
      BY <2>1, <2>4
    <3>2. state' = [state EXCEPT ![r] = "waiting"]
      BY <1>1, <1>2, <2>1, <3>1 DEF QueueInv, TypeOK
    <3> QED
      BY <1>1, <1>4, <2>2, <3>1, <3>2
  <2> QED
    BY <2>3, <2>4
<1> QED
  BY <1>2, <1>3, <1>4

\* A run that ends gives its slot back when nobody waits, and otherwise to
\* the one job that outranks everybody left in the line.
LEMMA CompleteEffect ==
    ASSUME QueueInv, NEW j \in Requests, NEW result, Complete(j, result)
    PROVE  \/ /\ waiting = {} /\ waiting' = {} /\ running' = running - 1
              /\ state' = [state EXCEPT ![j] = "settled"]
           \/ \E best \in waiting :
                /\ running = Concurrency /\ running' = running
                /\ waiting' = waiting \ {best}
                /\ state' = [state EXCEPT ![j] = "settled", ![best] = "running"]
                /\ \A i \in waiting \ {best} : Outranks(task[best], task[i])
<1> DEFINE started == Pump(task, waiting, Concurrency - (running - 1))
           left == waiting \ started
<1>1. /\ state[j] = "running"
      /\ running' = running - 1 + Cardinality(started)
      /\ waiting' = left
      /\ state' = [i \in Requests |-> CASE i = j -> "settled"
                                         [] i \in started -> "running"
                                         [] OTHER -> state[i]]
  BY DEF Complete
<1>2. /\ waiting \in SUBSET Requests
      /\ running \in Int /\ Concurrency \in Int
      /\ \A i \in waiting : state[i] = "waiting"
      /\ state \in [Requests -> {"none", "waiting", "running", "settled"}]
  BY DEF QueueInv, TypeOK, Bounded
<1>3. CASE waiting = {}
  <2>1. started = {} /\ left = {}
    BY <1>3 DEF Pump
  <2> HIDE DEF started
  <2>2. running' = running - 1
    BY <1>1, <1>2, <2>1, FS_EmptySet
  <2>3. state' = [state EXCEPT ![j] = "settled"]
    BY <1>1, <1>2, <2>1
  <2> QED
    BY <1>1, <1>3, <2>1, <2>2, <2>3
<1>4. CASE waiting # {}
  <2>1. running = Concurrency
    BY <1>4 DEF QueueInv, WorkConserving
  <2>2. started = Pump(task, waiting, 1)
    <3>1. Concurrency - (running - 1) = 1
      BY <1>2, <2>1
    <3> QED
      BY <3>1
  <2>3. /\ \A i \in waiting : task[i] \in Ranks
        /\ \A i, h \in waiting : i # h => task[i].sequence # task[h].sequence
    BY <1>2 DEF QueueInv, Arrivals
  <2>4. PICK best \in waiting : /\ Pump(task, waiting, 1) = {best}
                                /\ \A i \in waiting \ {best} : Outranks(task[best], task[i])
    BY <1>2, <1>4, <2>3, PumpOne
  <2>5. started = {best}
    BY <2>2, <2>4
  <2> HIDE DEF started
  <2>6. running' = running
    <3>1. Cardinality(started) = 1
      BY <2>5, FS_Singleton
    <3> QED
      BY <1>1, <1>2, <3>1
  <2>7. state' = [state EXCEPT ![j] = "settled", ![best] = "running"]
    BY <1>1, <1>2, <2>5
  <2> QED
    BY <1>1, <2>1, <2>4, <2>5, <2>6, <2>7
<1> QED
  BY <1>3, <1>4

\* A waiting job that is abandoned changes nothing for any other job.
LEMMA AbandonEffect ==
    ASSUME QueueInv, NEW j \in Requests, state[j] = "waiting",
           NEW why, Abandon(j, why)
    PROVE  /\ waiting' = waiting \ {j}
           /\ state' = [state EXCEPT ![j] = "settled"]
           /\ jobs' = [jobs EXCEPT ![task[j].key] = None]
<1>1. jobs[task[j].key] = j /\ task[j].key \in Keys
  BY DEF QueueInv, OneLiveJobPerKey, Live, Arrivals, Ranks
<1> QED
  BY <1>1 DEF Abandon, QueueInv, TypeOK

-----------------------------------------------------------------------------
(* The inductive invariant of the queue                                    *)

RunningJobs == {j \in Requests : state[j] = "running"}

LEMMA AbandonInv ==
    ASSUME QueueInv, NEW j \in Requests, state[j] = "waiting",
           NEW why, Abandon(j, why),
           UNCHANGED <<running, sequence, task>>,
           \A r \in Requests : phase'[r] = "idle" => phase[r] = "idle"
    PROVE  Arrivals' /\ Bounded' /\ WorkConserving' /\ OneLiveJobPerKey'
<1>1. /\ waiting' = waiting \ {j}
      /\ state' = [state EXCEPT ![j] = "settled"]
      /\ jobs' = [jobs EXCEPT ![task[j].key] = None]
  BY AbandonEffect
<1>2. state \in [Requests -> {"none", "waiting", "running", "settled"}]
  BY DEF QueueInv, TypeOK
<1>3. jobs[task[j].key] = j /\ task[j].key \in Keys
  BY DEF QueueInv, OneLiveJobPerKey, Live, Arrivals, Ranks
<1>4. Arrivals'
  BY <1>1, <1>2 DEF QueueInv, Arrivals
<1>5. Bounded'
  <2>1. RunningJobs' = RunningJobs
    BY <1>1, <1>2 DEF RunningJobs
  <2>2. Cardinality(waiting') <= MaxWaiting
    <3>1. waiting \in SUBSET Requests
      BY DEF QueueInv, TypeOK
    <3>2. IsFiniteSet(waiting)
      BY <3>1, CardinalityType
    <3>3. waiting' \in SUBSET waiting
      BY <1>1
    <3>4. Cardinality(waiting') <= Cardinality(waiting)
      BY <3>2, <3>3, FS_Subset
    <3>5. Cardinality(waiting) \in Nat /\ Cardinality(waiting') \in Nat
      BY <3>1, <3>3, CardinalityType
    <3> QED
      BY <3>4, <3>5 DEF QueueInv, Bounded
  <2>3. waiting' = {i \in Requests : state'[i] = "waiting"}
    BY <1>1, <1>2 DEF QueueInv, Bounded
  <2>4. running' = Cardinality(RunningJobs') /\ running' <= Concurrency
    BY <2>1 DEF QueueInv, Bounded, RunningJobs
  <2> QED
    BY <2>2, <2>3, <2>4 DEF Bounded, RunningJobs
<1>6. WorkConserving'
  BY <1>1 DEF QueueInv, WorkConserving
<1>7. OneLiveJobPerKey'
  <2>1. ASSUME NEW i \in Requests, Live(i)' PROVE jobs'[task'[i].key] = i
    <3>1. i # j /\ Live(i)
      BY <1>1, <1>2, <2>1 DEF Live
    <3>2. jobs[task[i].key] = i /\ task[i].key \in Keys
      BY <3>1 DEF QueueInv, OneLiveJobPerKey, Live, Arrivals, Ranks
    <3> QED
      BY <1>1, <1>3, <3>1, <3>2 DEF QueueInv, TypeOK
  <2>2. ASSUME NEW k \in Keys, jobs'[k] # None
        PROVE  Live(jobs[k])' /\ task'[jobs'[k]].key = k
    <3>1. jobs'[k] = jobs[k] /\ jobs[k] # j
      BY <1>1, <1>3, <2>2 DEF QueueInv, TypeOK, OneLiveJobPerKey
    <3>2. Live(jobs[k]) /\ task[jobs[k]].key = k /\ jobs[k] \in Requests
      BY <2>2, <3>1 DEF QueueInv, TypeOK, OneLiveJobPerKey
    <3> QED
      BY <1>1, <1>2, <3>1, <3>2 DEF Live
  <2> QED
    BY <2>1, <2>2 DEF OneLiveJobPerKey
<1> QED
  BY <1>4, <1>5, <1>6, <1>7

LEMMA AbortInv ==
    ASSUME QueueInv, NEW j \in Requests, AbortJob(j),
           UNCHANGED <<running, sequence, task>>,
           \A r \in Requests : phase'[r] = "idle" => phase[r] = "idle"
    PROVE  Arrivals' /\ Bounded' /\ WorkConserving' /\ OneLiveJobPerKey'
<1>1. CASE state[j] = "waiting"
  BY <1>1, AbandonInv DEF AbortJob
<1>2. CASE state[j] # "waiting"
  <2>1. UNCHANGED <<waiting, state, jobs>>
    BY <1>2 DEF AbortJob
  <2> QED
    BY <2>1 DEF QueueInv, Arrivals, Bounded, WorkConserving, OneLiveJobPerKey, Live
<1> QED
  BY <1>1, <1>2

LEMMA CreateInv ==
    ASSUME QueueInv, NEW r \in Requests, NEW k \in Keys, NEW p \in Priorities,
           NEW s \in Signals, phase[r] = "idle", Create(r, k, p, s)
    PROVE  Arrivals' /\ Bounded' /\ WorkConserving' /\ OneLiveJobPerKey'
<1> DEFINE rank == [key |-> k, priority |-> p, sequence |-> sequence]
<1>1. /\ jobs[k] = None /\ sequence' = sequence + 1
      /\ task' = [task EXCEPT ![r] = rank]
      /\ phase' = [phase EXCEPT ![r] = "attached"]
      /\ Cardinality(waiting) < MaxWaiting
  BY DEF Create
<1>2. /\ state \in [Requests -> {"none", "waiting", "running", "settled"}]
      /\ waiting \in SUBSET Requests /\ running \in Int /\ sequence \in Nat
      /\ jobs \in [Keys -> Requests \cup {None}]
      /\ task \in [Requests -> Ranks \cup {None}]
      /\ phase \in [Requests -> {"idle", "attached", "answered", "refused"}]
  BY DEF QueueInv, TypeOK
<1>3. state[r] = "none" /\ r \notin waiting
  BY DEF QueueInv, Arrivals, Bounded
<1>4. rank \in Ranks /\ task'[r] = rank
  BY <1>1, <1>2 DEF Ranks
<1>5. PICK became \in {"running", "waiting", "settled"} : state' = [state EXCEPT ![r] = became]
  BY CreateEffect
<1>6. Arrivals'
  <2>1. ASSUME NEW q \in Requests, phase'[q] = "idle" PROVE state'[q] = "none"
    BY <1>1, <1>2, <1>5, <2>1 DEF QueueInv, Arrivals
  <2>2. ASSUME NEW j \in Requests, state'[j] # "none"
        PROVE  task'[j] \in Ranks /\ task'[j].sequence < sequence'
    <3>1. CASE j = r
      BY <1>1, <1>2, <1>4, <3>1
    <3>2. CASE j # r
      <4>1. state[j] # "none" /\ task'[j] = task[j]
        BY <1>1, <1>2, <1>5, <2>2, <3>2
      <4>2. task[j] \in Ranks /\ task[j].sequence < sequence
        BY <4>1 DEF QueueInv, Arrivals
      <4>3. task[j].sequence \in Nat
        BY <4>2 DEF Ranks
      <4> QED
        BY <1>1, <1>2, <4>1, <4>2, <4>3
    <3> QED
      BY <3>1, <3>2
  <2>3. ASSUME NEW i \in Requests, NEW j \in Requests,
               i # j, state'[i] # "none", state'[j] # "none"
        PROVE  task'[i].sequence # task'[j].sequence
    <3>1. \A h \in Requests : h # r /\ state'[h] # "none" =>
            /\ state[h] # "none" /\ task'[h] = task[h]
            /\ task[h].sequence < sequence /\ task[h].sequence \in Nat
      <4> SUFFICES ASSUME NEW h \in Requests, h # r, state'[h] # "none"
                   PROVE  /\ state[h] # "none" /\ task'[h] = task[h]
                          /\ task[h].sequence < sequence /\ task[h].sequence \in Nat
        OBVIOUS
      <4>1. state[h] # "none" /\ task'[h] = task[h]
        BY <1>1, <1>2, <1>5
      <4>2. task[h] \in Ranks /\ task[h].sequence < sequence
        BY <4>1 DEF QueueInv, Arrivals
      <4> QED
        BY <4>1, <4>2 DEF Ranks
    <3>2. task'[r].sequence = sequence
      BY <1>4
    <3>3. CASE i = r
      <4>1. task'[j].sequence < sequence /\ task'[j].sequence \in Nat
        BY <2>3, <3>1, <3>3
      <4> QED
        BY <1>2, <3>2, <3>3, <4>1
    <3>4. CASE j = r
      <4>1. task'[i].sequence < sequence /\ task'[i].sequence \in Nat
        BY <2>3, <3>1, <3>4
      <4> QED
        BY <1>2, <3>2, <3>4, <4>1
    <3>5. CASE i # r /\ j # r
      BY <2>3, <3>1, <3>5 DEF QueueInv, Arrivals
    <3> QED
      BY <3>3, <3>4, <3>5
  <2> QED
    BY <2>1, <2>2, <2>3 DEF Arrivals
<1>7. Bounded' /\ WorkConserving'
  <2>1. RunningJobs \in SUBSET Requests /\ running = Cardinality(RunningJobs)
    BY DEF RunningJobs, QueueInv, Bounded
  <2>2. Cardinality(waiting) \in Nat /\ IsFiniteSet(waiting)
    BY <1>2, CardinalityType
  <2>3. CASE /\ running < Concurrency /\ waiting = {} /\ waiting' = {}
             /\ running' = running + 1
             /\ state' = [state EXCEPT ![r] = "running"]
    <3>1. RunningJobs' = RunningJobs \cup {r} /\ r \notin RunningJobs
      BY <1>2, <1>3, <2>3 DEF RunningJobs
    <3>2. running' = Cardinality(RunningJobs')
      BY <2>1, <2>3, <3>1, CardinalityType, FS_AddElement
    <3>3. waiting' = {i \in Requests : state'[i] = "waiting"}
      BY <1>2, <2>3 DEF QueueInv, Bounded
    <3>4. Cardinality(waiting') <= MaxWaiting
      BY <2>3, FS_EmptySet
    <3>5. running' <= Concurrency
      BY <1>2, <2>3
    <3> QED
      BY <2>3, <3>2, <3>3, <3>4, <3>5 DEF Bounded, WorkConserving, RunningJobs
  <2>4. CASE /\ running = Concurrency /\ running' = running
             /\ waiting' = waiting \cup {r}
             /\ state' = [state EXCEPT ![r] = "waiting"]
    <3>1. RunningJobs' = RunningJobs
      BY <1>2, <1>3, <2>4 DEF RunningJobs
    <3>2. waiting' = {i \in Requests : state'[i] = "waiting"}
      BY <1>2, <1>3, <2>4 DEF QueueInv, Bounded
    <3>3. Cardinality(waiting') <= MaxWaiting
      <4>1. Cardinality(waiting') = Cardinality(waiting) + 1
        BY <1>3, <2>2, <2>4, FS_AddElement
      <4> QED
        BY <1>1, <2>2, <4>1
    <3>4. running' = Cardinality(RunningJobs')
      BY <2>1, <2>4, <3>1, Zenon
    <3>5. running' <= Concurrency
      BY <1>2, <2>4
    <3> QED
      BY <2>4, <3>2, <3>3, <3>4, <3>5 DEF Bounded, WorkConserving, RunningJobs
  <2>5. CASE /\ running = Concurrency /\ running' = running
             /\ waiting' = waiting
             /\ state' = [state EXCEPT ![r] = "settled"]
    <3>1. RunningJobs' = RunningJobs
      BY <1>2, <1>3, <2>5 DEF RunningJobs
    <3>2. waiting' = {i \in Requests : state'[i] = "waiting"}
      BY <1>2, <1>3, <2>5 DEF QueueInv, Bounded
    <3>3. Cardinality(waiting') <= MaxWaiting
      BY <1>1, <2>2, <2>5
    <3>4. running' = Cardinality(RunningJobs')
      BY <2>1, <2>5, <3>1, Zenon
    <3>5. running' <= Concurrency
      BY <1>2, <2>5
    <3> QED
      BY <2>5, <3>2, <3>3, <3>4, <3>5 DEF Bounded, WorkConserving, RunningJobs
  <2> QED
    BY <2>3, <2>4, <2>5, CreateEffect
<1>8. OneLiveJobPerKey'
  <2>1. \/ jobs' = [jobs EXCEPT ![k] = r] /\ state'[r] \in {"running", "waiting"}
        \/ jobs' = jobs /\ state'[r] = "settled"
    BY CreateEffect, <1>2
  <2>2. ASSUME NEW i \in Requests, Live(i)' PROVE jobs'[task'[i].key] = i
    <3>1. CASE i = r
      <4>1. state'[r] # "settled"
        BY <2>2, <3>1 DEF Live
      <4>2. jobs' = [jobs EXCEPT ![k] = r]
        BY <2>1, <4>1, Zenon
      <4>3. task'[i].key = k
        BY <1>4, <3>1
      <4> QED
        BY <1>2, <3>1, <4>2, <4>3
    <3>2. CASE i # r
      <4>1. Live(i) /\ task'[i] = task[i]
        BY <1>1, <1>2, <1>5, <2>2, <3>2 DEF Live
      <4>2. jobs[task[i].key] = i /\ task[i].key # k
        BY <1>1, <4>1, RequestsAssumption DEF QueueInv, OneLiveJobPerKey
      <4>3. task[i].key \in Keys
        BY <4>1 DEF Live, QueueInv, Arrivals, Ranks
      <4> QED
        BY <1>2, <2>1, <4>1, <4>2, <4>3
    <3> QED
      BY <3>1, <3>2
  <2>3. ASSUME NEW h \in Keys, jobs'[h] # None
        PROVE  Live(jobs[h])' /\ task'[jobs'[h]].key = h
    <3>1. CASE h = k
      <4>1. jobs'[h] = r /\ state'[r] \in {"running", "waiting"}
        BY <1>1, <1>2, <2>1, <2>3, <3>1
      <4> QED
        BY <1>4, <3>1, <4>1 DEF Live
    <3>2. CASE h # k
      <4>1. jobs'[h] = jobs[h]
        BY <1>2, <2>1, <3>2
      <4>2. Live(jobs[h]) /\ task[jobs[h]].key = h /\ jobs[h] \in Requests
        BY <1>2, <2>3, <4>1 DEF QueueInv, OneLiveJobPerKey
      <4>3. jobs[h] # r
        BY <1>3, <4>2 DEF Live
      <4> QED
        BY <1>1, <1>2, <1>5, <4>1, <4>2, <4>3 DEF Live
    <3> QED
      BY <3>1, <3>2
  <2> QED
    BY <2>2, <2>3 DEF OneLiveJobPerKey
<1> QED
  BY <1>6, <1>7, <1>8

LEMMA CompleteInv ==
    ASSUME QueueInv, NEW j \in Requests, NEW result, Complete(j, result)
    PROVE  Arrivals' /\ Bounded' /\ WorkConserving' /\ OneLiveJobPerKey'
<1>1. /\ state[j] = "running"
      /\ jobs' = [jobs EXCEPT ![task[j].key] = IF @ = j THEN None ELSE @]
      /\ UNCHANGED <<sequence, task, phase>>
  BY DEF Complete, callerVars
<1>2. /\ state \in [Requests -> {"none", "waiting", "running", "settled"}]
      /\ waiting \in SUBSET Requests /\ running \in Int
      /\ jobs \in [Keys -> Requests \cup {None}]
      /\ \A i \in Requests : i \in waiting <=> state[i] = "waiting"
  BY DEF QueueInv, TypeOK, Bounded
<1>3. jobs[task[j].key] = j /\ task[j].key \in Keys
  BY <1>1 DEF QueueInv, OneLiveJobPerKey, Live, Arrivals, Ranks
<1>4. /\ state' \in [Requests -> {"none", "waiting", "running", "settled"}]
      /\ state'[j] = "settled"
      /\ \A i \in Requests \ {j} : /\ state'[i] = "none" <=> state[i] = "none"
                                   /\ Live(i)' <=> Live(i)
  <2>1. CASE state' = [state EXCEPT ![j] = "settled"]
    BY <1>2, <2>1 DEF Live
  <2>2. ASSUME NEW best \in waiting,
               state' = [state EXCEPT ![j] = "settled", ![best] = "running"]
        PROVE  <1>4!1 /\ <1>4!2 /\ <1>4!3
    <3>1. best # j /\ best \in Requests /\ state[best] = "waiting"
      BY <1>1, <1>2
    <3> QED
      BY <1>2, <2>2, <3>1 DEF Live
  <2> QED
    BY <2>1, <2>2, CompleteEffect
<1>5. Arrivals'
  BY <1>1, <1>4 DEF QueueInv, Arrivals
<1>6. Bounded' /\ WorkConserving'
  <2>1. /\ RunningJobs \in SUBSET Requests /\ running = Cardinality(RunningJobs)
        /\ j \in RunningJobs /\ IsFiniteSet(RunningJobs) /\ running <= Concurrency
    BY <1>1, CardinalityType DEF RunningJobs, QueueInv, Bounded
  <2>2. Cardinality(waiting) \in Nat /\ IsFiniteSet(waiting) /\ Cardinality(waiting) <= MaxWaiting
    BY <1>2, CardinalityType DEF QueueInv, Bounded
  <2>3. CASE /\ waiting = {} /\ waiting' = {} /\ running' = running - 1
             /\ state' = [state EXCEPT ![j] = "settled"]
    <3>1. RunningJobs' = RunningJobs \ {j}
      BY <1>2, <2>3 DEF RunningJobs
    <3>2. running' = Cardinality(RunningJobs')
      BY <2>1, <2>3, <3>1, FS_RemoveElement
    <3>3. waiting' = {i \in Requests : state'[i] = "waiting"}
      BY <1>2, <2>3
    <3>4. Cardinality(waiting') <= MaxWaiting
      BY <2>3, FS_EmptySet
    <3>5. running' <= Concurrency
      BY <1>2, <2>1, <2>3
    <3> QED
      BY <2>3, <3>2, <3>3, <3>4, <3>5 DEF Bounded, WorkConserving, RunningJobs
  <2>4. ASSUME NEW best \in waiting, running = Concurrency, running' = running,
               waiting' = waiting \ {best},
               state' = [state EXCEPT ![j] = "settled", ![best] = "running"]
        PROVE  Bounded' /\ WorkConserving'
    <3>1. best # j /\ best \in Requests /\ state[best] = "waiting"
      BY <1>1, <1>2
    <3>2. RunningJobs' = (RunningJobs \ {j}) \cup {best} /\ best \notin RunningJobs
      BY <1>2, <2>4, <3>1 DEF RunningJobs
    <3>3. Cardinality(RunningJobs') = Cardinality(RunningJobs)
      <4>1. /\ IsFiniteSet(RunningJobs \ {j})
            /\ Cardinality(RunningJobs \ {j}) = Cardinality(RunningJobs) - 1
        BY <2>1, FS_RemoveElement
      <4>2. best \notin RunningJobs \ {j}
        BY <3>2
      <4>3. Cardinality((RunningJobs \ {j}) \cup {best}) = Cardinality(RunningJobs \ {j}) + 1
        BY <4>1, <4>2, FS_AddElement
      <4> QED
        BY <1>2, <2>1, <3>2, <4>1, <4>3
    <3>4. running' = Cardinality(RunningJobs')
      BY <2>1, <2>4, <3>3, Zenon
    <3>5. waiting' = {i \in Requests : state'[i] = "waiting"}
      <4>1. ASSUME NEW i \in Requests PROVE i \in waiting' <=> state'[i] = "waiting"
        BY <1>1, <1>2, <2>4, <3>1
      <4>2. waiting' \in SUBSET Requests
        BY <1>2, <2>4
      <4> QED
        BY <4>1, <4>2
    <3>6. Cardinality(waiting') <= MaxWaiting
      <4>1. Cardinality(waiting \ {best}) = Cardinality(waiting) - 1
        BY <2>2, FS_RemoveElement
      <4> QED
        BY <2>2, <2>4, <4>1
    <3>7. running' <= Concurrency
      BY <1>2, <2>4
    <3> QED
      BY <2>4, <3>4, <3>5, <3>6, <3>7 DEF Bounded, WorkConserving, RunningJobs
  <2> QED
    BY <2>3, <2>4, CompleteEffect
<1>7. OneLiveJobPerKey'
  <2>1. ASSUME NEW i \in Requests, Live(i)' PROVE jobs'[task'[i].key] = i
    <3>1. i # j
      BY <1>4, <2>1 DEF Live
    <3>2. jobs[task[i].key] = i /\ task[i].key \in Keys
      BY <1>4, <2>1, <3>1 DEF QueueInv, OneLiveJobPerKey, Live, Arrivals, Ranks
    <3> QED
      BY <1>1, <1>2, <1>3, <3>1, <3>2
  <2>2. ASSUME NEW k \in Keys, jobs'[k] # None
        PROVE  Live(jobs[k])' /\ task'[jobs'[k]].key = k
    <3>1. jobs'[k] = jobs[k] /\ jobs[k] # j
      BY <1>1, <1>2, <1>3, <2>2 DEF QueueInv, OneLiveJobPerKey
    <3>2. Live(jobs[k]) /\ task[jobs[k]].key = k /\ jobs[k] \in Requests
      BY <1>2, <2>2, <3>1 DEF QueueInv, OneLiveJobPerKey
    <3>3. jobs[k] \in Requests \ {j}
      BY <3>1, <3>2
    <3>4. Live(jobs[k])'
      BY <1>4, <3>1, <3>2, <3>3, Zenon DEF Live
    <3> QED
      BY <1>1, <3>1, <3>2, <3>4
  <2> QED
    BY <2>1, <2>2 DEF OneLiveJobPerKey
<1> QED
  BY <1>5, <1>6, <1>7

\* No operation forgets a job, and each that makes a claim makes it on a job.
LEMMA ClaimsInv ==
    ASSUME QueueInv, [Next]_vars
    PROVE  Claims'
<1> DEFINE NoneForgotten == \A j \in Requests : state[j] # "none" => state'[j] # "none"
<1>1. /\ state \in [Requests -> {"none", "waiting", "running", "settled"}]
      /\ claim \in [Requests -> BOOLEAN]
      /\ joined \in [Requests -> Requests \cup {None}]
      /\ \A r \in Requests : claim[r] => joined[r] \in Requests /\ state[joined[r]] # "none"
  BY DEF QueueInv, TypeOK, Claims
<1>2. ASSUME NoneForgotten, joined' = joined, \A r \in Requests : claim'[r] => claim[r]
      PROVE  Claims'
  BY <1>1, <1>2 DEF Claims
<1>3. ASSUME NEW j, NEW why, Abandon(j, why) PROVE NoneForgotten
  BY <1>1, <1>3 DEF Abandon
<1>4. ASSUME NEW j, AbortJob(j) PROVE NoneForgotten
  BY <1>1, <1>3, <1>4 DEF AbortJob
<1>5. ASSUME NEW r \in Requests, NEW k \in Keys, NEW p \in Priorities,
             NEW s \in Signals, Submit(r, k, p, s)
      PROVE  Claims'
  <2>1. CASE Join(r, k, s)
    <3>1. Live(jobs[k]) /\ jobs[k] \in Requests
      BY <2>1 DEF Join, QueueInv, TypeOK, OneLiveJobPerKey
    <3>2. /\ joined' = [joined EXCEPT ![r] = jobs[k]]
          /\ claim' = [claim EXCEPT ![r] = s # "aborted"]
          /\ state' = state
      BY <2>1 DEF Join
    <3> QED
      BY <1>1, <3>1, <3>2 DEF Claims, Live
  <2>2. CASE Refuse(r, k, s)
    BY <1>1, <1>2, <2>2 DEF Refuse, lineVars
  <2>3. CASE Create(r, k, p, s)
    <3>1. PICK became \in {"running", "waiting", "settled"} : state' = [state EXCEPT ![r] = became]
      BY <1>5, <2>3, CreateEffect DEF Submit
    <3>2. joined' = [joined EXCEPT ![r] = r] /\ claim' = [claim EXCEPT ![r] = ~ (s = "aborted")]
      BY <2>3 DEF Create
    <3> QED
      BY <1>1, <3>1, <3>2 DEF Claims
  <2> QED
    BY <1>5, <2>1, <2>2, <2>3 DEF Submit
<1>6. ASSUME NEW k \in Keys, Cancel(k) PROVE Claims'
  BY <1>2, <1>4, <1>6 DEF Cancel, callerVars
<1>7. ASSUME NEW r \in Requests, CallerAborts(r) PROVE Claims'
  <2>1. joined' = joined /\ claim' = [claim EXCEPT ![r] = FALSE]
    BY <1>7 DEF CallerAborts
  <2>2. NoneForgotten
    <3>1. \/ state' = state
          \/ AbortJob(jobs[task[joined[r]].key])
      BY <1>7 DEF CallerAborts, lineVars
    <3> QED
      BY <1>4, <3>1
  <2> QED
    BY <1>1, <1>2, <2>1, <2>2
<1>8. ASSUME NEW j \in Requests, WaitTimeout(j) PROVE Claims'
  BY <1>2, <1>3, <1>8 DEF WaitTimeout, callerVars
<1>9. ASSUME NEW j \in Requests, NEW result \in {"value", "error"}, Complete(j, result)
      PROVE  Claims'
  <2>1. NoneForgotten
    BY <1>1, <1>9, CompleteEffect
  <2> QED
    BY <1>2, <1>9, <2>1 DEF Complete, callerVars
<1>10. ASSUME NEW r \in Requests, Hear(r) PROVE Claims'
  BY <1>1, <1>2, <1>10 DEF Hear, lineVars
<1>11. CASE UNCHANGED vars
  BY <1>2, <1>11 DEF vars, lineVars, callerVars
<1> QED
  BY <1>5, <1>6, <1>7, <1>8, <1>9, <1>10, <1>11 DEF Next, Arrive, Finish

\* Every operation preserves the inductive invariant.
LEMMA InvPreserved == QueueInv /\ [Next]_vars => QueueInv'
<1> SUFFICES ASSUME QueueInv, [Next]_vars
             PROVE  Arrivals' /\ Bounded' /\ WorkConserving' /\ OneLiveJobPerKey'
  BY TypePreserved, ClaimsInv DEF QueueInv
<1> DEFINE Goal == Arrivals' /\ Bounded' /\ WorkConserving' /\ OneLiveJobPerKey'
<1>1. ASSUME NEW r \in Requests, NEW k \in Keys, NEW p \in Priorities,
             NEW s \in Signals, Submit(r, k, p, s)
      PROVE  Goal
  <2>1. phase[r] = "idle"
    BY <1>1 DEF Submit
  <2>2. CASE Join(r, k, s) \/ Refuse(r, k, s)
    <3>1. UNCHANGED <<sequence, running, waiting, jobs, task, state>>
      BY <2>2 DEF Join, Refuse, lineVars
    <3>2. \A q \in Requests : phase'[q] = "idle" => phase[q] = "idle"
      BY <2>2 DEF Join, Refuse, QueueInv, TypeOK
    <3> QED
      BY <3>1, <3>2 DEF QueueInv, Arrivals, Bounded, WorkConserving, OneLiveJobPerKey, Live
  <2>3. CASE Create(r, k, p, s)
    BY <2>1, <2>3, CreateInv
  <2> QED
    BY <1>1, <2>2, <2>3 DEF Submit
<1>2. ASSUME NEW k \in Keys, Cancel(k) PROVE Goal
  <2>1. jobs[k] \in Requests
    BY <1>2 DEF Cancel, QueueInv, TypeOK
  <2> QED
    BY <1>2, <2>1, AbortInv DEF Cancel, callerVars
<1>3. ASSUME NEW r \in Requests, CallerAborts(r) PROVE Goal
  <2> DEFINE j == jobs[task[joined[r]].key]
  <2>1. CASE ~ claim[r] \/ j = None
    <3>1. UNCHANGED <<lineVars, phase>>
      BY <1>3, <2>1 DEF CallerAborts
    <3> QED
      BY <3>1 DEF QueueInv, Arrivals, Bounded, WorkConserving, OneLiveJobPerKey, Live, lineVars
  <2>2. CASE ~ (~ claim[r] \/ j = None)
    <3>1. /\ UNCHANGED <<running, sequence, task, phase>>
          /\ \/ AbortJob(j)
             \/ UNCHANGED <<waiting, state, jobs>>
      BY <1>3, <2>2 DEF CallerAborts
    <3>2. CASE AbortJob(j)
      <4>1. j \in Requests
        BY <2>2 DEF QueueInv, Claims, Arrivals, Ranks, TypeOK
      <4> HIDE DEF j
      <4> QED
        BY <3>1, <3>2, <4>1, AbortInv
    <3>3. CASE UNCHANGED <<waiting, state, jobs>>
      BY <3>1, <3>3 DEF QueueInv, Arrivals, Bounded, WorkConserving, OneLiveJobPerKey, Live
    <3> QED
      BY <3>1, <3>2, <3>3
  <2> QED
    BY <2>1, <2>2
<1>4. ASSUME NEW j \in Requests, WaitTimeout(j) PROVE Goal
  BY <1>4, AbandonInv DEF WaitTimeout, callerVars
<1>5. ASSUME NEW j \in Requests, NEW result \in {"value", "error"}, Complete(j, result)
      PROVE  Goal
  BY <1>5, CompleteInv
<1>6. ASSUME NEW r \in Requests, Hear(r) PROVE Goal
  <2>1. /\ UNCHANGED lineVars
        /\ \A q \in Requests : phase'[q] = "idle" => phase[q] = "idle"
    BY <1>6 DEF Hear, QueueInv, TypeOK
  <2> QED
    BY <2>1 DEF QueueInv, Arrivals, Bounded, WorkConserving, OneLiveJobPerKey, Live, lineVars
<1>7. CASE UNCHANGED vars
  BY <1>7 DEF QueueInv, Arrivals, Bounded, WorkConserving, OneLiveJobPerKey, Live, vars, lineVars, callerVars
<1> QED
  BY <1>1, <1>2, <1>3, <1>4, <1>5, <1>6, <1>7 DEF Next, Arrive, Finish

LEMMA InvInitial == Init => QueueInv
<1> SUFFICES ASSUME Init PROVE QueueInv
  OBVIOUS
<1>1. TypeOK
  BY DEF Init, TypeOK
<1>2. RunningJobs = {} /\ {j \in Requests : state[j] = "waiting"} = {}
  BY DEF Init, RunningJobs
<1>3. Bounded
  BY <1>2, FS_EmptySet DEF Init, Bounded, RunningJobs
<1>4. Arrivals /\ Claims /\ WorkConserving /\ OneLiveJobPerKey
  BY DEF Init, Arrivals, Claims, WorkConserving, OneLiveJobPerKey, Live
<1> QED
  BY <1>1, <1>3, <1>4 DEF QueueInv

\* The inductive invariant holds of every behaviour of the queue.
THEOREM InvariantHolds == Spec => []QueueInv
BY InvInitial, InvPreserved, PTL DEF Spec

\* At most `concurrency` engine processes run, the counter the queue decides
\* by is exact, and the line never outgrows its ceiling.
THEOREM BoundedAlways == Spec => []Bounded
<1>1. QueueInv => Bounded
  BY DEF QueueInv
<1> QED
  BY <1>1, InvariantHolds, PTL

\* No slot is idle while somebody waits.
THEOREM WorkConservingAlways == Spec => []WorkConserving
<1>1. QueueInv => WorkConserving
  BY DEF QueueInv
<1> QED
  BY <1>1, InvariantHolds, PTL

\* No two live jobs share a key, and the map holds exactly the live jobs.
THEOREM OneLiveJobPerKeyAlways == Spec => []OneLiveJobPerKey
<1>1. QueueInv => OneLiveJobPerKey
  BY DEF QueueInv
<1> QED
  BY <1>1, InvariantHolds, PTL

-----------------------------------------------------------------------------
(* What a step may never do                                                *)

LEMMA OrderStep ==
    ASSUME QueueInv, [Next]_vars
    PROVE  \A i, j \in Requests :
             (state[i] # "running" /\ state'[i] = "running" /\ j \in waiting')
                => Outranks(task'[i], task'[j])
<1> SUFFICES ASSUME NEW i \in Requests, NEW j \in Requests,
                    state[i] # "running", state'[i] = "running", j \in waiting'
             PROVE  Outranks(task'[i], task'[j])
  OBVIOUS
<1>1. state \in [Requests -> {"none", "waiting", "running", "settled"}]
  BY DEF QueueInv, TypeOK
<1>2. ASSUME NEW h, NEW why, Abandon(h, why) PROVE FALSE
  BY <1>1, <1>2 DEF Abandon
<1>3. ASSUME NEW h, AbortJob(h) PROVE FALSE
  BY <1>2, <1>3 DEF AbortJob
<1>4. ASSUME NEW r \in Requests, NEW k \in Keys, NEW p \in Priorities,
             NEW s \in Signals, Submit(r, k, p, s)
      PROVE  Outranks(task'[i], task'[j])
  <2>1. Create(r, k, p, s) /\ phase[r] = "idle"
    BY <1>4 DEF Submit, Join, Refuse, lineVars
  <2>2. \/ waiting' = {}
        \/ state' = [state EXCEPT ![r] = "waiting"]
        \/ state' = [state EXCEPT ![r] = "settled"]
    BY <2>1, CreateEffect
  <2> QED
    BY <1>1, <2>2
<1>5. ASSUME NEW h \in Requests, NEW result \in {"value", "error"}, Complete(h, result)
      PROVE  Outranks(task'[i], task'[j])
  <2>1. CASE state' = [state EXCEPT ![h] = "settled"]
    BY <1>1, <2>1
  <2>2. ASSUME NEW best \in waiting, waiting' = waiting \ {best},
               state' = [state EXCEPT ![h] = "settled", ![best] = "running"],
               \A g \in waiting \ {best} : Outranks(task[best], task[g])
        PROVE  Outranks(task'[i], task'[j])
    <3>1. i = best
      BY <1>1, <2>2
    <3>2. task' = task
      BY <1>5 DEF Complete
    <3> QED
      BY <2>2, <3>1, <3>2
  <2> QED
    BY <1>5, <2>1, <2>2, CompleteEffect
<1>6. ASSUME NEW r \in Requests, CallerAborts(r) PROVE FALSE
  <2>1. state' = state \/ AbortJob(jobs[task[joined[r]].key])
    BY <1>6 DEF CallerAborts, lineVars
  <2> QED
    BY <1>3, <2>1
<1>7. ~ UNCHANGED state
  OBVIOUS
<1> QED
  BY <1>2, <1>3, <1>4, <1>5, <1>6, <1>7
     DEF Next, Arrive, Finish, Cancel, WaitTimeout, Hear, vars, lineVars

\* Work is served by priority, then by arrival: a job that starts outranks
\* every job it leaves waiting.
THEOREM ServedInOrderAlways == Spec => ServedInOrder
<1>1. QueueInv /\ [Next]_vars =>
        [\A i, j \in Requests :
           (state[i] # "running" /\ state'[i] = "running" /\ j \in waiting')
              => Outranks(task'[i], task'[j])]_vars
  BY OrderStep
<1> QED
  BY <1>1, InvariantHolds, PTL DEF Spec, ServedInOrder

LEMMA RefusalStep ==
    ASSUME QueueInv, [Next]_vars, NEW r \in Requests,
           phase[r] # "refused", phase'[r] = "refused"
    PROVE  running = Concurrency /\ Cardinality(waiting) = MaxWaiting
<1>1. phase \in [Requests -> {"idle", "attached", "answered", "refused"}]
  BY DEF QueueInv, TypeOK
<1>2. ASSUME NEW q \in Requests, NEW k \in Keys, NEW p \in Priorities,
             NEW s \in Signals, Submit(q, k, p, s)
      PROVE  running = Concurrency /\ Cardinality(waiting) = MaxWaiting
  <2>1. Refuse(q, k, s)
    BY <1>1, <1>2 DEF Submit, Join, Create
  <2>2. Cardinality(waiting) \in Nat /\ Cardinality(waiting) <= MaxWaiting
    BY CardinalityType DEF QueueInv, TypeOK, Bounded
  <2>3. Cardinality(waiting) = MaxWaiting
    BY <2>1, <2>2 DEF Refuse
  <2>4. waiting # {}
    BY <2>3, FS_EmptySet
  <2> QED
    BY <2>3, <2>4 DEF QueueInv, WorkConserving
<1>3. ASSUME NEW q \in Requests, Hear(q) PROVE FALSE
  BY <1>1, <1>3 DEF Hear
<1>4. ~ UNCHANGED phase
  OBVIOUS
<1> QED
  BY <1>2, <1>3, <1>4
     DEF Next, Arrive, Finish, Cancel, WaitTimeout, CallerAborts, Complete, vars, callerVars

\* A request is refused only while every slot is busy and the line is full.
THEOREM RefusedOnlyWhenSaturatedAlways == Spec => RefusedOnlyWhenSaturated
<1>1. QueueInv /\ [Next]_vars =>
        [\A r \in Requests :
           (phase[r] # "refused" /\ phase'[r] = "refused")
              => running = Concurrency /\ Cardinality(waiting) = MaxWaiting]_vars
  BY RefusalStep
<1> QED
  BY <1>1, InvariantHolds, PTL DEF Spec, RefusedOnlyWhenSaturated

-----------------------------------------------------------------------------
(* Callers, references and what they were told                             *)

\* The requests that hold a reference to a job.
Holders(j) == {r \in Requests : joined[r] = j /\ claim[r]}

\* What makes the reference counts exact: a promise is pending as long as its
\* job is live, a caller holds its reference only until it hears, and nobody
\* who was turned away owns a job.
Callers ==
    /\ \A j \in Requests : state[j] # "none" => (Live(j) <=> outcome[j] = "pending")
    /\ \A r \in Requests : claim[r] => phase[r] = "attached"
    /\ \A r \in Requests : phase[r] = "refused" => state[r] = "none"

\* The inductive invariant of the reference counts.
CallersInv == QueueInv /\ Callers /\ RefsExact /\ AnnouncedIsFact

\* At most one job leaves in a step, and the others live on or not as before.
Settles(j) ==
    /\ Live(j)
    /\ state'[j] = "settled" /\ outcome'[j] # "pending"
    /\ \A i \in Requests \ {j} :
          /\ (state'[i] = "none") <=> (state[i] = "none")
          /\ Live(i)' <=> Live(i)
          /\ outcome'[i] = outcome[i]

LEMMA AbandonSettles ==
    ASSUME QueueInv, NEW j \in Requests, state[j] = "waiting",
           NEW why \in {"cancelled", "timeout"}, Abandon(j, why)
    PROVE  Settles(j)
BY DEF Abandon, Settles, QueueInv, TypeOK, Live

LEMMA AbortSettles ==
    ASSUME QueueInv, NEW j \in Requests, AbortJob(j)
    PROVE  Settles(j) \/ UNCHANGED <<state, outcome>>
BY AbandonSettles DEF AbortJob

LEMMA CompleteSettles ==
    ASSUME QueueInv, NEW j \in Requests, NEW result \in {"value", "error"},
           Complete(j, result)
    PROVE  Settles(j)
<1>1. state[j] = "running" /\ outcome' = [outcome EXCEPT ![j] = result]
  BY DEF Complete
<1>2. /\ state \in [Requests -> {"none", "waiting", "running", "settled"}]
      /\ outcome \in [Requests -> {"pending", "value", "error", "cancelled", "timeout"}]
      /\ \A i \in waiting : i \in Requests /\ state[i] = "waiting"
  BY DEF QueueInv, TypeOK, Bounded
<1>3. CASE state' = [state EXCEPT ![j] = "settled"]
  BY <1>1, <1>2, <1>3 DEF Settles, Live
<1>4. ASSUME NEW best \in waiting,
             state' = [state EXCEPT ![j] = "settled", ![best] = "running"]
      PROVE  Settles(j)
  BY <1>1, <1>2, <1>4 DEF Settles, Live
<1> QED
  BY <1>3, <1>4, CompleteEffect

\* A job that settles keeps the counts exact as long as they are not touched.
LEMMA SettlingKeeps ==
    ASSUME CallersInv, NEW j \in Requests, Settles(j) \/ UNCHANGED <<state, outcome>>,
           UNCHANGED <<refs, callerVars>>
    PROVE  Callers' /\ RefsExact'
<1>1. \A i \in Requests : Live(i)' => Live(i)
  BY DEF Settles, Live
<1>2. Callers'
  BY DEF CallersInv, Callers, Settles, Live, callerVars
<1>3. RefsExact'
  <2> SUFFICES ASSUME NEW i \in Requests, Live(i)'
               PROVE  refs'[i] = Cardinality({r \in Requests : joined'[r] = i /\ claim'[r]})
    BY DEF RefsExact
  <2>1. refs[i] = Cardinality({r \in Requests : joined[r] = i /\ claim[r]})
    BY <1>1 DEF CallersInv, RefsExact
  <2> QED
    BY <2>1 DEF callerVars
<1> QED
  BY <1>2, <1>3

\* The macrotask that brings a departure finds no promise reaction pending: a
\* caller that still holds its reference is on a live job, the one registered
\* under its key.
LEMMA HolderOnLiveJob ==
    ASSUME CallersInv, Drained, NEW r \in Requests, claim[r]
    PROVE  /\ joined[r] \in Requests /\ Live(joined[r])
           /\ jobs[task[joined[r]].key] = joined[r]
<1>1. phase[r] = "attached" /\ joined[r] \in Requests /\ state[joined[r]] # "none"
  BY DEF CallersInv, Callers, QueueInv, Claims
<1>2. outcome[joined[r]] = "pending"
  BY <1>1 DEF Drained, Unheard
<1>3. Live(joined[r])
  BY <1>1, <1>2 DEF CallersInv, Callers
<1> QED
  BY <1>1, <1>3 DEF CallersInv, QueueInv, OneLiveJobPerKey

LEMMA HoldersType == \A j : IsFiniteSet(Holders(j)) /\ Cardinality(Holders(j)) \in Nat
<1> SUFFICES ASSUME NEW j PROVE IsFiniteSet(Holders(j)) /\ Cardinality(Holders(j)) \in Nat
  OBVIOUS
<1>1. Holders(j) \in SUBSET Requests
  BY DEF Holders
<1> QED
  BY <1>1, CardinalityType

LEMMA DepartureKeeps ==
    ASSUME CallersInv, NEW r \in Requests, CallerAborts(r)
    PROVE  Callers' /\ RefsExact'
<1> DEFINE j == jobs[task[joined[r]].key]
<1>1. Drained /\ claim' = [claim EXCEPT ![r] = FALSE] /\ UNCHANGED <<phase, joined>>
  BY DEF CallerAborts
<1>2. claim \in [Requests -> BOOLEAN] /\ refs \in [Requests -> Int]
  BY DEF CallersInv, QueueInv, TypeOK
<1>3. CASE ~ claim[r]
  <2>1. claim' = claim /\ UNCHANGED lineVars
    BY <1>1, <1>2, <1>3 DEF CallerAborts
  <2> QED
    BY <1>1, <2>1 DEF CallersInv, Callers, RefsExact, Live, lineVars
<1>4. CASE claim[r]
  <2>1. joined[r] \in Requests /\ Live(joined[r]) /\ j = joined[r] /\ j # None
    BY <1>1, <1>4, HolderOnLiveJob, RequestsAssumption
  <2>2. refs' = [refs EXCEPT ![j] = @ - 1]
    BY <1>4, <2>1 DEF CallerAborts
  <2>3. Settles(j) \/ UNCHANGED <<state, outcome>>
    <3>1. AbortJob(j) \/ UNCHANGED <<aborted, waiting, state, outcome, jobs, announced>>
      BY <1>4, <2>1 DEF CallerAborts
    <3> QED
      BY <2>1, <3>1, AbortSettles DEF CallersInv
  <2> HIDE DEF j
  <2>4. Callers'
    BY <1>1, <1>2, <2>1, <2>3 DEF CallersInv, Callers, Settles, Live
  <2>5. ASSUME NEW i \in Requests, Live(i)'
        PROVE  refs'[i] = Cardinality(Holders(i)')
    <3>1. Live(i) /\ refs[i] = Cardinality(Holders(i))
      BY <2>3, <2>5 DEF Settles, Live, CallersInv, RefsExact, Holders
    <3>2. CASE i = j
      <4>1. r \in Holders(i) /\ Holders(i)' = Holders(i) \ {r}
        BY <1>1, <1>2, <1>4, <2>1, <3>2 DEF Holders
      <4>2. Cardinality(Holders(i)') = Cardinality(Holders(i)) - 1
        BY <4>1, HoldersType, FS_RemoveElement
      <4> QED
        BY <1>2, <2>1, <2>2, <3>1, <3>2, <4>2
    <3>3. CASE i # j
      <4>1. Holders(i)' = Holders(i)
        BY <1>1, <1>2, <2>1, <3>3 DEF Holders
      <4> QED
        BY <1>2, <2>1, <2>2, <3>1, <3>3, <4>1
    <3> QED
      BY <3>2, <3>3
  <2>6. RefsExact'
    BY <2>5 DEF RefsExact, Holders
  <2> QED
    BY <2>4, <2>6
<1> QED
  BY <1>3, <1>4

\* How the promise of a job that has just been created stands: settled when the
\* job was dropped on the spot, pending otherwise.
LEMMA CreateOutcome ==
    ASSUME QueueInv, NEW r \in Requests, NEW k \in Keys, NEW p \in Priorities,
           NEW s \in Signals, phase[r] = "idle", Create(r, k, p, s)
    PROVE  \E became \in {"running", "waiting", "settled"} :
             /\ state' = [state EXCEPT ![r] = became]
             /\ outcome' = [outcome EXCEPT ![r] = IF became = "settled" THEN "cancelled"
                                                                     ELSE "pending"]
<1> DEFINE rank == [key |-> k, priority |-> p, sequence |-> sequence]
           ranks == [task EXCEPT ![r] = rank]
           line == waiting \cup {r}
           started == Pump(ranks, line, Concurrency - running)
           dropped == IF s = "aborted" THEN {r} \ started ELSE {}
<1>1. /\ outcome' = [outcome EXCEPT ![r] = IF dropped = {} THEN "pending" ELSE "cancelled"]
      /\ state'[r] = CASE r \in started -> "running"
                       [] r \in dropped -> "settled"
                       [] r \in (line \ started) \ dropped -> "waiting"
                       [] OTHER -> state[r]
  BY DEF Create
<1>2. PICK became \in {"running", "waiting", "settled"} : state' = [state EXCEPT ![r] = became]
  BY CreateEffect
<1>3. state'[r] = became
  BY <1>2 DEF QueueInv, TypeOK
<1> HIDE DEF started
<1>4. dropped = {} <=> became # "settled"
  BY <1>1, <1>3
<1> QED
  BY <1>1, <1>2, <1>4

LEMMA SubmitKeeps ==
    ASSUME CallersInv, NEW r \in Requests, NEW k \in Keys, NEW p \in Priorities,
           NEW s \in Signals, Submit(r, k, p, s)
    PROVE  Callers' /\ RefsExact'
<1>1. phase[r] = "idle" /\ state[r] = "none" /\ ~ claim[r]
  BY DEF Submit, CallersInv, Callers, QueueInv, Arrivals
<1>2. /\ claim \in [Requests -> BOOLEAN] /\ refs \in [Requests -> Int]
      /\ joined \in [Requests -> Requests \cup {None}]
      /\ phase \in [Requests -> {"idle", "attached", "answered", "refused"}]
      /\ state \in [Requests -> {"none", "waiting", "running", "settled"}]
      /\ outcome \in [Requests -> {"pending", "value", "error", "cancelled", "timeout"}]
  BY DEF CallersInv, QueueInv, TypeOK
<1>3. CASE Join(r, k, s)
  <2> DEFINE j == jobs[k]
  <2>1. j \in Requests /\ Live(j)
    BY <1>3 DEF Join, CallersInv, QueueInv, TypeOK, OneLiveJobPerKey
  <2>2. /\ refs' = [refs EXCEPT ![j] = IF s = "aborted" THEN @ ELSE @ + 1]
        /\ phase' = [phase EXCEPT ![r] = "attached"]
        /\ joined' = [joined EXCEPT ![r] = j]
        /\ claim' = [claim EXCEPT ![r] = s # "aborted"]
        /\ UNCHANGED <<state, outcome>>
    BY <1>3 DEF Join
  <2> HIDE DEF j
  <2>3. Callers'
    BY <1>1, <1>2, <2>2 DEF CallersInv, Callers, Live
  <2>4. ASSUME NEW i \in Requests, Live(i)'
        PROVE  refs'[i] = Cardinality(Holders(i)')
    <3>1. Live(i) /\ refs[i] = Cardinality(Holders(i)) /\ r \notin Holders(i)
      BY <1>1, <2>2, <2>4 DEF Live, CallersInv, RefsExact, Holders
    <3>2. CASE i = j /\ s # "aborted"
      <4>1. Holders(i)' = Holders(i) \cup {r}
        BY <1>2, <2>2, <3>2 DEF Holders
      <4>2. Cardinality(Holders(i)') = Cardinality(Holders(i)) + 1
        BY <3>1, <4>1, HoldersType, FS_AddElement
      <4> QED
        BY <1>2, <2>1, <2>2, <3>1, <3>2, <4>2
    <3>3. CASE i # j \/ s = "aborted"
      <4>1. Holders(i)' = Holders(i)
        BY <1>1, <1>2, <2>2, <3>3 DEF Holders
      <4> QED
        BY <1>2, <2>1, <2>2, <3>1, <3>3, <4>1
    <3> QED
      BY <3>2, <3>3
  <2>5. RefsExact'
    BY <2>4 DEF RefsExact, Holders
  <2> QED
    BY <2>3, <2>5
<1>4. CASE Refuse(r, k, s)
  BY <1>1, <1>2, <1>4 DEF Refuse, CallersInv, Callers, RefsExact, Live, lineVars
<1>5. CASE Create(r, k, p, s)
  <2> DEFINE given == s = "aborted"
  <2>1. /\ refs' = [refs EXCEPT ![r] = IF given THEN 0 ELSE 1]
        /\ phase' = [phase EXCEPT ![r] = "attached"]
        /\ joined' = [joined EXCEPT ![r] = r]
        /\ claim' = [claim EXCEPT ![r] = ~ given]
    BY <1>5 DEF Create
  <2>2. PICK became \in {"running", "waiting", "settled"} :
          /\ state' = [state EXCEPT ![r] = became]
          /\ outcome' = [outcome EXCEPT ![r] = IF became = "settled" THEN "cancelled" ELSE "pending"]
    BY <1>1, <1>5, CreateOutcome DEF CallersInv
  <2> HIDE DEF given
  <2>3. Callers'
    BY <1>1, <1>2, <2>1, <2>2 DEF CallersInv, Callers, Live
  <2>4. Holders(r) = {}
    BY <1>1 DEF CallersInv, QueueInv, Claims, Holders
  <2>5. ASSUME NEW i \in Requests, Live(i)'
        PROVE  refs'[i] = Cardinality(Holders(i)')
    <3>1. CASE i = r /\ given
      <4>1. Holders(i)' = {}
        BY <1>2, <2>1, <2>4, <3>1 DEF Holders
      <4> QED
        BY <1>2, <2>1, <3>1, <4>1, FS_EmptySet
    <3>2. CASE i = r /\ ~ given
      <4>1. Holders(i)' = {r}
        BY <1>2, <2>1, <2>4, <3>2 DEF Holders
      <4>2. Cardinality(Holders(i)') = 1
        BY <4>1, FS_Singleton
      <4> QED
        BY <1>2, <2>1, <3>2, <4>2
    <3>3. CASE i # r
      <4>1. Live(i)
        BY <1>2, <2>2, <2>5, <3>3 DEF Live
      <4>2. Holders(i)' = Holders(i)
        BY <1>1, <1>2, <2>1, <3>3 DEF Holders
      <4> QED
        BY <1>2, <2>1, <3>3, <4>1, <4>2 DEF CallersInv, RefsExact, Holders
    <3> QED
      BY <3>1, <3>2, <3>3
  <2>6. RefsExact'
    BY <2>5 DEF RefsExact, Holders
  <2> QED
    BY <2>3, <2>6
<1> QED
  BY <1>3, <1>4, <1>5 DEF Submit
LEMMA HearKeeps ==
    ASSUME CallersInv, NEW r \in Requests, Hear(r)
    PROVE  Callers' /\ RefsExact'
<1>1. /\ phase[r] = "attached" /\ outcome[joined[r]] # "pending"
      /\ phase' = [phase EXCEPT ![r] = "answered"]
      /\ claim' = [claim EXCEPT ![r] = FALSE]
      /\ UNCHANGED <<lineVars, joined>>
  BY DEF Hear, Unheard
<1>2. /\ claim \in [Requests -> BOOLEAN]
      /\ phase \in [Requests -> {"idle", "attached", "answered", "refused"}]
  BY DEF CallersInv, QueueInv, TypeOK
<1>3. Callers'
  BY <1>1, <1>2 DEF CallersInv, Callers, Live, lineVars
<1>4. ASSUME NEW i \in Requests, Live(i)'
      PROVE  refs'[i] = Cardinality(Holders(i)')
  <2>1. Live(i) /\ outcome[i] = "pending"
    BY <1>1, <1>4 DEF Live, CallersInv, Callers, lineVars
  <2>2. Holders(i)' = Holders(i)
    BY <1>1, <1>2, <2>1 DEF Holders
  <2> QED
    BY <1>1, <2>1, <2>2 DEF CallersInv, RefsExact, Holders, lineVars
<1> QED
  BY <1>3, <1>4 DEF RefsExact, Holders

\* Every change of the line ends by telling each waiting job its place, and
\* what else happens changes neither the line nor its order.
LEMMA ToldWhenSynced ==
    ASSUME SyncPositions(task', waiting'), waiting' \in SUBSET Requests
    PROVE  AnnouncedIsFact'
BY DEF SyncPositions, AnnouncedIsFact

LEMMA ToldKeeps ==
    ASSUME QueueInv, AnnouncedIsFact, [Next]_vars
    PROVE  AnnouncedIsFact'
<1>1. waiting' \in SUBSET Requests
  BY TypePreserved DEF QueueInv, TypeOK
<1>2. ASSUME NEW j, NEW why, Abandon(j, why), task' = task PROVE AnnouncedIsFact'
  BY <1>1, <1>2, ToldWhenSynced DEF Abandon
<1>3. ASSUME UNCHANGED <<waiting, task, announced>> PROVE AnnouncedIsFact'
  BY <1>3 DEF AnnouncedIsFact
<1>4. ASSUME NEW j, AbortJob(j), task' = task PROVE AnnouncedIsFact'
  BY <1>2, <1>3, <1>4 DEF AbortJob
<1>5. ASSUME NEW r \in Requests, NEW k \in Keys, NEW p \in Priorities,
             NEW s \in Signals, Submit(r, k, p, s)
      PROVE  AnnouncedIsFact'
  <2>1. CASE Join(r, k, s) \/ Refuse(r, k, s)
    BY <1>3, <2>1 DEF Join, Refuse, lineVars
  <2>2. CASE Create(r, k, p, s)
    BY <1>1, <2>2, ToldWhenSynced DEF Create
  <2> QED
    BY <1>5, <2>1, <2>2 DEF Submit
<1>6. ASSUME NEW r \in Requests, CallerAborts(r) PROVE AnnouncedIsFact'
  <2>1. task' = task /\ (AbortJob(jobs[task[joined[r]].key]) \/ UNCHANGED <<waiting, announced>>)
    BY <1>6 DEF CallerAborts, lineVars
  <2> QED
    BY <1>3, <1>4, <2>1
<1>7. ASSUME NEW j \in Requests, NEW result, Complete(j, result) PROVE AnnouncedIsFact'
  BY <1>1, <1>7, ToldWhenSynced DEF Complete
<1> QED
  BY <1>2, <1>3, <1>4, <1>5, <1>6, <1>7
     DEF Next, Arrive, Finish, Cancel, WaitTimeout, Hear, vars, lineVars

\* Every operation preserves the inductive invariant of the counts.
LEMMA CallersInvPreserved == CallersInv /\ [Next]_vars => CallersInv'
<1> SUFFICES ASSUME CallersInv, [Next]_vars PROVE Callers' /\ RefsExact'
  BY InvPreserved, ToldKeeps DEF CallersInv
<1>1. ASSUME NEW r \in Requests, NEW k \in Keys, NEW p \in Priorities,
             NEW s \in Signals, Submit(r, k, p, s)
      PROVE  Callers' /\ RefsExact'
  BY <1>1, SubmitKeeps
<1>2. ASSUME NEW k \in Keys, Cancel(k) PROVE Callers' /\ RefsExact'
  <2>1. jobs[k] \in Requests /\ AbortJob(jobs[k]) /\ UNCHANGED <<refs, callerVars>>
    BY <1>2 DEF Cancel, CallersInv, QueueInv, TypeOK
  <2> QED
    BY <2>1, AbortSettles, SettlingKeeps DEF CallersInv
<1>3. ASSUME NEW r \in Requests, CallerAborts(r) PROVE Callers' /\ RefsExact'
  BY <1>3, DepartureKeeps
<1>4. ASSUME NEW j \in Requests, WaitTimeout(j) PROVE Callers' /\ RefsExact'
  <2>1. state[j] = "waiting" /\ Abandon(j, "timeout") /\ UNCHANGED <<refs, callerVars>>
    BY <1>4 DEF WaitTimeout
  <2> QED
    BY <2>1, AbandonSettles, SettlingKeeps DEF CallersInv
<1>5. ASSUME NEW j \in Requests, NEW result \in {"value", "error"}, Complete(j, result)
      PROVE  Callers' /\ RefsExact'
  <2>1. UNCHANGED <<refs, callerVars>>
    BY <1>5 DEF Complete
  <2> QED
    BY <1>5, <2>1, CompleteSettles, SettlingKeeps DEF CallersInv
<1>6. ASSUME NEW r \in Requests, Hear(r) PROVE Callers' /\ RefsExact'
  BY <1>6, HearKeeps
<1>7. CASE UNCHANGED vars
  BY <1>7 DEF CallersInv, Callers, RefsExact, Live, vars, lineVars, callerVars
<1> QED
  BY <1>1, <1>2, <1>3, <1>4, <1>5, <1>6, <1>7 DEF Next, Arrive, Finish

LEMMA CallersInvInitial == Init => CallersInv
BY InvInitial DEF Init, CallersInv, Callers, RefsExact, AnnouncedIsFact, Live

\* At every step the callers of a job, its claims and what they were told agree.
THEOREM CallersInvHolds == Spec => []CallersInv
BY CallersInvInitial, CallersInvPreserved, PTL DEF Spec

\* The reference count of a live job is the number of callers that hold a
\* reference to it: no release is lost, made twice, or made on a later job
\* with the same key.
THEOREM RefsExactAlways == Spec => []RefsExact
<1>1. CallersInv => RefsExact
  BY DEF CallersInv
<1> QED
  BY <1>1, CallersInvHolds, PTL

\* What a waiting caller was last told about its place is true now.
THEOREM AnnouncedIsFactAlways == Spec => []AnnouncedIsFact
<1>1. CallersInv => AnnouncedIsFact
  BY DEF CallersInv
<1> QED
  BY <1>1, CallersInvHolds, PTL

LEMMA DepartureStep ==
    ASSUME CallersInv, [Next]_vars, NEW r \in Requests, NEW j \in Requests,
           signal[r] # "aborted", signal'[r] = "aborted", ~ aborted[j], aborted'[j],
           NEW other \in Requests \ {r}, joined[other] = j, claim[other]
    PROVE  FALSE
<1>1. /\ aborted \in [Requests -> BOOLEAN] /\ refs \in [Requests -> Int]
      /\ signal \in [Requests -> {"absent", "live", "aborted"}]
  BY DEF CallersInv, QueueInv, TypeOK
<1>2. ASSUME NEW q \in Requests, NEW k \in Keys, NEW p \in Priorities,
             NEW s \in Signals, Submit(q, k, p, s)
      PROVE  FALSE
  <2>1. Create(q, k, p, s)
    BY <1>2 DEF Submit, Join, Refuse, lineVars
  <2>2. j = q
    BY <1>1, <2>1 DEF Create
  <2>3. state[q] = "none"
    BY <1>2 DEF Submit, CallersInv, QueueInv, Arrivals
  <2> QED
    BY <2>2, <2>3 DEF CallersInv, QueueInv, Claims
<1>3. ASSUME NEW q \in Requests, CallerAborts(q) PROVE FALSE
  <2> DEFINE i == jobs[task[joined[q]].key]
  <2>1. q = r
    BY <1>1, <1>3 DEF CallerAborts
  <2>2. claim[r] /\ LastReference(i) /\ AbortJob(i)
    BY <1>3, <2>1 DEF CallerAborts, lineVars
  <2>3. joined[r] \in Requests /\ Live(joined[r]) /\ i = joined[r]
    BY <1>3, <2>1, <2>2, HolderOnLiveJob DEF CallerAborts
  <2> HIDE DEF i
  <2>4. i = j
    BY <1>1, <2>2 DEF AbortJob
  <2>5. {r, other} \subseteq Holders(j) /\ refs[j] = Cardinality(Holders(j))
    BY <2>2, <2>3, <2>4 DEF CallersInv, RefsExact, Holders
  <2>6. Cardinality({r, other}) = 2
    <3> DEFINE alone == {r}
    <3>1. IsFiniteSet(alone) /\ Cardinality(alone) = 1 /\ other \notin alone
      BY FS_Singleton
    <3>2. {r, other} = alone \cup {other}
      OBVIOUS
    <3> HIDE DEF alone
    <3>3. Cardinality(alone \cup {other}) = Cardinality(alone) + 1
      BY <3>1, FS_AddElement
    <3> QED
      BY <3>1, <3>2, <3>3
  <2>7. 2 <= Cardinality(Holders(j))
    BY <2>5, <2>6, HoldersType, FS_Subset
  <2> QED
    BY <1>1, <2>2, <2>4, <2>5, <2>7, HoldersType DEF LastReference
<1>4. ~ UNCHANGED signal
  OBVIOUS
<1> QED
  BY <1>2, <1>3, <1>4
     DEF Next, Arrive, Finish, Cancel, WaitTimeout, Complete, Hear, vars, callerVars

\* A caller that goes away never aborts a job on which another caller still
\* holds a reference.
THEOREM DepartureSparesOthersAlways == Spec => DepartureSparesOthers
<1>1. CallersInv /\ [Next]_vars =>
        [\A r, j \in Requests :
           (signal[r] # "aborted" /\ signal'[r] = "aborted"
              /\ ~ aborted[j] /\ aborted'[j])
              => ~ \E other \in Requests \ {r} : joined[other] = j /\ claim[other]]_vars
  BY DepartureStep
<1> QED
  BY <1>1, CallersInvHolds, PTL DEF Spec, DepartureSparesOthers

-----------------------------------------------------------------------------
(* The queue implements the pool                                           *)

\* What the pool sees of a request, and of the order of service.
Place == [r \in Requests |-> IF phase[r] = "refused" THEN "refused" ELSE state[r]]
Better == {pair \in Requests \X Requests :
              /\ state[pair[1]] # "none"
              /\ state[pair[2]] # "none"
              /\ Outranks(task[pair[1]], task[pair[2]])}

LEMMA PlaceIsState ==
    ASSUME CallersInv
    PROVE  /\ Place \in [Requests -> {"none", "waiting", "running", "settled", "refused"}]
           /\ \A r \in Requests : phase[r] # "refused" => Place[r] = state[r]
           /\ \A r \in Requests : Place[r] = "refused" <=> phase[r] = "refused"
           /\ {j \in Requests : Place[j] = "running"} = {j \in Requests : state[j] = "running"}
           /\ {j \in Requests : Place[j] = "waiting"} = waiting
BY DEF CallersInv, Callers, QueueInv, Bounded, TypeOK, Place

LEMMA PoolCardinality == \A S : Pool!Cardinality(S) = Cardinality(S)
BY Zenon DEF Pool!Cardinality, Cardinality

\* What the pool counts is what the queue counts.
LEMMA PoolCounts ==
    ASSUME CallersInv
    PROVE  /\ Pool!Cardinality(Pool!At("running")) = running
           /\ Pool!At("waiting") = waiting
           /\ Pool!Cardinality(Pool!At("waiting")) = Cardinality(waiting)
<1>1. /\ Pool!At("running") = {j \in Requests : Place[j] = "running"}
      /\ Pool!At("waiting") = {j \in Requests : Place[j] = "waiting"}
  BY DEF Pool!At, Place
<1> QED
  BY <1>1, PlaceIsState, PoolCardinality DEF CallersInv, QueueInv, Bounded

\* A job that leaves is nowhere compared anew.
LEMMA SettleMaps ==
    ASSUME CallersInv, NEW j \in Requests, state[j] = "waiting", NEW why, Abandon(j, why),
           task' = task, phase' = phase
    PROVE  Pool!Leave(j)
<1>1. state' = [state EXCEPT ![j] = "settled"]
  BY AbandonEffect DEF CallersInv
<1>2. phase[j] # "refused" /\ state \in [Requests -> {"none", "waiting", "running", "settled"}]
  BY DEF CallersInv, Callers, QueueInv, TypeOK
<1>3. Place' = [Place EXCEPT ![j] = "settled"] /\ Place[j] = "waiting"
  BY <1>1, <1>2 DEF Place
<1>4. Better' = Better
  BY <1>1, <1>2 DEF Better
<1> QED
  BY <1>3, <1>4 DEF Pool!Leave, Place, Better
LEMMA AbortMaps ==
    ASSUME CallersInv, NEW j \in Requests, AbortJob(j), task' = task, phase' = phase
    PROVE  Pool!Leave(j) \/ UNCHANGED Pool!poolVars
<1>1. CASE state[j] = "waiting"
  BY <1>1, SettleMaps DEF AbortJob
<1>2. CASE state[j] # "waiting"
  <2>1. state' = state
    BY <1>2 DEF AbortJob
  <2> QED
    BY <2>1 DEF Pool!poolVars
<1> QED
  BY <1>1, <1>2

\* A newcomer is compared with everybody who has arrived; the others keep their order.
LEMMA CreateRanks ==
    ASSUME CallersInv, NEW r \in Requests, state[r] = "none", NEW rank,
           task' = [task EXCEPT ![r] = rank],
           NEW became \in {"running", "waiting", "settled"}, state' = [state EXCEPT ![r] = became]
    PROVE  Pool!Ranked(r)
<1>1. /\ task \in [Requests -> Ranks \cup {None}]
      /\ state \in [Requests -> {"none", "waiting", "running", "settled"}]
  BY DEF CallersInv, QueueInv, TypeOK
<1>2. \A q \in Requests : q # r => state'[q] = state[q] /\ task'[q] = task[q]
  BY <1>1
<1>3. Better \subseteq Better'
  BY <1>2 DEF Better
<1>4. \A pair \in Better' \ Better : r \in {pair[1], pair[2]}
  BY <1>2 DEF Better
<1> QED
  BY <1>3, <1>4 DEF Pool!Ranked, Better

LEMMA CreateMaps ==
    ASSUME CallersInv, NEW r \in Requests, NEW k \in Keys, NEW p \in Priorities,
           NEW s \in Signals, phase[r] = "idle", Create(r, k, p, s)
    PROVE  Pool!Enter(r) \/ Pool!Leave(r)
<1>1. /\ task' = [task EXCEPT ![r] = [key |-> k, priority |-> p, sequence |-> sequence]]
      /\ phase' = [phase EXCEPT ![r] = "attached"]
      /\ Cardinality(waiting) < MaxWaiting
  BY DEF Create
<1>2. /\ state[r] = "none" /\ QueueInv
      /\ state \in [Requests -> {"none", "waiting", "running", "settled"}]
      /\ phase \in [Requests -> {"idle", "attached", "answered", "refused"}]
  BY DEF CallersInv, QueueInv, Arrivals, TypeOK
<1>3. Place[r] = "none"
  BY <1>2 DEF Place
<1>4. ASSUME NEW became \in {"running", "waiting", "settled"}, state' = [state EXCEPT ![r] = became]
      PROVE  Place' = [Place EXCEPT ![r] = became]
  BY <1>1, <1>2, <1>4 DEF Place
<1>5. CASE /\ running < Concurrency /\ waiting = {}
           /\ state' = [state EXCEPT ![r] = "running"]
  <2>1. Place' = [Place EXCEPT ![r] = "running"]
    BY <1>4, <1>5
  <2>2. Pool!Ranked(r)
    BY <1>1, <1>2, <1>5, CreateRanks
  <2> QED
    BY <1>3, <1>5, <2>1, <2>2, PoolCounts DEF Pool!Enter, Place
<1>6. CASE running = Concurrency /\ state' = [state EXCEPT ![r] = "waiting"]
  <2>1. Place' = [Place EXCEPT ![r] = "waiting"]
    BY <1>4, <1>6
  <2>2. Pool!Ranked(r)
    BY <1>1, <1>2, <1>6, CreateRanks
  <2>3. ~ (Pool!Cardinality(Pool!At("running")) < Concurrency)
    BY <1>6, PoolCounts
  <2>4. Pool!Cardinality(Pool!At("waiting")) < MaxWaiting
    BY <1>1, PoolCounts
  <2>5. Pool!Enter(r)
    BY <1>3, <2>1, <2>2, <2>3, <2>4, Zenon DEF Pool!Enter, Place
  <2> QED
    BY <2>5
<1>7. CASE running = Concurrency /\ state' = [state EXCEPT ![r] = "settled"]
  <2>1. Place' = [Place EXCEPT ![r] = "settled"]
    BY <1>4, <1>7
  <2>2. Pool!Ranked(r)
    BY <1>1, <1>2, <1>7, CreateRanks
  <2> QED
    BY <1>3, <1>7, <2>1, <2>2, PoolCounts DEF Pool!Leave, Place
<1> QED
  BY <1>2, <1>5, <1>6, <1>7, CreateEffect

LEMMA CompleteMaps ==
    ASSUME CallersInv, NEW j \in Requests, NEW result, Complete(j, result)
    PROVE  Pool!Depart(j)
<1>1. state[j] = "running" /\ UNCHANGED <<task, phase>>
  BY DEF Complete, callerVars
<1>2. /\ QueueInv /\ phase[j] # "refused"
      /\ state \in [Requests -> {"none", "waiting", "running", "settled"}]
      /\ waiting = {i \in Requests : state[i] = "waiting"}
      /\ \A i \in Requests : phase[i] = "refused" => state[i] = "none"
  BY <1>1 DEF CallersInv, Callers, QueueInv, TypeOK, Bounded
<1>3. Place[j] = "running"
  BY <1>1, <1>2 DEF Place
<1>4. CASE waiting = {} /\ state' = [state EXCEPT ![j] = "settled"]
  <2>1. Place' = [Place EXCEPT ![j] = "settled"] /\ Better' = Better
    BY <1>1, <1>2, <1>4 DEF Place, Better
  <2> QED
    BY <1>3, <1>4, <2>1, PoolCounts DEF Pool!Depart, Place, Better
<1>5. ASSUME NEW best \in waiting,
             state' = [state EXCEPT ![j] = "settled", ![best] = "running"],
             \A i \in waiting \ {best} : Outranks(task[best], task[i])
      PROVE  Pool!Depart(j)
  <2>1. best \in Requests /\ best # j /\ state[best] = "waiting" /\ phase[best] # "refused"
    BY <1>1, <1>2
  <2>2. Place' = [Place EXCEPT ![j] = "settled", ![best] = "running"] /\ Better' = Better
    BY <1>1, <1>2, <1>5, <2>1 DEF Place, Better
  <2>3. \A i \in waiting : task[i] \in Ranks
    BY <1>2 DEF QueueInv, Arrivals
  <2>4. \A i \in waiting : ~ Outranks(task[i], task[best])
    BY <1>5, <2>3, OutranksOrder
  <2>5. Pool!First(best)
    <3>1. Place[best] = "waiting"
      BY <2>1 DEF Place
    <3>2. \A i \in waiting : <<i, best>> \notin Better
      BY <2>4 DEF Better
    <3> QED
      BY <3>1, <3>2, PoolCounts DEF Pool!First, Place, Better
  <2> QED
    BY <1>3, <2>1, <2>2, <2>5 DEF Pool!Depart, Place, Better
<1> QED
  BY <1>2, <1>4, <1>5, CompleteEffect

\* Every step of the queue is a step of the pool or leaves it alone.
LEMMA StepMaps == CallersInv /\ [Next]_vars => [Pool!PoolNext]_(Pool!poolVars)
<1> SUFFICES ASSUME CallersInv, [Next]_vars
             PROVE  Pool!PoolNext \/ UNCHANGED Pool!poolVars
  OBVIOUS
<1>1. CallersInv /\ QueueInv /\ phase \in [Requests -> {"idle", "attached", "answered", "refused"}]
  BY DEF CallersInv, QueueInv, TypeOK
<1>2. ASSUME UNCHANGED <<state, task>>,
             \A q \in Requests : phase'[q] = "refused" <=> phase[q] = "refused"
      PROVE  UNCHANGED Pool!poolVars
  BY <1>2 DEF Pool!poolVars
<1>3. ASSUME NEW r \in Requests, NEW k \in Keys, NEW p \in Priorities,
             NEW s \in Signals, Submit(r, k, p, s)
      PROVE  Pool!PoolNext \/ UNCHANGED Pool!poolVars
  <2>1. phase[r] = "idle" /\ state[r] = "none"
    BY <1>1, <1>3 DEF Submit, QueueInv, Arrivals
  <2>2. CASE Join(r, k, s)
    BY <1>1, <1>2, <2>1, <2>2 DEF Join
  <2>3. CASE Refuse(r, k, s)
    <3>1. phase' = [phase EXCEPT ![r] = "refused"] /\ UNCHANGED <<state, task>>
      BY <2>3 DEF Refuse, lineVars
    <3>2. running = Concurrency /\ Cardinality(waiting) = MaxWaiting
      BY <1>1, <2>1, <3>1, RefusalStep
    <3>3. Place[r] = "none" /\ Place' = [Place EXCEPT ![r] = "refused"] /\ Better' = Better
      BY <1>1, <2>1, <3>1 DEF Place, Better
    <3>4. Pool!TurnAway(r)
      BY <3>2, <3>3, PoolCounts DEF Pool!TurnAway, Place, Better
    <3> QED
      BY <3>4 DEF Pool!PoolNext
  <2>4. CASE Create(r, k, p, s)
    BY <2>1, <2>4, CreateMaps DEF Pool!PoolNext
  <2> QED
    BY <1>3, <2>2, <2>3, <2>4 DEF Submit
<1>4. ASSUME NEW k \in Keys, Cancel(k) PROVE Pool!PoolNext \/ UNCHANGED Pool!poolVars
  <2>1. jobs[k] \in Requests /\ AbortJob(jobs[k]) /\ UNCHANGED <<task, phase>>
    BY <1>1, <1>4 DEF Cancel, QueueInv, TypeOK, callerVars
  <2> QED
    BY <2>1, AbortMaps DEF Pool!PoolNext
<1>5. ASSUME NEW r \in Requests, CallerAborts(r)
      PROVE  Pool!PoolNext \/ UNCHANGED Pool!poolVars
  <2> DEFINE j == jobs[task[joined[r]].key]
  <2>1. UNCHANGED <<task, phase>> /\ Drained
    BY <1>5 DEF CallerAborts, lineVars
  <2>2. UNCHANGED state \/ (claim[r] /\ AbortJob(j))
    BY <1>5 DEF CallerAborts, lineVars
  <2>3. CASE UNCHANGED state
    BY <1>2, <2>1, <2>3
  <2>4. CASE claim[r] /\ AbortJob(j)
    <3>1. j \in Requests
      BY <2>1, <2>4, HolderOnLiveJob
    <3> HIDE DEF j
    <3> QED
      BY <2>1, <2>4, <3>1, AbortMaps DEF Pool!PoolNext
  <2> QED
    BY <2>2, <2>3, <2>4
<1>6. ASSUME NEW j \in Requests, WaitTimeout(j) PROVE Pool!PoolNext \/ UNCHANGED Pool!poolVars
  <2>1. state[j] = "waiting" /\ Abandon(j, "timeout") /\ UNCHANGED <<task, phase>>
    BY <1>6 DEF WaitTimeout, callerVars
  <2> QED
    BY <2>1, SettleMaps DEF Pool!PoolNext
<1>7. ASSUME NEW j \in Requests, NEW result, Complete(j, result)
      PROVE  Pool!PoolNext
  BY <1>7, CompleteMaps DEF Pool!PoolNext
<1>8. ASSUME NEW r \in Requests, Hear(r) PROVE UNCHANGED Pool!poolVars
  BY <1>1, <1>2, <1>8 DEF Hear, lineVars, Unheard
<1>9. CASE UNCHANGED vars
  BY <1>2, <1>9 DEF vars, lineVars, callerVars
<1> QED
  BY <1>3, <1>4, <1>5, <1>6, <1>7, <1>8, <1>9 DEF Next, Arrive, Finish

\* The queue keeps every promise of the pool: bounded running, a bounded line,
\* no idle place while somebody waits, and service in order.
THEOREM QueueImplementsPool == Spec => ImplementsPool
<1>1. Init => Pool!PoolInit
  BY DEF Init, Pool!PoolInit
<1> QED
  BY <1>1, StepMaps, CallersInvHolds, PTL DEF Spec, ImplementsPool, Pool!PoolSpec

HIDE LimitsAssumption
HIDE PrioritiesAssumption
HIDE RequestsAssumption

-----------------------------------------------------------------------------
(* The inductive invariant of the registry                                 *)

\* What the registry knows of a job agrees with its life.  A job has the key
\* it was asked for, its promise is pending as long as it lives, its
\* settlement is recorded afterwards, and whoever stands in line was told so.
Bookkeeping ==
    /\ \A j \in Requests : state[j] = "none" => /\ outcome[j] = "pending"
                                                /\ ~ aborted[j] /\ j \notin waited
    /\ \A j \in Requests : state[j] # "none" => /\ Live(j) <=> outcome[j] = "pending"
                                                /\ asked[j] = task[j].key
    /\ \A j \in Requests : Live(j) => j \notin recorded
    /\ \A j \in Requests : state[j] = "waiting" => j \in waited

\* A request owns nothing before it is made, and no job after it was refused;
\* it holds a claim only while it waits for an answer.
Requesting ==
    /\ \A r \in Requests : phase[r] = "idle" => asked[r] = None /\ r \notin recorded
    /\ \A r \in Requests : phase[r] = "refused" => state[r] = "none"
    /\ \A r \in Requests : claim[r] => phase[r] = "attached"

\* A key is in flight or remembered, and not both.
FlightsUnremembered == \A k \in Keys : active[k] # None => Remembered(k) = {}

\* The inductive invariant of the registry.
RegistryIInv ==
    /\ QueueInv
    /\ RegistryTypeOK
    /\ Bookkeeping
    /\ Requesting
    /\ RegistryMatchesQueue
    /\ CacheSound
    /\ FlightsUnremembered
    /\ OnlyUsefulnessStops

-----------------------------------------------------------------------------
(* The cache                                                               *)

\* As many entries as the cache may hold, and one for a key.
CacheShape(c) ==
    /\ c \in Seq(Entries)
    /\ Len(c) <= MaxCached
    /\ \A i, h \in DOMAIN c : i # h => c[i].key # c[h].key

\* The first n entries of the cache, less those whose position is not in I.
KeptSoFar(I, n, c) ==
    /\ c \in Seq(Entries)
    /\ Len(c) <= n
    /\ (\E h \in 1 .. n : h \notin I) => Len(c) < n
    /\ \A i \in DOMAIN c : \E h \in I \cap (1 .. n) : c[i] = cache[h]
    /\ \A i, h \in DOMAIN c : i # h => c[i].key # c[h].key

LEMMA KeptStep ==
    ASSUME CacheShape(cache), NEW I, NEW n \in Nat, n + 1 <= Len(cache),
           NEW c, KeptSoFar(I, n, c)
    PROVE  KeptSoFar(I, n + 1, IF n + 1 \in I THEN Append(c, cache[n + 1]) ELSE c)
<1>1. /\ cache \in Seq(Entries) /\ Len(cache) \in Nat /\ DOMAIN cache = 1 .. Len(cache)
      /\ \A i, h \in DOMAIN cache : i # h => cache[i].key # cache[h].key
  BY DEF CacheShape
<1>2. /\ c \in Seq(Entries) /\ Len(c) \in Nat /\ DOMAIN c = 1 .. Len(c) /\ Len(c) <= n
      /\ (\E h \in 1 .. n : h \notin I) => Len(c) < n
      /\ \A i \in DOMAIN c : \E h \in I \cap (1 .. n) : c[i] = cache[h]
      /\ \A i, h \in DOMAIN c : i # h => c[i].key # c[h].key
  BY DEF KeptSoFar
<1>3. CASE n + 1 \notin I
  BY <1>2, <1>3 DEF KeptSoFar
<1>4. CASE n + 1 \in I
  <2> DEFINE entry == cache[n + 1]
             longer == Append(c, entry)
  <2>1. entry \in Entries
    BY <1>1
  <2>2. \A i \in DOMAIN c : c[i].key # entry.key
    <3> SUFFICES ASSUME NEW i \in DOMAIN c PROVE c[i].key # entry.key
      OBVIOUS
    <3>1. PICK h \in 1 .. n : c[i] = cache[h]
      BY <1>2
    <3> QED
      BY <1>1, <3>1
  <2>3. \A i \in DOMAIN c : \E h \in I \cap (1 .. n + 1) : c[i] = cache[h]
    <3> SUFFICES ASSUME NEW i \in DOMAIN c PROVE \E h \in I \cap (1 .. n + 1) : c[i] = cache[h]
      OBVIOUS
    <3>1. PICK h \in I \cap (1 .. n) : c[i] = cache[h]
      BY <1>2
    <3> QED
      BY <3>1
  <2>4. entry = cache[n + 1]
    OBVIOUS
  <2> HIDE DEF entry
  <2>5. /\ longer \in Seq(Entries) /\ Len(longer) = Len(c) + 1
        /\ \A i \in DOMAIN c : longer[i] = c[i]
        /\ longer[Len(c) + 1] = entry /\ DOMAIN longer = 1 .. Len(c) + 1
    BY <1>2, <2>1
  <2> HIDE DEF longer
  <2>6. \A i \in DOMAIN longer : \E h \in I \cap (1 .. n + 1) : longer[i] = cache[h]
    <3>1. \A i \in DOMAIN longer : i \in DOMAIN c \/ i = Len(c) + 1
      BY <1>2, <2>5
    <3> QED
      BY <1>4, <2>3, <2>4, <2>5, <3>1
  <2>7. \A i, h \in DOMAIN longer : i # h => longer[i].key # longer[h].key
    <3>1. \A i \in DOMAIN longer : i \in DOMAIN c \/ i = Len(c) + 1
      BY <1>2, <2>5
    <3> QED
      BY <1>2, <2>2, <2>5, <3>1
  <2>8. (\E h \in 1 .. n + 1 : h \notin I) => Len(longer) < n + 1
    BY <1>2, <1>4, <2>5
  <2>9. KeptSoFar(I, n + 1, longer)
    BY <1>2, <2>5, <2>6, <2>7, <2>8 DEF KeptSoFar
  <2> QED
    BY <1>4, <2>9 DEF longer, entry
<1> QED
  BY <1>3, <1>4

\* The recursive function of Kept, up to n.
Keeps(g, I, n) ==
    g = [i \in 0 .. n |-> IF i = 0 THEN <<>>
                          ELSE IF i \in I THEN Append(g[i - 1], cache[i]) ELSE g[i - 1]]

LEMMA KeptShape ==
    ASSUME CacheShape(cache), NEW I
    PROVE  KeptSoFar(I, Len(cache), Kept(I))
<1> DEFINE kept == CHOOSE g : Keeps(g, I, Len(cache))
           Solved == {n \in Nat : n <= Len(cache) => \E g : Keeps(g, I, n)}
<1>1. Kept(I) = kept[Len(cache)]
  BY DEF Kept, Keeps
<1>2. Len(cache) \in Nat
  BY DEF CacheShape
<1>3. \E g : Keeps(g, I, Len(cache))
  <2>1. 0 \in Solved
    <3> DEFINE g == [i \in 0 .. 0 |-> <<>>]
    <3>1. Keeps(g, I, 0)
      BY DEF Keeps
    <3> QED
      BY <3>1
  <2>2. ASSUME NEW n \in Solved PROVE n + 1 \in Solved
    <3> SUFFICES ASSUME n + 1 <= Len(cache) PROVE \E g : Keeps(g, I, n + 1)
      OBVIOUS
    <3>1. PICK g : Keeps(g, I, n)
      BY <1>2
    <3> DEFINE h == [i \in 0 .. n + 1 |->
                       IF i = 0 THEN <<>>
                       ELSE IF i \in I THEN Append(g[i - 1], cache[i]) ELSE g[i - 1]]
    <3>2. \A i \in 0 .. n : h[i] = g[i]
      <4>1. \A i \in 0 .. n :
               g[i] = IF i = 0 THEN <<>>
                      ELSE IF i \in I THEN Append(g[i - 1], cache[i]) ELSE g[i - 1]
        BY <3>1, Zenon DEF Keeps
      <4>2. \A i \in 0 .. n : i \in 0 .. n + 1
        OBVIOUS
      <4> QED
        BY <4>1, <4>2, Zenon
    <3>3. \A i \in 1 .. n + 1 : h[i - 1] = g[i - 1]
      <4> HIDE DEF h
      <4> QED
        BY <3>2
    <3>4. Keeps(h, I, n + 1)
      <4>1. \A i \in 0 .. n + 1 :
               (IF i = 0 THEN <<>> ELSE IF i \in I THEN Append(g[i - 1], cache[i]) ELSE g[i - 1])
               = (IF i = 0 THEN <<>> ELSE IF i \in I THEN Append(h[i - 1], cache[i]) ELSE h[i - 1])
        <5> HIDE DEF h
        <5> QED
          BY <3>3
      <4> QED
        BY <4>1, Zenon DEF Keeps
    <3> HIDE DEF h
    <3> QED
      BY <3>4
  <2>3. Solved = Nat
    <3>1. Solved \in SUBSET Nat
      OBVIOUS
    <3> HIDE DEF Solved
    <3> QED
      BY <2>1, <2>2, <3>1, NatClosed
  <2> QED
    BY <1>2, <2>3
<1>4. Keeps(kept, I, Len(cache))
  BY <1>3, Zenon
<1> HIDE DEF kept
<1> DEFINE Right == {n \in Nat : n <= Len(cache) => KeptSoFar(I, n, kept[n])}
<1>5. 0 \in Right
  <2>1. kept[0] = <<>>
    BY <1>2, <1>4 DEF Keeps
  <2>2. KeptSoFar(I, 0, <<>>)
    BY DEF KeptSoFar
  <2> QED
    BY <2>1, <2>2
<1>6. ASSUME NEW n \in Right PROVE n + 1 \in Right
  <2> SUFFICES ASSUME n + 1 <= Len(cache) PROVE KeptSoFar(I, n + 1, kept[n + 1])
    OBVIOUS
  <2>1. n \in Nat /\ KeptSoFar(I, n, kept[n])
    BY <1>2
  <2>2. kept[n + 1] = IF n + 1 \in I THEN Append(kept[n], cache[n + 1]) ELSE kept[n]
    <3>1. n + 1 \in 0 .. Len(cache) /\ n + 1 # 0 /\ (n + 1) - 1 = n
      BY <1>2, <2>1
    <3> QED
      BY <1>4, <3>1 DEF Keeps
  <2> QED
    BY <2>1, <2>2, KeptStep
<1>7. Right = Nat
  <2>1. Right \in SUBSET Nat
    OBVIOUS
  <2> HIDE DEF Right
  <2> QED
    BY <1>5, <1>6, <2>1, NatClosed
<1> QED
  BY <1>1, <1>2, <1>7

\* What the cache is after a key was read.
LEMMA ReadShape ==
    ASSUME CacheShape(cache), NEW k \in Keys
    PROVE  /\ CacheShape(ReadCache(k))
           /\ \A i \in DOMAIN ReadCache(k) : \E h \in DOMAIN cache : ReadCache(k)[i] = cache[h]
           /\ ~ Hit(k) => \A i \in DOMAIN ReadCache(k) : ReadCache(k)[i].key # k
<1> DEFINE rest == Without(k)
           served == CHOOSE i \in Remembered(k) : TRUE
           entry == cache[served]
<1>1. /\ cache \in Seq(Entries) /\ Len(cache) \in Nat /\ DOMAIN cache = 1 .. Len(cache)
      /\ Len(cache) <= MaxCached
  BY DEF CacheShape
<1>2. /\ rest \in Seq(Entries) /\ Len(rest) \in Nat /\ Len(rest) <= Len(cache)
      /\ DOMAIN rest = 1 .. Len(rest)
      /\ Remembered(k) # {} => Len(rest) < Len(cache)
      /\ \A i \in DOMAIN rest : \E h \in DOMAIN cache : rest[i] = cache[h] /\ cache[h].key # k
      /\ \A i, h \in DOMAIN rest : i # h => rest[i].key # rest[h].key
  <2>1. KeptSoFar(DOMAIN cache \ Remembered(k), Len(cache), rest)
    BY KeptShape DEF Without
  <2> HIDE DEF rest
  <2> QED
    BY <1>1, <2>1 DEF KeptSoFar, Remembered
<1>3. \A i \in DOMAIN rest : rest[i].key # k
  BY <1>2
<1>4. CASE ~ Hit(k)
  <2>1. ReadCache(k) = rest
    BY <1>4 DEF ReadCache
  <2> HIDE DEF rest
  <2> QED
    BY <1>1, <1>2, <1>3, <1>4, <2>1, RegistryLimits DEF CacheShape
<1>5. CASE Hit(k)
  <2>1. ReadCache(k) = Append(rest, entry)
    BY <1>5 DEF ReadCache
  <2>2. served \in DOMAIN cache /\ cache[served].key = k /\ Remembered(k) # {}
    BY <1>5 DEF Hit, Remembered
  <2> HIDE DEF rest, served
  <2>3. entry \in Entries /\ entry.key = k
    BY <1>1, <2>2
  <2>4. \E h \in DOMAIN cache : entry = cache[h]
    BY <2>2
  <2> HIDE DEF entry
  <2> DEFINE longer == Append(rest, entry)
  <2>5. /\ longer \in Seq(Entries) /\ Len(longer) = Len(rest) + 1
        /\ \A i \in DOMAIN rest : longer[i] = rest[i]
        /\ longer[Len(rest) + 1] = entry /\ DOMAIN longer = 1 .. Len(rest) + 1
    BY <1>2, <2>3
  <2>6. \A i \in DOMAIN longer : i \in DOMAIN rest \/ i = Len(rest) + 1
    BY <1>2, <2>5
  <2>7. longer = ReadCache(k)
    BY <2>1
  <2> HIDE DEF longer
  <2>8. Len(longer) <= MaxCached
    BY <1>1, <1>2, <2>2, <2>5, RegistryLimits
  <2>9. \A i, h \in DOMAIN longer : i # h => longer[i].key # longer[h].key
    BY <1>2, <1>3, <2>3, <2>5, <2>6
  <2>10. \A i \in DOMAIN longer : \E h \in DOMAIN cache : longer[i] = cache[h]
    BY <1>2, <2>4, <2>5, <2>6
  <2> QED
    BY <1>5, <2>5, <2>7, <2>8, <2>9, <2>10 DEF CacheShape
<1> QED
  BY <1>4, <1>5

\* What the cache is after a result was put under a key that it does not hold.
LEMMA RememberShape ==
    ASSUME CacheShape(cache), NEW k \in Keys, Remembered(k) = {},
           NEW entry \in Entries, entry.key = k
    PROVE  /\ CacheShape(Remember(k, entry))
           /\ \A i \in DOMAIN Remember(k, entry) :
                 \/ Remember(k, entry)[i] = entry
                 \/ \E h \in DOMAIN cache : Remember(k, entry)[i] = cache[h]
<1> DEFINE longer == Append(cache, entry)
           n == Len(longer)
           cut == SubSeq(longer, n - MaxCached + 1, n)
<1>1. /\ cache \in Seq(Entries) /\ Len(cache) \in Nat /\ DOMAIN cache = 1 .. Len(cache)
      /\ Len(cache) <= MaxCached /\ MaxCached \in Nat /\ MaxCached > 0
      /\ \A i, h \in DOMAIN cache : i # h => cache[i].key # cache[h].key
      /\ \A i \in DOMAIN cache : cache[i].key # k
  BY RegistryLimits DEF CacheShape, Remembered
<1>2. Remember(k, entry) = EvictOverflow(longer)
  BY DEF Remember
<1>3. /\ longer \in Seq(Entries) /\ n = Len(cache) + 1
      /\ \A i \in DOMAIN cache : longer[i] = cache[i]
      /\ longer[n] = entry /\ DOMAIN longer = 1 .. n
  BY <1>1
<1> HIDE DEF longer
<1>4. Remember(k, entry) = IF n > MaxCached THEN cut ELSE longer
  BY <1>2 DEF EvictOverflow
<1> HIDE DEF n
<1>5. \A i \in DOMAIN longer : i \in DOMAIN cache \/ i = n
  BY <1>1, <1>3
<1>6. \A i, h \in DOMAIN longer : i # h => longer[i].key # longer[h].key
  BY <1>1, <1>3, <1>5
<1>7. \A i \in DOMAIN longer : longer[i] = entry \/ \E h \in DOMAIN cache : longer[i] = cache[h]
  BY <1>3, <1>5
<1>8. CASE n <= MaxCached
  <2>1. Remember(k, entry) = longer
    BY <1>1, <1>3, <1>4, <1>8
  <2>2. CacheShape(longer)
    BY <1>3, <1>6, <1>8 DEF CacheShape, n
  <2> QED
    BY <1>7, <2>1, <2>2
<1>9. CASE n > MaxCached
  <2>1. Remember(k, entry) = cut /\ n = MaxCached + 1
    BY <1>1, <1>3, <1>4, <1>9
  <2>2. /\ cut \in Seq(Entries) /\ Len(cut) = MaxCached
        /\ \A i \in 1 .. MaxCached : cut[i] = longer[i + 1]
    <3>1. n - MaxCached + 1 = 2 /\ n \in Int
      BY <1>1, <2>1
    <3>2. \A i \in 2 .. n : longer[i] \in Entries
      BY <1>1, <1>3
    <3>3. /\ SubSeq(longer, 2, n) \in Seq(Entries)
          /\ Len(SubSeq(longer, 2, n)) = IF 2 <= n THEN n - 2 + 1 ELSE 0
          /\ \A i \in 1 .. n - 2 + 1 : SubSeq(longer, 2, n)[i] = longer[2 + i - 1]
      BY <3>1, <3>2, SubSeqProperties
    <3>4. cut = SubSeq(longer, 2, n)
      BY <3>1
    <3> HIDE DEF cut
    <3> QED
      BY <1>1, <2>1, <3>3, <3>4
  <2> HIDE DEF cut
  <2>3. DOMAIN cut = 1 .. MaxCached /\ \A i \in DOMAIN cut : i + 1 \in DOMAIN longer
    BY <1>1, <1>3, <2>1, <2>2
  <2>4. \A i, h \in DOMAIN cut : i # h => cut[i].key # cut[h].key
    BY <1>1, <1>6, <2>2, <2>3
  <2>5. \A i \in DOMAIN cut : cut[i] = entry \/ \E h \in DOMAIN cache : cut[i] = cache[h]
    BY <1>7, <2>2, <2>3
  <2> QED
    BY <1>1, <2>1, <2>2, <2>4, <2>5 DEF CacheShape
<1> QED
  BY <1>1, <1>3, <1>8, <1>9

-----------------------------------------------------------------------------
(* What a registry call does to the queue                                  *)

\* The jobs to cancel that still stand in the line.
Dropped(S) == S \cap waiting

LEMMA DropType ==
    ASSUME TypeOK, NEW S \in SUBSET Requests, CancelAll(S)
    PROVE  /\ UNCHANGED <<sequence, running, task, refs>>
           /\ waiting' = waiting \ S /\ waiting' \in SUBSET Requests
           /\ jobs' \in [Keys -> Requests \cup {None}]
           /\ state' \in [Requests -> {"none", "waiting", "running", "settled"}]
           /\ aborted' \in [Requests -> BOOLEAN]
           /\ announced' \in [Requests -> Nat]
           /\ outcome' \in [Requests -> {"pending", "value", "error", "cancelled", "timeout"}]
<1>1. /\ aborted' = [j \in Requests |-> aborted[j] \/ j \in S]
      /\ waiting' = waiting \ S
      /\ jobs' = [k \in Keys |-> IF jobs[k] \in S \cap waiting THEN None ELSE jobs[k]]
      /\ state' = [j \in Requests |-> IF j \in S \cap waiting THEN "settled" ELSE state[j]]
      /\ outcome' = [j \in Requests |-> IF j \in S \cap waiting THEN "cancelled" ELSE outcome[j]]
      /\ SyncPositions(task, waiting \ S)
      /\ UNCHANGED <<sequence, running, task, refs>>
  BY DEF CancelAll, LineWithout, JobsWithout
<1>2. waiting \ S \in SUBSET Requests
  BY DEF TypeOK
<1>3. announced' \in [Requests -> Nat]
  BY <1>1, <1>2, SyncType
<1>4. aborted' \in [Requests -> BOOLEAN]
  BY <1>1, Zenon DEF TypeOK
<1> QED
  BY <1>1, <1>2, <1>3, <1>4 DEF TypeOK

\* Which jobs are left, in terms of single jobs.
LEMMA DropEffect ==
    ASSUME QueueInv, NEW S \in SUBSET Requests, CancelAll(S)
    PROVE  \A j \in Requests :
             /\ j \in Dropped(S) => /\ state[j] = "waiting"
                                    /\ state'[j] = "settled" /\ outcome'[j] = "cancelled"
             /\ j \notin Dropped(S) => state'[j] = state[j] /\ outcome'[j] = outcome[j]
             /\ aborted'[j] <=> aborted[j] \/ j \in S
BY DEF CancelAll, Dropped, QueueInv, Bounded

LEMMA DropInv ==
    ASSUME QueueInv, NEW S \in SUBSET Requests, CancelAll(S),
           \A r \in Requests : phase'[r] = "idle" => phase[r] = "idle"
    PROVE  Arrivals' /\ Bounded' /\ WorkConserving' /\ OneLiveJobPerKey'
<1>1. /\ waiting' = waiting \ S /\ UNCHANGED <<sequence, running, task>>
      /\ jobs' = [k \in Keys |-> IF jobs[k] \in Dropped(S) THEN None ELSE jobs[k]]
      /\ state' = [j \in Requests |-> IF j \in Dropped(S) THEN "settled" ELSE state[j]]
  BY DEF CancelAll, LineWithout, JobsWithout, Dropped
<1>2. /\ waiting \in SUBSET Requests /\ jobs \in [Keys -> Requests \cup {None}]
      /\ state \in [Requests -> {"none", "waiting", "running", "settled"}]
      /\ \A j \in Requests : j \in waiting <=> state[j] = "waiting"
      /\ \A j \in Requests : j \in Dropped(S) <=> j \in S /\ j \in waiting
  BY DEF QueueInv, TypeOK, Bounded, Dropped
<1>3. \A j \in Requests : /\ state'[j] = "none" <=> state[j] = "none"
                          /\ Live(j)' <=> Live(j) /\ j \notin Dropped(S)
                          /\ state'[j] = "waiting" <=> state[j] = "waiting" /\ j \notin Dropped(S)
                          /\ state'[j] = "running" <=> state[j] = "running"
  BY <1>1, <1>2 DEF Live
<1>4. Arrivals'
  BY <1>1, <1>3 DEF QueueInv, Arrivals
<1>5. Bounded'
  <2>1. RunningJobs' = RunningJobs /\ running = Cardinality(RunningJobs)
    BY <1>3 DEF RunningJobs, QueueInv, Bounded
  <2>2. waiting' = {j \in Requests : state'[j] = "waiting"}
    BY <1>1, <1>2, <1>3
  <2>3. Cardinality(waiting') <= MaxWaiting
    <3>1. /\ Cardinality(waiting \ S) <= Cardinality(waiting)
          /\ Cardinality(waiting \ S) \in Nat /\ Cardinality(waiting) \in Nat
      <4>1. IsFiniteSet(waiting) /\ waiting \ S \subseteq waiting
        BY <1>2, CardinalityType
      <4> QED
        BY <4>1, FS_Subset, FS_CardinalityType
    <3>2. Cardinality(waiting) <= MaxWaiting
      BY DEF QueueInv, Bounded
    <3> QED
      BY <1>1, <3>1, <3>2, LimitsAssumption
  <2>4. running' <= Concurrency
    BY <1>1 DEF QueueInv, Bounded
  <2>5. running' = Cardinality(RunningJobs')
    BY <1>1, <2>1, Zenon
  <2> QED
    BY <2>2, <2>3, <2>4, <2>5 DEF Bounded, RunningJobs
<1>6. WorkConserving'
  BY <1>1, <1>2 DEF QueueInv, WorkConserving
<1>7. OneLiveJobPerKey'
  <2>1. ASSUME NEW j \in Requests, Live(j)' PROVE jobs'[task'[j].key] = j
    <3>1. Live(j) /\ j \notin Dropped(S) /\ task'[j] = task[j]
      BY <1>1, <1>3, <2>1
    <3>2. jobs[task[j].key] = j /\ task[j].key \in Keys
      BY <3>1 DEF Live, QueueInv, OneLiveJobPerKey, Arrivals, Ranks
    <3> QED
      BY <1>1, <3>1, <3>2
  <2>2. ASSUME NEW k \in Keys, jobs'[k] # None
        PROVE  Live(jobs[k])' /\ task'[jobs'[k]].key = k
    <3>1. jobs'[k] = jobs[k] /\ jobs[k] \notin Dropped(S)
      BY <1>1, <2>2
    <3>2. Live(jobs[k]) /\ task[jobs[k]].key = k /\ jobs[k] \in Requests
      BY <1>2, <2>2, <3>1 DEF QueueInv, OneLiveJobPerKey
    <3>3. state'[jobs[k]] = state[jobs[k]]
      BY <1>1, <3>1, <3>2
    <3> QED
      BY <1>1, <3>1, <3>2, <3>3 DEF Live
  <2> QED
    BY <2>1, <2>2 DEF OneLiveJobPerKey
<1> QED
  BY <1>4, <1>5, <1>6, <1>7

\* A job that is started while a slot is free finds an empty line and runs;
\* otherwise it waits.  The jobs it supersedes have left the line before.
LEMMA StartEffect ==
    ASSUME QueueInv, NEW r \in Requests, NEW k \in Keys, phase[r] = "idle",
           NEW S \in SUBSET Requests, S = Superseded(k), Start(r, k)
    PROVE  \/ /\ running < Concurrency /\ waiting = {} /\ waiting' = {}
              /\ running' = running + 1
              /\ state' = [state EXCEPT ![r] = "running"]
              /\ waited' = waited
           \/ /\ running = Concurrency /\ running' = running
              /\ waiting' = (waiting \ S) \cup {r}
              /\ state' = [j \in Requests |-> IF j = r THEN "waiting"
                                              ELSE IF j \in Dropped(S) THEN "settled" ELSE state[j]]
              /\ waited' = waited \cup {r}
<1> DEFINE rank == [key |-> k, priority |-> PriorityOf[k.kind], sequence |-> sequence]
           ranks == [task EXCEPT ![r] = rank]
           line == (waiting \ S) \cup {r}
           started == Pump(ranks, line, Concurrency - running)
           left == line \ started
<1>1. /\ running' = running + Cardinality(started)
      /\ waiting' = left
      /\ state' = [j \in Requests |-> CASE j \in started -> "running"
                                         [] j \in left -> "waiting"
                                         [] j \in S \cap waiting -> "settled"
                                         [] OTHER -> state[j]]
      /\ waited' = IF r \in left THEN waited \cup {r} ELSE waited
  BY DEF Start, LineWithout, ToldToWait
<1>2. /\ r \notin waiting /\ line \in SUBSET Requests
      /\ running \in Int /\ Concurrency \in Int /\ running <= Concurrency
      /\ \A j \in waiting : state[j] = "waiting"
      /\ state \in [Requests -> {"none", "waiting", "running", "settled"}]
      /\ \A j \in Requests : j \in waiting <=> state[j] = "waiting"
  <2>1. /\ waiting \in SUBSET Requests /\ running \in Int /\ running <= Concurrency
        /\ state \in [Requests -> {"none", "waiting", "running", "settled"}]
        /\ waiting = {j \in Requests : state[j] = "waiting"}
        /\ state[r] = "none"
    BY DEF QueueInv, TypeOK, Arrivals, Bounded
  <2> QED
    BY <2>1, LimitsAssumption
<1> HIDE DEF rank, ranks
<1>3. CASE running < Concurrency
  <2>1. waiting = {}
    BY <1>3 DEF QueueInv, WorkConserving, TypeOK
  <2>2. started = {r}
    BY <1>2, <1>3, <2>1, PumpAlone
  <2> HIDE DEF started
  <2>3. Cardinality(started) = 1
    BY <2>2, FS_Singleton
  <2>4. left = {}
    BY <2>1, <2>2
  <2>5. state' = [state EXCEPT ![r] = "running"]
    BY <1>1, <1>2, <2>1, <2>2, <2>4
  <2> QED
    BY <1>1, <1>3, <2>1, <2>3, <2>4, <2>5
<1>4. CASE running = Concurrency
  <2>1. started = {}
    BY <1>2, <1>4, PumpNone
  <2> HIDE DEF started
  <2>2. running' = running
    BY <1>1, <1>2, <2>1, FS_EmptySet
  <2>3. left = (waiting \ S) \cup {r}
    BY <2>1
  <2>4. state' = [j \in Requests |-> IF j = r THEN "waiting"
                                     ELSE IF j \in Dropped(S) THEN "settled" ELSE state[j]]
    <3> DEFINE becomes(j) == CASE j \in started -> "running"
                           [] j \in left -> "waiting"
                           [] j \in S \cap waiting -> "settled"
                           [] OTHER -> state[j]
    <3>1. \A j \in Requests : becomes(j) = IF j = r THEN "waiting"
                                       ELSE IF j \in Dropped(S) THEN "settled" ELSE state[j]
      <4> SUFFICES ASSUME NEW j \in Requests
                   PROVE  becomes(j) = IF j = r THEN "waiting"
                                   ELSE IF j \in Dropped(S) THEN "settled" ELSE state[j]
        OBVIOUS
      <4>1. CASE j = r
        <5>1. j \in left /\ j \notin started /\ j \notin waiting
          BY <1>2, <2>1, <2>3, <4>1
        <5> HIDE DEF left
        <5> QED
          BY <4>1, <5>1
      <4>2. CASE j # r /\ j \in waiting /\ j \notin S
        <5>1. j \in left /\ j \notin started /\ j \notin Dropped(S) /\ state[j] = "waiting"
          BY <1>2, <2>1, <2>3, <4>2 DEF Dropped
        <5> QED
          BY <4>2, <5>1
      <4>3. CASE j # r /\ j \in Dropped(S)
        BY <2>1, <2>3, <4>3 DEF Dropped
      <4>4. CASE j # r /\ j \notin waiting
        BY <2>1, <2>3, <4>4 DEF Dropped
      <4> QED
        BY <4>1, <4>2, <4>3, <4>4 DEF Dropped
    <3>2. state' = [j \in Requests |-> becomes(j)]
      BY <1>1
    <3> HIDE DEF becomes
    <3> QED
      BY <3>1, <3>2
  <2> QED
    BY <1>1, <1>4, <2>2, <2>3, <2>4
<1> QED
  BY <1>2, <1>3, <1>4

\* The key of a job that is started is free in the queue as well.
LEMMA KeyIsFree ==
    ASSUME QueueInv, RegistryMatchesQueue, NEW k \in Keys, active[k] = None
    PROVE  jobs[k] = None /\ \A j \in Requests : Live(j) => task[j].key # k
<1>1. \A j \in Requests : Live(j) => task[j].key # k
  BY RequestsAssumption DEF RegistryMatchesQueue
<1>2. jobs[k] # None => jobs[k] \in Requests /\ Live(jobs[k]) /\ task[jobs[k]].key = k
  BY DEF QueueInv, TypeOK, OneLiveJobPerKey
<1> QED
  BY <1>1, <1>2

LEMMA SupersededType ==
    ASSUME QueueInv, NEW k \in Keys
    PROVE  /\ Superseded(k) \in SUBSET Requests
           /\ \A j \in Superseded(k) : /\ Live(j) /\ task[j].key \in Keys
                                       /\ task[j].key.game = k.game
                                       /\ task[j].key.revision < k.revision
BY DEF Superseded, QueueInv, TypeOK, OneLiveJobPerKey

LEMMA StartInv ==
    ASSUME QueueInv, RegistryMatchesQueue,
           NEW r \in Requests, NEW k \in Keys, phase[r] = "idle", Start(r, k)
    PROVE  Arrivals' /\ Bounded' /\ WorkConserving' /\ OneLiveJobPerKey'
<1> DEFINE S == Superseded(k)
           rank == [key |-> k, priority |-> PriorityOf[k.kind], sequence |-> sequence]
<1>1. /\ active[k] = None /\ Cardinality(waiting \ S) < MaxWaiting
      /\ sequence' = sequence + 1
      /\ task' = [task EXCEPT ![r] = rank]
      /\ jobs' = [[h \in Keys |-> IF jobs[h] \in Dropped(S) THEN None ELSE jobs[h]] EXCEPT ![k] = r]
      /\ phase' = [phase EXCEPT ![r] = "attached"]
  BY DEF Start, NothingKnown, LineWithout, JobsWithout, Dropped
<1>2. /\ task \in [Requests -> Ranks \cup {None}] /\ sequence \in Nat
      /\ state \in [Requests -> {"none", "waiting", "running", "settled"}]
      /\ phase \in [Requests -> {"idle", "attached", "answered", "refused"}]
      /\ jobs \in [Keys -> Requests \cup {None}]
      /\ waiting \in SUBSET Requests /\ running \in Int
      /\ \A j \in Requests : j \in waiting <=> state[j] = "waiting"
  BY DEF QueueInv, TypeOK, Bounded
<1>3. state[r] = "none" /\ r \notin waiting
  BY <1>2 DEF QueueInv, Arrivals
<1>4. rank \in Ranks /\ rank.sequence = sequence /\ rank.key = k
  BY <1>2, KindsAssumption, KeysAssumption DEF Ranks
<1>5. jobs[k] = None /\ \A j \in Requests : Live(j) => task[j].key # k
  BY <1>1, KeyIsFree
<1>6. S \in SUBSET Requests
  BY SupersededType
<1> HIDE DEF S, rank
<1>7. \/ /\ running < Concurrency /\ waiting = {} /\ waiting' = {}
         /\ running' = running + 1
         /\ state' = [state EXCEPT ![r] = "running"]
      \/ /\ running = Concurrency /\ running' = running
         /\ waiting' = (waiting \ S) \cup {r}
         /\ state' = [j \in Requests |-> IF j = r THEN "waiting"
                                         ELSE IF j \in Dropped(S) THEN "settled" ELSE state[j]]
  BY <1>6, StartEffect DEF S
<1>8. /\ state'[r] \in {"running", "waiting"}
      /\ task'[r] = rank
      /\ \A j \in Requests \ {r} : /\ task'[j] = task[j]
                                   /\ j \in Dropped(S) => state'[j] = "settled"
                                   /\ j \notin Dropped(S) => state'[j] = state[j]
      /\ \A j \in Dropped(S) : state[j] = "waiting"
  BY <1>1, <1>2, <1>7 DEF Dropped
<1>9. Arrivals'
  <2>1. \A j \in Requests : phase'[j] = "idle" => state'[j] = "none"
    BY <1>1, <1>2, <1>8 DEF QueueInv, Arrivals
  <2>2. \A j \in Requests \ {r} : state'[j] # "none" <=> state[j] # "none"
    BY <1>8
  <2>3. \A j \in Requests : state'[j] # "none" => task'[j] \in Ranks /\ task'[j].sequence < sequence'
    <3> SUFFICES ASSUME NEW j \in Requests, state'[j] # "none"
                 PROVE  task'[j] \in Ranks /\ task'[j].sequence < sequence + 1
      BY <1>1
    <3>1. CASE j = r
      BY <1>2, <1>4, <1>8, <3>1
    <3>2. CASE j # r
      <4>1. task[j] \in Ranks /\ task[j].sequence < sequence /\ task'[j] = task[j]
        BY <1>8, <2>2, <3>2 DEF QueueInv, Arrivals
      <4>2. task[j].sequence \in Nat
        BY <4>1 DEF Ranks
      <4> QED
        BY <1>2, <4>1, <4>2
    <3> QED
      BY <3>1, <3>2
  <2>4. ASSUME NEW i \in Requests, NEW j \in Requests, i # j,
               state'[i] # "none", state'[j] # "none"
        PROVE  task'[i].sequence # task'[j].sequence
    <3>1. \A q \in Requests \ {r} : state[q] # "none" =>
             task'[q] = task[q] /\ task[q].sequence < sequence /\ task[q].sequence \in Nat
      BY <1>8 DEF QueueInv, Arrivals, Ranks
    <3>2. CASE i = r \/ j = r
      BY <1>2, <1>4, <1>8, <2>2, <2>4, <3>1, <3>2
    <3>3. CASE i # r /\ j # r
      BY <2>2, <2>4, <3>1, <3>3 DEF QueueInv, Arrivals
    <3> QED
      BY <3>2, <3>3
  <2> QED
    BY <2>1, <2>3, <2>4 DEF Arrivals
<1>10. Bounded' /\ WorkConserving'
  <2>1. /\ RunningJobs \in SUBSET Requests /\ running = Cardinality(RunningJobs)
        /\ running <= Concurrency
    BY DEF RunningJobs, QueueInv, Bounded
  <2>2. CASE /\ running < Concurrency /\ waiting = {} /\ waiting' = {}
             /\ running' = running + 1
             /\ state' = [state EXCEPT ![r] = "running"]
    <3>1. RunningJobs' = RunningJobs \cup {r} /\ r \notin RunningJobs
      BY <1>2, <1>3, <2>2 DEF RunningJobs
    <3>2. running' = Cardinality(RunningJobs')
      BY <2>1, <2>2, <3>1, CardinalityType, FS_AddElement
    <3>3. waiting' = {i \in Requests : state'[i] = "waiting"}
      BY <1>2, <2>2
    <3>4. Cardinality(waiting') <= MaxWaiting
      BY <2>2, FS_EmptySet, LimitsAssumption
    <3>5. running' <= Concurrency
      BY <1>2, <2>2, LimitsAssumption
    <3> QED
      BY <2>2, <3>2, <3>3, <3>4, <3>5 DEF Bounded, WorkConserving, RunningJobs
  <2>3. CASE /\ running = Concurrency /\ running' = running
             /\ waiting' = (waiting \ S) \cup {r}
             /\ state' = [j \in Requests |-> IF j = r THEN "waiting"
                                             ELSE IF j \in Dropped(S) THEN "settled" ELSE state[j]]
    <3>1. RunningJobs' = RunningJobs
      BY <1>2, <1>3, <2>3 DEF RunningJobs, Dropped
    <3>2. waiting' = {i \in Requests : state'[i] = "waiting"}
      BY <1>2, <1>3, <2>3 DEF Dropped
    <3>3. Cardinality(waiting') <= MaxWaiting
      <4>1. IsFiniteSet(waiting \ S) /\ Cardinality(waiting \ S) \in Nat /\ r \notin waiting \ S
        BY <1>2, <1>3, CardinalityType
      <4>2. Cardinality(waiting') = Cardinality(waiting \ S) + 1
        BY <2>3, <4>1, FS_AddElement
      <4> QED
        BY <1>1, <4>1, <4>2, LimitsAssumption
    <3>4. running' = Cardinality(RunningJobs')
      BY <2>1, <2>3, <3>1, Zenon
    <3>5. running' <= Concurrency
      BY <2>1, <2>3
    <3> QED
      BY <2>3, <3>2, <3>3, <3>4, <3>5 DEF Bounded, WorkConserving, RunningJobs
  <2> QED
    BY <1>7, <2>2, <2>3
<1>11. OneLiveJobPerKey'
  <2>1. \A h \in Keys \ {k} : jobs'[h] = IF jobs[h] \in Dropped(S) THEN None ELSE jobs[h]
    BY <1>1
  <2>2. jobs'[k] = r
    BY <1>1
  <2>3. ASSUME NEW i \in Requests, Live(i)' PROVE jobs'[task'[i].key] = i
    <3>1. CASE i = r
      BY <1>4, <1>8, <2>2, <3>1
    <3>2. CASE i # r
      <4>1. Live(i) /\ task'[i] = task[i] /\ i \notin Dropped(S)
        BY <1>8, <2>3, <3>2 DEF Live
      <4>2. jobs[task[i].key] = i /\ task[i].key \in Keys \ {k}
        BY <1>5, <4>1 DEF Live, QueueInv, OneLiveJobPerKey, Arrivals, Ranks
      <4> QED
        BY <2>1, <4>1, <4>2
    <3> QED
      BY <3>1, <3>2
  <2>4. ASSUME NEW h \in Keys, jobs'[h] # None
        PROVE  Live(jobs[h])' /\ task'[jobs'[h]].key = h
    <3>1. CASE h = k
      BY <1>4, <1>8, <2>2, <3>1 DEF Live
    <3>2. CASE h # k
      <4>1. jobs'[h] = jobs[h] /\ jobs[h] \notin Dropped(S) /\ jobs[h] # None
        BY <2>1, <2>4, <3>2
      <4>2. Live(jobs[h]) /\ task[jobs[h]].key = h /\ jobs[h] \in Requests
        BY <1>2, <4>1 DEF QueueInv, OneLiveJobPerKey
      <4>3. jobs[h] # r
        BY <1>3, <4>2 DEF Live
      <4>4. task'[jobs[h]] = task[jobs[h]] /\ state'[jobs[h]] = state[jobs[h]]
        BY <1>8, <4>1, <4>2, <4>3
      <4> QED
        BY <4>1, <4>2, <4>4 DEF Live
    <3> QED
      BY <3>1, <3>2
  <2> QED
    BY <2>3, <2>4 DEF OneLiveJobPerKey
<1> QED
  BY <1>9, <1>10, <1>11

LEMMA StartType ==
    ASSUME TypeOK, NEW r \in Requests, NEW k \in Keys, Start(r, k)
    PROVE  /\ sequence' \in Nat
           /\ running' \in Int
           /\ waiting' \in SUBSET Requests
           /\ jobs' \in [Keys -> Requests \cup {None}]
           /\ task' \in [Requests -> Ranks \cup {None}]
           /\ state' \in [Requests -> {"none", "waiting", "running", "settled"}]
           /\ aborted' \in [Requests -> BOOLEAN]
           /\ refs' \in [Requests -> Int]
           /\ announced' \in [Requests -> Nat]
           /\ outcome' \in [Requests -> {"pending", "value", "error", "cancelled", "timeout"}]
<1> DEFINE S == Superseded(k)
           rank == [key |-> k, priority |-> PriorityOf[k.kind], sequence |-> sequence]
           ranks == [task EXCEPT ![r] = rank]
           line == (waiting \ S) \cup {r}
           started == Pump(ranks, line, Concurrency - running)
           left == line \ started
<1>1. /\ sequence' = sequence + 1 /\ task' = ranks
      /\ running' = running + Cardinality(started)
      /\ waiting' = left
      /\ jobs' = [[h \in Keys |-> IF jobs[h] \in S \cap waiting THEN None ELSE jobs[h]]
                    EXCEPT ![k] = r]
      /\ state' = [j \in Requests |-> CASE j \in started -> "running"
                                         [] j \in left -> "waiting"
                                         [] j \in S \cap waiting -> "settled"
                                         [] OTHER -> state[j]]
      /\ outcome' = [j \in Requests |-> IF j \in S \cap waiting THEN "cancelled" ELSE outcome[j]]
      /\ aborted' = [j \in Requests |-> aborted[j] \/ j \in S]
      /\ refs' = [refs EXCEPT ![r] = 1]
      /\ SyncPositions(ranks, left)
  BY DEF Start, LineWithout, JobsWithout
<1>2. line \in SUBSET Requests
  BY DEF TypeOK
<1>3. started \in SUBSET Requests /\ left \in SUBSET Requests
  BY <1>2 DEF Pump
<1>4. rank \in Ranks
  BY KindsAssumption, KeysAssumption DEF Ranks, TypeOK
<1> HIDE DEF S, rank, ranks, line, started, left
<1>5. announced' \in [Requests -> Nat]
  BY <1>1, <1>3, SyncType
<1>6. running' \in Int /\ sequence' \in Nat
  BY <1>1, <1>3, CardinalityType DEF TypeOK
<1>7. aborted' \in [Requests -> BOOLEAN]
  BY <1>1, Zenon DEF TypeOK
<1>8. task' \in [Requests -> Ranks \cup {None}] /\ refs' \in [Requests -> Int]
  BY <1>1, <1>4 DEF TypeOK, ranks
<1>9. state' \in [Requests -> {"none", "waiting", "running", "settled"}]
  BY <1>1 DEF TypeOK
<1>10. /\ outcome' \in [Requests -> {"pending", "value", "error", "cancelled", "timeout"}]
       /\ jobs' \in [Keys -> Requests \cup {None}]
  BY <1>1 DEF TypeOK
<1> QED
  BY <1>1, <1>3, <1>5, <1>6, <1>7, <1>8, <1>9, <1>10

-----------------------------------------------------------------------------
(* What a step leaves as it was                                            *)

\* A job keeps what it was made for, and what has settled stays settled.
Onward ==
    \A j \in Requests :
        /\ state[j] # "none" => /\ state'[j] # "none" /\ task'[j] = task[j]
                                /\ asked'[j] = asked[j]
        /\ outcome[j] # "pending" => outcome'[j] = outcome[j]
        /\ phase[j] = "refused" => phase'[j] = "refused" /\ asked'[j] = asked[j]

\* Nobody changes but a request that is made.
OnlyNewcomers ==
    \A q \in Requests :
        \/ phase'[q] = phase[q] /\ joined'[q] = joined[q] /\ asked'[q] = asked[q]
        \/ phase[q] = "idle" /\ phase'[q] # "idle"

\* The registry and the queue still agree on what is live after a step that
\* records nothing, if what the step makes active or live is so in both.
LEMMA MatchKept ==
    ASSUME RegistryIInv, Onward, Bookkeeping', recorded' = recorded,
           \A k \in Keys : active[k] # None => active'[k] = active[k],
           \A k \in Keys : (active[k] = None /\ active'[k] # None) =>
               \/ Live(active[k])' /\ task'[active'[k]].key = k
               \/ Unrecorded(active[k])' /\ asked'[active'[k]] = k,
           \A j \in Requests : Live(j)' => Live(j) \/ active'[task'[j].key] = j
    PROVE  RegistryMatchesQueue'
<1>1. ASSUME NEW j \in Requests, Live(j)' PROVE active'[task'[j].key] = j
  <2> SUFFICES ASSUME Live(j) PROVE active'[task'[j].key] = j
    BY <1>1
  <2>1. task'[j] = task[j] /\ task[j].key \in Keys
    BY DEF Onward, Live, RegistryIInv, QueueInv, Arrivals, Ranks
  <2>2. active[task[j].key] = j
    BY DEF RegistryIInv, RegistryMatchesQueue
  <2>3. active[task[j].key] # None
    BY <2>2, RequestsAssumption
  <2> QED
    BY <2>1, <2>2, <2>3
<1>2. ASSUME NEW k \in Keys, active'[k] # None
      PROVE  \/ Live(active[k])' /\ task'[active'[k]].key = k
             \/ Unrecorded(active[k])' /\ asked'[active'[k]] = k
  <2> SUFFICES ASSUME active[k] # None
               PROVE  \/ Live(active[k])' /\ task'[active'[k]].key = k
                      \/ Unrecorded(active[k])' /\ asked'[active'[k]] = k
    BY <1>2
  <2>1. PICK j \in Requests : j = active[k] /\ active'[k] = j
    BY DEF RegistryIInv, RegistryTypeOK
  <2>2. \/ Live(j) /\ task[j].key = k
        \/ Unrecorded(j) /\ asked[j] = k
    BY <2>1 DEF RegistryIInv, RegistryMatchesQueue
  <2>3. CASE Live(j) /\ task[j].key = k
    <3>1. /\ state[j] # "none" /\ j \notin recorded /\ asked[j] = k
      BY <2>1, <2>3 DEF Live, RegistryIInv, Bookkeeping
    <3>2. /\ state'[j] # "none" /\ task'[j].key = k /\ asked'[j] = k
      BY <2>1, <2>3, <3>1 DEF Onward
    <3>3. Live(j)' \/ outcome'[j] # "pending"
      BY <2>1, <3>2 DEF Bookkeeping, Live
    <3>4. outcome'[j] # "pending" => Unrecorded(j)'
      BY <2>1, <3>1 DEF Unrecorded, Settled
    <3> QED
      BY <2>1, <3>2, <3>3, <3>4 DEF Live, Unrecorded, Settled
  <2>4. CASE Unrecorded(j) /\ asked[j] = k
    <3>1. j \notin recorded /\ (phase[j] = "refused" \/ outcome[j] # "pending")
      BY <2>4 DEF Unrecorded, Settled
    <3>2. phase'[j] = "refused" \/ outcome'[j] # "pending"
      BY <2>1, <3>1 DEF Onward
    <3>3. asked'[j] = k
      <4>1. outcome[j] # "pending" => state[j] # "none"
        BY <2>1 DEF RegistryIInv, Bookkeeping
      <4> QED
        BY <2>1, <2>4, <3>1, <4>1 DEF Onward
    <3> QED
      BY <2>1, <3>1, <3>2, <3>3 DEF Unrecorded, Settled
  <2> QED
    BY <2>2, <2>3, <2>4
<1> QED
  BY <1>1, <1>2 DEF RegistryMatchesQueue

\* What was remembered is still the value of a run for its key, if nothing
\* was added to it.
LEMMA CacheKept ==
    ASSUME RegistryIInv, Onward, CacheShape(cache'),
           \A i \in DOMAIN cache' : \E h \in DOMAIN cache : cache'[i] = cache[h]
    PROVE  CacheSound'
<1>1. \A h \in DOMAIN cache : cache[h].job \in Requests
  <2>1. cache \in Seq(Entries)
    BY DEF RegistryIInv, RegistryTypeOK
  <2>2. \A h \in DOMAIN cache : cache[h] \in Entries
    BY <2>1
  <2> QED
    BY <2>2 DEF Entries
<1>2. ASSUME NEW h \in DOMAIN cache
      PROVE  /\ outcome'[cache[h].job] = "value"
             /\ task'[cache[h].job].key = cache[h].key
  <2>1. outcome[cache[h].job] = "value" /\ task[cache[h].job].key = cache[h].key
    BY DEF RegistryIInv, CacheSound
  <2>2. state[cache[h].job] # "none"
    BY <1>1, <2>1 DEF RegistryIInv, Bookkeeping
  <2> QED
    BY <1>1, <2>1, <2>2 DEF Onward
<1>3. \A i \in DOMAIN cache' : /\ outcome'[cache'[i].job] = "value"
                               /\ task'[cache'[i].job].key = cache'[i].key
  BY <1>2
<1> QED
  BY <1>3 DEF CacheSound, CacheShape

\* No key gets in flight that is remembered, if nothing is added to the cache
\* and what gets in flight was removed from it.
LEMMA FlightsKept ==
    ASSUME RegistryIInv,
           \A i \in DOMAIN cache' : \E h \in DOMAIN cache : cache'[i] = cache[h],
           \A k \in Keys : active'[k] # None =>
               active[k] # None \/ \A i \in DOMAIN cache' : cache'[i].key # k
    PROVE  FlightsUnremembered'
BY DEF RegistryIInv, FlightsUnremembered, Remembered

\* Jobs are stopped for the reasons there are, if those that a step stops are
\* revoked, or outdated by somebody who asks.
LEMMA UsefulKept ==
    ASSUME RegistryIInv, Onward, revoked \subseteq revoked',
           \A q \in Requests : asked[q] # None => asked'[q] = asked[q],
           \A j \in Requests : (aborted'[j] /\ ~ aborted[j]) =>
               \/ j \in revoked'
               \/ \E r \in Requests : /\ asked'[r] # None
                                      /\ asked'[r].game = task'[j].key.game
                                      /\ asked'[r].revision > task'[j].key.revision
    PROVE  OnlyUsefulnessStops'
<1> SUFFICES ASSUME NEW j \in Requests, aborted[j]
             PROVE  \/ j \in revoked'
                    \/ \E r \in Requests : /\ asked'[r] # None
                                           /\ asked'[r].game = task'[j].key.game
                                           /\ asked'[r].revision > task'[j].key.revision
  BY DEF OnlyUsefulnessStops
<1>1. task'[j] = task[j]
  BY DEF RegistryIInv, Bookkeeping, Onward
<1>2. \/ j \in revoked
      \/ \E r \in Requests : /\ asked[r] # None
                             /\ asked[r].game = task[j].key.game
                             /\ asked[r].revision > task[j].key.revision
  BY DEF RegistryIInv, OnlyUsefulnessStops
<1> QED
  BY <1>1, <1>2

LEMMA DropKeeps ==
    ASSUME RegistryIInv, NEW S \in SUBSET Requests, CancelAll(S),
           \A j \in S : state[j] # "none", OnlyNewcomers,
           UNCHANGED <<claim, waited, recorded>>
    PROVE  Claims' /\ Onward /\ Bookkeeping' /\ Requesting'
<1>1. \A j \in Requests : /\ j \in Dropped(S) => /\ state[j] = "waiting"
                                                 /\ state'[j] = "settled"
                                                 /\ outcome'[j] = "cancelled"
                          /\ j \notin Dropped(S) => /\ state'[j] = state[j]
                                                    /\ outcome'[j] = outcome[j]
                          /\ aborted'[j] <=> aborted[j] \/ j \in S
  BY DropEffect DEF RegistryIInv
<1>2. task' = task
  BY DEF CancelAll
<1>3. \A j \in Requests : phase[j] = "idle" => state[j] = "none"
  BY DEF RegistryIInv, QueueInv, Arrivals
<1>4. \A j \in Requests : state[j] = "waiting" => outcome[j] = "pending"
  BY DEF RegistryIInv, Bookkeeping, Live
<1>5. Onward
  BY <1>1, <1>2, <1>3, <1>4 DEF Onward, OnlyNewcomers
<1>6. Claims'
  <2>1. \A r \in Requests : claim[r] =>
           phase[r] = "attached" /\ joined[r] \in Requests /\ state[joined[r]] # "none"
    BY DEF RegistryIInv, Requesting, QueueInv, Claims
  <2> QED
    BY <1>5, <2>1 DEF Claims, Onward, OnlyNewcomers
<1>7. Bookkeeping'
  <2>1. \A j \in Requests : state'[j] = "none" => outcome'[j] = "pending" /\ j \notin waited'
    BY <1>1 DEF RegistryIInv, Bookkeeping
  <2>2. \A j \in Requests : state'[j] = "none" => ~ aborted'[j]
    BY <1>1 DEF RegistryIInv, Bookkeeping
  <2>3. \A j \in Requests : state'[j] # "none" => /\ Live(j)' <=> outcome'[j] = "pending"
                                                  /\ asked'[j] = task'[j].key
    BY <1>1, <1>2, <1>5 DEF RegistryIInv, Bookkeeping, Live, Onward
  <2>4. \A j \in Requests : Live(j)' => j \notin recorded'
    BY <1>1 DEF RegistryIInv, Bookkeeping, Live
  <2>5. \A j \in Requests : state'[j] = "waiting" => j \in waited'
    BY <1>1 DEF RegistryIInv, Bookkeeping
  <2> QED
    BY <2>1, <2>2, <2>3, <2>4, <2>5 DEF Bookkeeping
<1>8. Requesting'
  <2>1. \A r \in Requests : phase'[r] = "idle" => asked'[r] = None /\ r \notin recorded'
    BY DEF RegistryIInv, Requesting, OnlyNewcomers
  <2>2. \A r \in Requests : phase'[r] = "refused" => state'[r] = "none"
    BY <1>1, <1>3 DEF RegistryIInv, Requesting, OnlyNewcomers
  <2>3. \A r \in Requests : claim'[r] => phase'[r] = "attached"
    BY DEF RegistryIInv, Requesting, OnlyNewcomers
  <2> QED
    BY <2>1, <2>2, <2>3 DEF Requesting
<1> QED
  BY <1>5, <1>6, <1>7, <1>8

\* The cache after a key was read, whatever else the call does.
LEMMA ReadKeeps ==
    ASSUME RegistryIInv, NEW k \in Keys, cache' = ReadCache(k)
    PROVE  /\ CacheShape(cache')
           /\ \A i \in DOMAIN cache' : \E h \in DOMAIN cache : cache'[i] = cache[h]
           /\ ~ Hit(k) => \A i \in DOMAIN cache' : cache'[i].key # k
<1>1. CacheShape(cache)
  BY DEF RegistryIInv, RegistryTypeOK, CacheSound, CacheShape
<1> DEFINE read == ReadCache(k)
<1>2. /\ CacheShape(read)
      /\ \A i \in DOMAIN read : \E h \in DOMAIN cache : read[i] = cache[h]
      /\ ~ Hit(k) => \A i \in DOMAIN read : read[i].key # k
  BY <1>1, ReadShape
<1> HIDE DEF read
<1>3. cache' = read
  BY DEF read
<1> QED
  BY <1>2, <1>3

-----------------------------------------------------------------------------
(* Submitting                                                              *)

\* A request that is answered from memory, that observes a job, or whose job
\* the full queue refuses.
LEMMA DropSubmitKeeps ==
    ASSUME RegistryIInv, NEW r \in Requests, NEW k \in Keys, phase[r] = "idle",
           NEW p \in {"answered", "attached", "refused"}, NEW j \in Requests,
           phase' = [phase EXCEPT ![r] = p], joined' = [joined EXCEPT ![r] = j],
           asked' = [asked EXCEPT ![r] = k],
           CancelAll(Superseded(k)), cache' = ReadCache(k), watching' \in SUBSET Requests,
           \/ active' = active
           \/ /\ active[k] = None /\ ~ Hit(k) /\ p = "refused"
              /\ active' = [active EXCEPT ![k] = r],
           UNCHANGED <<signal, claim, waited, recorded, revoked, now>>
    PROVE  RegistryIInv'
<1> DEFINE S == Superseded(k)
<1>1. /\ QueueInv /\ RegistryTypeOK
      /\ phase \in [Requests -> {"idle", "attached", "answered", "refused"}]
      /\ joined \in [Requests -> Requests \cup {None}]
      /\ asked \in [Requests -> Keys \cup {None}]
      /\ active \in [Keys -> Requests \cup {None}]
  BY DEF RegistryIInv, RegistryTypeOK, QueueInv, TypeOK
<1>2. S \in SUBSET Requests /\ \A i \in S : /\ Live(i) /\ state[i] # "none"
                                            /\ task[i].key.game = k.game
                                            /\ task[i].key.revision < k.revision
  BY <1>1, SupersededType DEF Live
<1>3. CancelAll(S)
  OBVIOUS
<1> HIDE DEF S
<1>4. OnlyNewcomers
  BY <1>1 DEF OnlyNewcomers
<1>5. Claims' /\ Onward /\ Bookkeeping' /\ Requesting'
  BY <1>2, <1>3, <1>4, DropKeeps
<1>6. \A q \in Requests : phase'[q] = "idle" => phase[q] = "idle"
  BY <1>4 DEF OnlyNewcomers
<1>7. Arrivals' /\ Bounded' /\ WorkConserving' /\ OneLiveJobPerKey'
  BY <1>1, <1>2, <1>3, <1>6, DropInv
<1>8. TypeOK'
  <2>1. /\ phase' \in [Requests -> {"idle", "attached", "answered", "refused"}]
        /\ joined' \in [Requests -> Requests \cup {None}]
    BY <1>1
  <2>2. TypeOK
    BY <1>1 DEF QueueInv
  <2> QED
    BY <1>2, <1>3, <2>1, <2>2, DropType DEF TypeOK
<1>9. QueueInv'
  BY <1>5, <1>7, <1>8 DEF QueueInv
<1>10. /\ CacheShape(cache')
       /\ \A i \in DOMAIN cache' : \E h \in DOMAIN cache : cache'[i] = cache[h]
       /\ ~ Hit(k) => \A i \in DOMAIN cache' : cache'[i].key # k
  BY ReadKeeps
<1>11. RegistryTypeOK'
  <2>1. active' \in [Keys -> Requests \cup {None}] /\ asked' \in [Requests -> Keys \cup {None}]
    BY <1>1
  <2>2. cache' \in Seq(Entries)
    BY <1>10 DEF CacheShape
  <2> QED
    BY <1>1, <2>1, <2>2 DEF RegistryTypeOK
<1>12. CacheSound'
  BY <1>5, <1>10, CacheKept
<1>13. FlightsUnremembered'
  <2>1. \A h \in Keys : active'[h] # None =>
           active[h] # None \/ \A i \in DOMAIN cache' : cache'[i].key # h
    BY <1>1, <1>10
  <2> QED
    BY <1>10, <2>1, FlightsKept
<1>14. RegistryMatchesQueue'
  <2>1. \A h \in Keys : active[h] # None => active'[h] = active[h]
    BY <1>1
  <2>2. ASSUME NEW h \in Keys, active[h] = None, active'[h] # None
        PROVE  Unrecorded(active[h])' /\ asked'[active'[h]] = h
    <3>1. h = k /\ active'[k] = r /\ phase'[r] = "refused" /\ asked'[r] = k
      BY <1>1, <2>2
    <3>2. r \notin recorded
      BY DEF RegistryIInv, Requesting
    <3>3. Unrecorded(r)'
      BY <3>1, <3>2 DEF Unrecorded, Settled
    <3> QED
      BY <3>1, <3>3 DEF Unrecorded, Settled
  <2>3. \A i \in Requests : Live(i)' => Live(i)
    BY <1>1, <1>2, <1>3, DropEffect DEF Live
  <2> QED
    BY <1>5, <2>1, <2>2, <2>3, MatchKept
<1>15. OnlyUsefulnessStops'
  <2>1. \A q \in Requests : asked[q] # None => asked'[q] = asked[q]
    BY <1>1 DEF RegistryIInv, Requesting
  <2>2. asked'[r] = k /\ k # None /\ k.revision \in Nat
    BY <1>1, KeysAssumption
  <2>3. ASSUME NEW i \in Requests, aborted'[i], ~ aborted[i]
        PROVE  \E q \in Requests : /\ asked'[q] # None
                                   /\ asked'[q].game = task'[i].key.game
                                   /\ asked'[q].revision > task'[i].key.revision
    <3>1. i \in S
      BY <1>1, <1>2, <1>3, <2>3, DropEffect
    <3>2. /\ task'[i] = task[i] /\ task[i].key.game = k.game
          /\ task[i].key.revision < k.revision /\ task[i].key.revision \in Nat
      <4>1. task[i].key \in Keys
        BY <1>1, <1>2, <3>1 DEF QueueInv, Arrivals, Ranks
      <4> QED
        BY <1>2, <1>5, <3>1, <4>1, KeysAssumption DEF Onward
    <3> QED
      BY <2>2, <3>2
  <2> QED
    BY <1>5, <2>1, <2>3, UsefulKept
<1> QED
  BY <1>5, <1>9, <1>11, <1>12, <1>13, <1>14, <1>15 DEF RegistryIInv

\* What a start does to the jobs, one by one.
LEMMA StartJobs ==
    ASSUME RegistryIInv, NEW r \in Requests, NEW k \in Keys, phase[r] = "idle", Start(r, k)
    PROVE  /\ state[r] = "none" /\ outcome[r] = "pending" /\ ~ aborted[r] /\ r \notin waited
           /\ state'[r] \in {"waiting", "running"} /\ outcome'[r] = "pending" /\ ~ aborted'[r]
           /\ task'[r].key = k
           /\ state'[r] = "waiting" => r \in waited'
           /\ \A j \in Requests \ {r} :
                /\ task'[j] = task[j]
                /\ j \in waited' <=> j \in waited
                /\ aborted'[j] <=> aborted[j] \/ j \in Superseded(k)
                /\ j \in Dropped(Superseded(k)) => /\ state[j] = "waiting" /\ state'[j] = "settled"
                                                   /\ outcome'[j] = "cancelled"
                /\ j \notin Dropped(Superseded(k)) => state'[j] = state[j] /\ outcome'[j] = outcome[j]
<1> DEFINE S == Superseded(k)
           rank == [key |-> k, priority |-> PriorityOf[k.kind], sequence |-> sequence]
<1>1. /\ task' = [task EXCEPT ![r] = rank]
      /\ outcome' = [j \in Requests |-> IF j \in Dropped(S) THEN "cancelled" ELSE outcome[j]]
      /\ aborted' = [j \in Requests |-> aborted[j] \/ j \in S]
  BY DEF Start, Dropped
<1>2. /\ QueueInv /\ task \in [Requests -> Ranks \cup {None}]
      /\ state \in [Requests -> {"none", "waiting", "running", "settled"}]
      /\ \A j \in Requests : j \in waiting <=> state[j] = "waiting"
  BY DEF RegistryIInv, QueueInv, TypeOK, Bounded
<1>3. state[r] = "none" /\ outcome[r] = "pending" /\ ~ aborted[r] /\ r \notin waited
  BY DEF RegistryIInv, QueueInv, Arrivals, Bookkeeping
<1>4. S \in SUBSET Requests /\ r \notin S
  BY <1>2, <1>3, SupersededType DEF Live
<1>5. rank.key = k
  OBVIOUS
<1> HIDE DEF S, rank
<1>6. \/ /\ waiting = {} /\ state' = [state EXCEPT ![r] = "running"] /\ waited' = waited
      \/ /\ state' = [j \in Requests |-> IF j = r THEN "waiting"
                                         ELSE IF j \in Dropped(S) THEN "settled" ELSE state[j]]
         /\ waited' = waited \cup {r}
  BY <1>2, <1>4, StartEffect DEF S
<1>7. /\ task'[r].key = k /\ \A j \in Requests \ {r} : task'[j] = task[j]
  BY <1>1, <1>2, <1>5
<1>8. /\ state'[r] \in {"waiting", "running"} /\ (state'[r] = "waiting" => r \in waited')
      /\ \A j \in Requests \ {r} :
           /\ j \in waited' <=> j \in waited
           /\ j \in Dropped(S) => state[j] = "waiting" /\ state'[j] = "settled"
           /\ j \notin Dropped(S) => state'[j] = state[j]
  BY <1>2, <1>6 DEF Dropped
<1>9. /\ outcome'[r] = "pending"
      /\ \A j \in Requests : /\ j \in Dropped(S) => outcome'[j] = "cancelled"
                             /\ j \notin Dropped(S) => outcome'[j] = outcome[j]
  BY <1>1, <1>3, <1>4 DEF Dropped
<1>10. \A j \in Requests : aborted'[j] <=> aborted[j] \/ j \in S
  BY <1>1
<1>11. ~ aborted'[r]
  BY <1>3, <1>4, <1>10
<1> QED
  BY <1>3, <1>7, <1>8, <1>9, <1>10, <1>11 DEF S

\* What a start leaves as it was.
LEMMA StartBooks ==
    ASSUME RegistryIInv, NEW r \in Requests, NEW k \in Keys, phase[r] = "idle", Start(r, k),
           asked' = [asked EXCEPT ![r] = k]
    PROVE  Claims' /\ Onward /\ Bookkeeping' /\ Requesting'
<1> DEFINE D == Dropped(Superseded(k))
<1>1. /\ state[r] = "none" /\ outcome[r] = "pending"
      /\ state'[r] \in {"waiting", "running"} /\ outcome'[r] = "pending" /\ ~ aborted'[r]
      /\ task'[r].key = k
      /\ state'[r] = "waiting" => r \in waited'
  BY StartJobs
<1>2. \A j \in Requests \ {r} :
         /\ task'[j] = task[j]
         /\ j \in waited' <=> j \in waited
         /\ j \in D => state[j] = "waiting" /\ state'[j] = "settled" /\ outcome'[j] = "cancelled"
         /\ j \notin D => state'[j] = state[j] /\ outcome'[j] = outcome[j]
  BY StartJobs
<1>3. \A j \in Requests \ {r} : state[j] = "none" => ~ aborted'[j]
  BY StartJobs, SupersededType DEF RegistryIInv, Bookkeeping, Live
<1>4. /\ phase' = [phase EXCEPT ![r] = "attached"] /\ joined' = [joined EXCEPT ![r] = r]
      /\ claim' = [claim EXCEPT ![r] = TRUE] /\ recorded' = recorded
  BY DEF Start
<1>5. /\ phase \in [Requests -> {"idle", "attached", "answered", "refused"}]
      /\ joined \in [Requests -> Requests \cup {None}] /\ claim \in [Requests -> BOOLEAN]
      /\ asked \in [Requests -> Keys \cup {None}]
  BY DEF RegistryIInv, RegistryTypeOK, QueueInv, TypeOK
<1>6. /\ phase'[r] = "attached" /\ joined'[r] = r /\ asked'[r] = k
      /\ \A j \in Requests \ {r} : /\ phase'[j] = phase[j] /\ joined'[j] = joined[j]
                                   /\ asked'[j] = asked[j]
  BY <1>4, <1>5
<1>7. \A j \in Requests \ {r} : claim'[j] <=> claim[j]
  BY <1>4, <1>5
<1> HIDE DEF D
<1>8. Onward
  BY <1>1, <1>2, <1>6 DEF Onward, RegistryIInv, Bookkeeping, Live
<1>9. Claims'
  <2>1. ASSUME NEW q \in Requests, claim'[q]
        PROVE  joined'[q] \in Requests /\ state'[joined'[q]] # "none"
    <3>1. CASE q = r
      BY <1>1, <1>6, <3>1
    <3>2. CASE q # r
      <4>1. claim[q] /\ joined'[q] = joined[q]
        BY <1>6, <1>7, <2>1, <3>2
      <4>2. joined[q] \in Requests /\ state[joined[q]] # "none"
        BY <4>1 DEF RegistryIInv, QueueInv, Claims
      <4> QED
        BY <1>8, <4>1, <4>2 DEF Onward
    <3> QED
      BY <3>1, <3>2
  <2> QED
    BY <2>1 DEF Claims
<1>10. Bookkeeping'
  <2>1. \A j \in Requests : state'[j] = "none" => outcome'[j] = "pending" /\ j \notin waited'
    BY <1>1, <1>2 DEF RegistryIInv, Bookkeeping
  <2>2. \A j \in Requests : state'[j] = "none" => ~ aborted'[j]
    <3>1. \A j \in Requests \ {r} : state'[j] = "none" => state[j] = "none"
      BY <1>2
    <3> QED
      BY <1>1, <1>3, <3>1
  <2>3. \A j \in Requests : state'[j] # "none" => /\ Live(j)' <=> outcome'[j] = "pending"
                                                  /\ asked'[j] = task'[j].key
    <3> SUFFICES ASSUME NEW j \in Requests, state'[j] # "none"
                 PROVE  /\ Live(j)' <=> outcome'[j] = "pending"
                        /\ asked'[j] = task'[j].key
      OBVIOUS
    <3>1. CASE j = r
      BY <1>1, <1>6, <3>1 DEF Live
    <3>2. CASE j # r
      <4>1. state[j] # "none" /\ asked'[j] = asked[j] /\ task'[j] = task[j]
        BY <1>2, <1>6, <3>2
      <4>2. (Live(j) <=> outcome[j] = "pending") /\ asked[j] = task[j].key
        BY <4>1 DEF RegistryIInv, Bookkeeping
      <4> QED
        BY <1>2, <3>2, <4>1, <4>2 DEF Live
    <3> QED
      BY <3>1, <3>2
  <2>4. \A j \in Requests : Live(j)' => j \notin recorded'
    BY <1>2, <1>4 DEF RegistryIInv, Bookkeeping, Requesting, Live
  <2>5. \A j \in Requests : state'[j] = "waiting" => j \in waited'
    BY <1>1, <1>2 DEF RegistryIInv, Bookkeeping
  <2> QED
    BY <2>1, <2>2, <2>3, <2>4, <2>5 DEF Bookkeeping
<1>11. Requesting'
  <2>1. \A q \in Requests : phase'[q] = "idle" => asked'[q] = None /\ q \notin recorded'
    BY <1>4, <1>6 DEF RegistryIInv, Requesting
  <2>2. \A q \in Requests : phase'[q] = "refused" => state'[q] = "none"
    BY <1>2, <1>6 DEF RegistryIInv, Requesting
  <2>3. \A q \in Requests : claim'[q] => phase'[q] = "attached"
    BY <1>6, <1>7 DEF RegistryIInv, Requesting
  <2> QED
    BY <2>1, <2>2, <2>3 DEF Requesting
<1> QED
  BY <1>8, <1>9, <1>10, <1>11

\* A request whose job is created.
LEMMA StartKeeps ==
    ASSUME RegistryIInv, NEW r \in Requests, NEW k \in Keys, phase[r] = "idle", Start(r, k),
           asked' = [asked EXCEPT ![r] = k], UNCHANGED <<signal, revoked, now>>
    PROVE  RegistryIInv'
<1>1. /\ QueueInv /\ RegistryTypeOK /\ TypeOK /\ RegistryMatchesQueue
      /\ phase \in [Requests -> {"idle", "attached", "answered", "refused"}]
      /\ joined \in [Requests -> Requests \cup {None}] /\ claim \in [Requests -> BOOLEAN]
      /\ asked \in [Requests -> Keys \cup {None}]
      /\ active \in [Keys -> Requests \cup {None}]
      /\ waited \in SUBSET Requests
  BY DEF RegistryIInv, RegistryTypeOK, QueueInv, TypeOK
<1>2. /\ ~ Hit(k) /\ active[k] = None /\ active' = [active EXCEPT ![k] = r]
      /\ cache' = ReadCache(k) /\ watching' = watching \cup {r} /\ recorded' = recorded
      /\ phase' = [phase EXCEPT ![r] = "attached"] /\ joined' = [joined EXCEPT ![r] = r]
      /\ claim' = [claim EXCEPT ![r] = TRUE]
  BY DEF Start, NothingKnown
<1>3. Claims' /\ Onward /\ Bookkeeping' /\ Requesting'
  BY StartBooks
<1>4. Arrivals' /\ Bounded' /\ WorkConserving' /\ OneLiveJobPerKey'
  BY <1>1, StartInv
<1>5. TypeOK'
  <2>1. /\ phase' \in [Requests -> {"idle", "attached", "answered", "refused"}]
        /\ joined' \in [Requests -> Requests \cup {None}]
        /\ signal' \in [Requests -> {"absent", "live", "aborted"}]
    BY <1>1, <1>2 DEF TypeOK
  <2>2. claim' \in [Requests -> BOOLEAN]
    BY <1>1, <1>2
  <2> QED
    BY <1>1, <2>1, <2>2, StartType DEF TypeOK
<1>6. QueueInv'
  BY <1>3, <1>4, <1>5 DEF QueueInv
<1>7. /\ CacheShape(cache')
      /\ \A i \in DOMAIN cache' : \E h \in DOMAIN cache : cache'[i] = cache[h]
      /\ \A i \in DOMAIN cache' : cache'[i].key # k
  BY <1>2, ReadKeeps
<1>8. RegistryTypeOK'
  <2>1. active' \in [Keys -> Requests \cup {None}] /\ asked' \in [Requests -> Keys \cup {None}]
    BY <1>1, <1>2
  <2>2. cache' \in Seq(Entries)
    BY <1>7 DEF CacheShape
  <2>3. waited' \in SUBSET Requests
    <3>1. waited' = waited \/ waited' = waited \cup {r}
      BY DEF Start, ToldToWait
    <3> QED
      BY <1>1, <3>1
  <2> QED
    BY <1>1, <1>2, <2>1, <2>2, <2>3 DEF RegistryTypeOK
<1>9. CacheSound'
  BY <1>3, <1>7, CacheKept
<1>10. FlightsUnremembered'
  <2>1. \A h \in Keys : active'[h] # None =>
           active[h] # None \/ \A i \in DOMAIN cache' : cache'[i].key # h
    BY <1>1, <1>2, <1>7
  <2> QED
    BY <1>7, <2>1, FlightsKept
<1>11. RegistryMatchesQueue'
  <2>1. state'[r] \in {"waiting", "running"} /\ task'[r].key = k /\ active'[k] = r
    BY <1>1, <1>2, StartJobs
  <2>2. \A h \in Keys : active[h] # None => active'[h] = active[h]
    BY <1>1, <1>2
  <2>3. ASSUME NEW h \in Keys, active[h] = None, active'[h] # None
        PROVE  Live(active[h])' /\ task'[active'[h]].key = h
    <3>1. h = k
      BY <1>1, <1>2, <2>3
    <3> QED
      BY <2>1, <3>1 DEF Live
  <2>4. \A i \in Requests : Live(i)' => Live(i) \/ active'[task'[i].key] = i
    BY <2>1, StartJobs DEF Live
  <2> QED
    BY <1>2, <1>3, <2>2, <2>3, <2>4, MatchKept
<1>12. OnlyUsefulnessStops'
  <2>1. \A q \in Requests : asked[q] # None => asked'[q] = asked[q]
    BY <1>1 DEF RegistryIInv, Requesting
  <2>2. asked'[r] = k /\ k # None /\ k.revision \in Nat
    BY <1>1, KeysAssumption
  <2>3. ASSUME NEW i \in Requests, aborted'[i], ~ aborted[i]
        PROVE  \E q \in Requests : /\ asked'[q] # None
                                   /\ asked'[q].game = task'[i].key.game
                                   /\ asked'[q].revision > task'[i].key.revision
    <3>1. i \in Superseded(k) /\ task'[i] = task[i]
      BY <2>3, StartJobs
    <3>2. /\ task[i].key.game = k.game /\ task[i].key.revision < k.revision
          /\ task[i].key.revision \in Nat
      BY <1>1, <3>1, SupersededType, KeysAssumption
    <3> QED
      BY <2>2, <3>1, <3>2
  <2> QED
    BY <1>3, <2>1, <2>3, UsefulKept
<1> QED
  BY <1>3, <1>6, <1>8, <1>9, <1>10, <1>11, <1>12 DEF RegistryIInv

LEMMA RegistrySubmitKeeps ==
    ASSUME RegistryIInv, NEW r \in Requests, NEW k \in Keys, RegistrySubmit(r, k)
    PROVE  RegistryIInv'
<1>1. phase[r] = "idle" /\ asked' = [asked EXCEPT ![r] = k] /\ UNCHANGED <<signal, revoked, now>>
  BY DEF RegistrySubmit
<1>2. /\ active \in [Keys -> Requests \cup {None}] /\ watching \in SUBSET Requests
      /\ \A i \in DOMAIN cache : cache[i].job \in Requests
  <2>1. cache \in Seq(Entries)
    BY DEF RegistryIInv, RegistryTypeOK
  <2>2. \A i \in DOMAIN cache : cache[i] \in Entries
    BY <2>1
  <2> QED
    BY <2>2 DEF RegistryIInv, RegistryTypeOK, Entries
<1>3. CASE ServeCached(r, k)
  <2> DEFINE j == cache[CHOOSE i \in Remembered(k) : TRUE].job
  <2>1. j \in Requests
    BY <1>2, <1>3 DEF ServeCached, Hit, Remembered
  <2>2. /\ phase' = [phase EXCEPT ![r] = "answered"] /\ joined' = [joined EXCEPT ![r] = j]
        /\ CancelAll(Superseded(k)) /\ cache' = ReadCache(k)
        /\ UNCHANGED <<claim, active, waited, recorded, watching>>
    BY <1>3 DEF ServeCached
  <2> HIDE DEF j
  <2> QED
    BY <1>1, <1>2, <2>1, <2>2, DropSubmitKeeps
<1>4. CASE Observe(r, k)
  <2>1. /\ phase' = [phase EXCEPT ![r] = "attached"]
        /\ joined' = [joined EXCEPT ![r] = active[k]] /\ active[k] \in Requests
        /\ CancelAll(Superseded(k)) /\ cache' = ReadCache(k) /\ watching' = watching \cup {r}
        /\ UNCHANGED <<claim, active, waited, recorded>>
    BY <1>2, <1>4 DEF Observe
  <2> QED
    BY <1>1, <1>2, <2>1, DropSubmitKeeps
<1>5. CASE StartRefused(r, k)
  <2>1. /\ phase' = [phase EXCEPT ![r] = "refused"] /\ joined' = [joined EXCEPT ![r] = r]
        /\ CancelAll(Superseded(k)) /\ cache' = ReadCache(k)
        /\ active' = [active EXCEPT ![k] = r] /\ active[k] = None /\ ~ Hit(k)
        /\ UNCHANGED <<claim, waited, recorded, watching>>
    BY <1>5 DEF StartRefused, NothingKnown
  <2> QED
    BY <1>1, <1>2, <2>1, DropSubmitKeeps
<1>6. CASE Start(r, k)
  BY <1>1, <1>6, StartKeeps
<1> QED
  BY <1>3, <1>4, <1>5, <1>6 DEF RegistrySubmit

-----------------------------------------------------------------------------
(* The other calls                                                         *)

LEMMA RegistryCancelKeeps ==
    ASSUME RegistryIInv, NEW k \in Keys, RegistryCancel(k)
    PROVE  RegistryIInv'
<1> DEFINE S == {jobs[k]}
<1>1. /\ jobs[k] # None /\ CancelAll(S) /\ revoked' = revoked \cup S
      /\ UNCHANGED <<callerVars, active, waited, recorded, cache, watching, asked, now>>
  BY DEF RegistryCancel
<1>2. /\ QueueInv /\ TypeOK /\ RegistryTypeOK /\ S \in SUBSET Requests
      /\ \A j \in S : state[j] # "none"
  BY <1>1 DEF RegistryIInv, QueueInv, TypeOK, OneLiveJobPerKey, Live
<1> HIDE DEF S
<1>3. OnlyNewcomers
  BY <1>1 DEF OnlyNewcomers, callerVars
<1>4. Claims' /\ Onward /\ Bookkeeping' /\ Requesting'
  BY <1>1, <1>2, <1>3, DropKeeps DEF callerVars
<1>5. QueueInv'
  <2>1. \A r \in Requests : phase'[r] = "idle" => phase[r] = "idle"
    BY <1>1 DEF callerVars
  <2>2. Arrivals' /\ Bounded' /\ WorkConserving' /\ OneLiveJobPerKey'
    BY <1>1, <1>2, <2>1, DropInv
  <2>3. UNCHANGED <<phase, joined, signal, claim>>
    BY <1>1 DEF callerVars
  <2>4. TypeOK'
    BY <1>1, <1>2, <2>3, DropType DEF TypeOK
  <2> QED
    BY <1>4, <2>2, <2>4 DEF QueueInv
<1>6. RegistryTypeOK'
  BY <1>1, <1>2 DEF RegistryTypeOK
<1>7. CacheSound'
  <2>1. CacheShape(cache')
    BY <1>1 DEF RegistryIInv, RegistryTypeOK, CacheSound, CacheShape
  <2> QED
    BY <1>1, <1>4, <2>1, CacheKept
<1>8. FlightsUnremembered'
  BY <1>1 DEF RegistryIInv, FlightsUnremembered, Remembered
<1>9. RegistryMatchesQueue'
  <2>1. \A i \in Requests : Live(i)' => Live(i)
    BY <1>1, <1>2, DropEffect DEF Live
  <2> QED
    BY <1>1, <1>4, <2>1, MatchKept
<1>10. OnlyUsefulnessStops'
  <2>1. \A i \in Requests : (aborted'[i] /\ ~ aborted[i]) => i \in revoked'
    BY <1>1, <1>2, DropEffect
  <2> QED
    BY <1>1, <1>4, <2>1, UsefulKept
<1> QED
  BY <1>4, <1>5, <1>6, <1>7, <1>8, <1>9, <1>10 DEF RegistryIInv

\* A call that neither starts nor stops anything: requests come to observe a
\* job, or hear an answer, and entries leave the cache.
LEMMA QuietKeeps ==
    ASSUME RegistryIInv,
           UNCHANGED <<lineVars, signal, active, waited, recorded, asked, revoked>>,
           phase' \in [Requests -> {"idle", "attached", "answered", "refused"}],
           joined' \in [Requests -> Requests \cup {None}],
           claim' \in [Requests -> BOOLEAN],
           \A q \in Requests : claim'[q] =>
               claim[q] /\ phase'[q] = phase[q] /\ joined'[q] = joined[q],
           \A q \in Requests : phase'[q] = "idle" => phase[q] = "idle",
           \A q \in Requests : /\ phase[q] = "refused" => phase'[q] = "refused"
                               /\ phase'[q] = "refused" => state[q] = "none",
           CacheShape(cache'),
           \A i \in DOMAIN cache' : \E h \in DOMAIN cache : cache'[i] = cache[h],
           watching' \in SUBSET Requests, now' \in 0 .. MaxTime
    PROVE  RegistryIInv'
<1>1. QueueInv /\ TypeOK /\ RegistryTypeOK
  BY DEF RegistryIInv, QueueInv
<1>2. /\ UNCHANGED <<sequence, running, waiting, jobs, task, state, aborted, refs,
                     announced, outcome>>
  BY DEF lineVars
<1>3. Onward
  BY <1>2 DEF Onward
<1>4. Claims'
  BY <1>1, <1>2 DEF QueueInv, Claims
<1>5. QueueInv'
  <2>1. TypeOK'
    BY <1>1, <1>2 DEF TypeOK
  <2>2. Arrivals' /\ Bounded' /\ WorkConserving' /\ OneLiveJobPerKey'
    BY <1>1, <1>2 DEF QueueInv, Arrivals, Bounded, WorkConserving, OneLiveJobPerKey, Live
  <2> QED
    BY <1>4, <2>1, <2>2 DEF QueueInv
<1>6. Bookkeeping'
  BY <1>2 DEF RegistryIInv, Bookkeeping, Live
<1>7. Requesting'
  BY <1>2 DEF RegistryIInv, Requesting
<1>8. RegistryTypeOK'
  BY <1>1 DEF RegistryTypeOK, CacheShape
<1>9. CacheSound'
  BY <1>3, CacheKept
<1>10. FlightsUnremembered'
  BY FlightsKept
<1>11. RegistryMatchesQueue'
  BY <1>2, <1>3, <1>6, MatchKept DEF Live
<1>12. OnlyUsefulnessStops'
  BY <1>2, <1>3, UsefulKept
<1> QED
  BY <1>5, <1>6, <1>7, <1>8, <1>9, <1>10, <1>11, <1>12 DEF RegistryIInv

\* What is kept of the cache, whatever else the step does.
LEMMA KeptKeeps ==
    ASSUME RegistryIInv, NEW I, cache' = Kept(I)
    PROVE  /\ CacheShape(cache')
           /\ \A i \in DOMAIN cache' : \E h \in DOMAIN cache : cache'[i] = cache[h]
<1>1. CacheShape(cache)
  BY DEF RegistryIInv, RegistryTypeOK, CacheSound, CacheShape
<1> DEFINE c == Kept(I)
<1>2. KeptSoFar(I, Len(cache), c)
  BY <1>1, KeptShape
<1> HIDE DEF c
<1>3. c = cache'
  BY DEF c
<1>4. DOMAIN cache = 1 .. Len(cache) /\ Len(cache) \in Nat /\ Len(cache) <= MaxCached
  BY <1>1 DEF CacheShape
<1>5. /\ c \in Seq(Entries) /\ Len(c) <= Len(cache)
      /\ \A i \in DOMAIN c : \E h \in DOMAIN cache : c[i] = cache[h]
      /\ \A i, h \in DOMAIN c : i # h => c[i].key # c[h].key
  BY <1>2, <1>4 DEF KeptSoFar
<1>6. CacheShape(c)
  BY <1>4, <1>5, RegistryLimits DEF CacheShape
<1> QED
  BY <1>3, <1>5, <1>6

\* The calls and events that neither start nor stop nor record anything.
LEMMA QuietStepKeeps ==
    ASSUME RegistryIInv,
           \/ \E r \in Requests : \/ Detach(r) \/ Answer(r)
                                  \/ \E k \in Keys : Attach(r, k)
           \/ \E k \in Keys : Inspect(k)
           \/ Sweep
           \/ Tick
    PROVE  RegistryIInv'
<1>1. /\ phase \in [Requests -> {"idle", "attached", "answered", "refused"}]
      /\ joined \in [Requests -> Requests \cup {None}]
      /\ claim \in [Requests -> BOOLEAN]
      /\ watching \in SUBSET Requests /\ now \in 0 .. MaxTime
      /\ active \in [Keys -> Requests \cup {None}]
      /\ cache \in Seq(Entries)
      /\ \A q \in Requests : phase[q] = "refused" => state[q] = "none"
  BY DEF RegistryIInv, RegistryTypeOK, QueueInv, TypeOK, Requesting
<1>2. \A i \in DOMAIN cache : cache[i].job \in Requests
  <2>1. \A i \in DOMAIN cache : cache[i] \in Entries
    BY <1>1
  <2> QED
    BY <2>1 DEF Entries
<1>3. CacheShape(cache)
  BY <1>1 DEF RegistryIInv, CacheSound, CacheShape
<1>4. ASSUME NEW r \in Requests, Detach(r) PROVE RegistryIInv'
  <2>1. /\ watching' = watching \ {r}
        /\ UNCHANGED <<vars, active, waited, recorded, cache, asked, revoked, now>>
    BY <1>4 DEF Detach
  <2> QED
    BY <1>1, <1>3, <2>1, QuietKeeps DEF vars, callerVars
<1>5. ASSUME NEW r \in Requests, Answer(r) PROVE RegistryIInv'
  <2>1. /\ phase[r] = "attached" /\ phase' = [phase EXCEPT ![r] = "answered"]
        /\ claim' = [claim EXCEPT ![r] = FALSE]
        /\ UNCHANGED <<lineVars, joined, signal, active, waited, recorded, cache, watching,
                       asked, revoked, now>>
    BY <1>5 DEF Answer, Unanswered, registryVars
  <2>2. claim' \in [Requests -> BOOLEAN] /\ \A q \in Requests : claim'[q] => claim[q] /\ q # r
    BY <1>1, <2>1
  <2>3. /\ phase' \in [Requests -> {"idle", "attached", "answered", "refused"}]
        /\ \A q \in Requests \ {r} : phase'[q] = phase[q]
        /\ phase'[r] = "answered"
    BY <1>1, <2>1
  <2> QED
    BY <1>1, <1>3, <2>1, <2>2, <2>3, QuietKeeps
<1>6. ASSUME NEW r \in Requests, NEW k \in Keys, Attach(r, k) PROVE RegistryIInv'
  <2>1. /\ phase[r] = "idle" /\ cache' = ReadCache(k)
        /\ UNCHANGED <<lineVars, signal, claim, active, waited, recorded, asked, revoked, now>>
        /\ watching' \in SUBSET Requests
    BY <1>1, <1>6 DEF Attach
  <2>2. PICK p \in {"answered", "attached"}, j \in Requests :
           phase' = [phase EXCEPT ![r] = p] /\ joined' = [joined EXCEPT ![r] = j]
    <3>1. CASE Hit(k) /\ phase' = [phase EXCEPT ![r] = "answered"]
      <4> DEFINE j == cache[CHOOSE i \in Remembered(k) : TRUE].job
      <4>1. j \in Requests
        BY <1>2, <3>1 DEF Hit, Remembered
      <4>2. joined' = [joined EXCEPT ![r] = j]
        BY <1>6, <3>1 DEF Attach
      <4> HIDE DEF j
      <4> QED
        BY <3>1, <4>1, <4>2
    <3>2. CASE ~ Hit(k)
      BY <1>1, <1>6, <3>2 DEF Attach
    <3> QED
      BY <1>6, <3>1, <3>2 DEF Attach
  <2>3. \A q \in Requests : claim[q] => q # r
    BY <2>1 DEF RegistryIInv, Requesting
  <2>4. /\ phase' \in [Requests -> {"idle", "attached", "answered", "refused"}]
        /\ joined' \in [Requests -> Requests \cup {None}]
        /\ \A q \in Requests \ {r} : phase'[q] = phase[q] /\ joined'[q] = joined[q]
        /\ phase'[r] \in {"answered", "attached"}
    BY <1>1, <2>2
  <2>5. /\ CacheShape(cache')
        /\ \A i \in DOMAIN cache' : \E h \in DOMAIN cache : cache'[i] = cache[h]
    BY <2>1, ReadKeeps
  <2> QED
    BY <1>1, <2>1, <2>3, <2>4, <2>5, QuietKeeps
<1>7. ASSUME NEW k \in Keys, Inspect(k) PROVE RegistryIInv'
  <2>1. /\ cache' = ReadCache(k)
        /\ UNCHANGED <<vars, active, waited, recorded, watching, asked, revoked, now>>
    BY <1>7 DEF Inspect
  <2>2. /\ CacheShape(cache')
        /\ \A i \in DOMAIN cache' : \E h \in DOMAIN cache : cache'[i] = cache[h]
    BY <2>1, ReadKeeps
  <2> QED
    BY <1>1, <2>1, <2>2, QuietKeeps DEF vars, callerVars
<1>8. CASE Sweep
  <2>1. /\ cache' = Kept({i \in DOMAIN cache : ~ Expired(cache[i])})
        /\ UNCHANGED <<vars, active, waited, recorded, watching, asked, revoked, now>>
    BY <1>8 DEF Sweep
  <2>2. /\ CacheShape(cache')
        /\ \A i \in DOMAIN cache' : \E h \in DOMAIN cache : cache'[i] = cache[h]
    BY <2>1, KeptKeeps
  <2> QED
    BY <1>1, <2>1, <2>2, QuietKeeps DEF vars, callerVars
<1>9. CASE Tick
  <2>1. /\ now < MaxTime /\ now' = now + 1
        /\ UNCHANGED <<vars, active, waited, recorded, cache, watching, asked, revoked>>
    BY <1>9 DEF Tick
  <2>2. now' \in 0 .. MaxTime
    BY <1>1, <2>1, RegistryLimits
  <2> QED
    BY <1>1, <1>3, <2>1, <2>2, QuietKeeps DEF vars, callerVars
<1> QED
  BY <1>4, <1>5, <1>6, <1>7, <1>8, <1>9

\* What is recorded is over, was in flight under the key it was asked for and
\* under no other, and nothing was remembered for that key meanwhile.
LEMMA RecordFacts ==
    ASSUME RegistryIInv, NEW j \in Requests, Unrecorded(j)
    PROVE  /\ ~ Live(j) /\ phase[j] # "idle"
           /\ asked[j] \in Keys /\ active[asked[j]] = j /\ Remembered(asked[j]) = {}
           /\ outcome[j] = "value" => task[j].key = asked[j]
<1>1. PICK k \in Keys : active[k] = j
  BY DEF Unrecorded
<1>2. phase[j] = "refused" \/ outcome[j] # "pending"
  BY DEF Unrecorded, Settled
<1>3. ~ Live(j) /\ phase[j] # "idle"
  BY <1>2 DEF RegistryIInv, Bookkeeping, Requesting, QueueInv, Arrivals, Live
<1>4. asked[j] = k
  BY <1>1, <1>3, RequestsAssumption DEF RegistryIInv, RegistryMatchesQueue
<1>5. Remembered(k) = {}
  BY <1>1, RequestsAssumption DEF RegistryIInv, FlightsUnremembered
<1>6. outcome[j] = "value" => task[j].key = asked[j]
  BY DEF RegistryIInv, Bookkeeping
<1> QED
  BY <1>1, <1>3, <1>4, <1>5, <1>6

LEMMA RecordKeeps ==
    ASSUME RegistryIInv, NEW j \in Requests, Record(j)
    PROVE  RegistryIInv'
<1> DEFINE k == asked[j]
           entry == [key |-> k, job |-> j, at |-> now]
<1>1. /\ Unrecorded(j) /\ recorded' = recorded \cup {j}
      /\ active' = [h \in Keys |-> IF active[h] = j THEN None ELSE active[h]]
      /\ cache' = IF outcome[j] = "value" THEN Remember(k, entry) ELSE cache
      /\ UNCHANGED <<vars, waited, watching, asked, revoked, now>>
  BY DEF Record
<1>2. /\ ~ Live(j) /\ phase[j] # "idle"
      /\ k \in Keys /\ active[k] = j /\ Remembered(k) = {}
      /\ outcome[j] = "value" => task[j].key = k
  BY <1>1, RecordFacts
<1>3. UNCHANGED <<task, state, outcome, aborted, phase, claim>> /\ QueueInv'
  BY <1>1 DEF vars, lineVars, callerVars, RegistryIInv, QueueInv, TypeOK, Arrivals, Claims,
              Bounded, WorkConserving, OneLiveJobPerKey, Live
<1>4. /\ RegistryTypeOK /\ now \in 0 .. MaxTime /\ CacheShape(cache)
      /\ active \in [Keys -> Requests \cup {None}] /\ recorded \in SUBSET Requests
  BY DEF RegistryIInv, RegistryTypeOK, CacheSound, CacheShape
<1>5. entry \in Entries /\ entry.key = k /\ entry.job = j
  BY <1>2, <1>4 DEF Entries
<1>6. k = asked[j]
  OBVIOUS
<1> HIDE DEF k, entry
<1>7. /\ CacheShape(cache')
      /\ \A i \in DOMAIN cache' : \/ cache'[i] = entry /\ outcome[j] = "value"
                                  \/ \E h \in DOMAIN cache : cache'[i] = cache[h]
  <2>1. CASE outcome[j] # "value"
    BY <1>1, <1>4, <2>1
  <2>2. CASE outcome[j] = "value"
    <3> DEFINE c == Remember(k, entry)
    <3>1. /\ CacheShape(c)
          /\ \A i \in DOMAIN c : c[i] = entry \/ \E h \in DOMAIN cache : c[i] = cache[h]
      BY <1>2, <1>4, <1>5, RememberShape
    <3>2. cache' = c
      BY <1>1, <2>2
    <3> HIDE DEF c
    <3> QED
      BY <2>2, <3>1, <3>2
  <2> QED
    BY <2>1, <2>2
<1>8. RegistryTypeOK'
  <2>1. active' \in [Keys -> Requests \cup {None}]
    BY <1>1, <1>4
  <2> QED
    BY <1>1, <1>4, <1>7, <2>1 DEF RegistryTypeOK, CacheShape
<1>9. Bookkeeping'
  <2>1. \A i \in Requests : Live(i) => i \notin recorded'
    BY <1>1, <1>2 DEF RegistryIInv, Bookkeeping
  <2> QED
    BY <1>1, <1>3, <2>1 DEF RegistryIInv, Bookkeeping, Live
<1>10. Requesting'
  BY <1>1, <1>2, <1>3 DEF RegistryIInv, Requesting
<1>11. RegistryMatchesQueue'
  <2>1. ASSUME NEW i \in Requests, Live(i)' PROVE active'[task'[i].key] = i
    <3>1. Live(i) /\ i # j /\ task'[i] = task[i]
      BY <1>2, <1>3, <2>1 DEF Live
    <3>2. active[task[i].key] = i /\ task[i].key \in Keys
      BY <3>1 DEF Live, RegistryIInv, RegistryMatchesQueue, QueueInv, Arrivals, Ranks
    <3> QED
      BY <1>1, <3>1, <3>2
  <2>2. ASSUME NEW h \in Keys, active'[h] # None
        PROVE  \/ Live(active[h])' /\ task'[active'[h]].key = h
               \/ Unrecorded(active[h])' /\ asked'[active'[h]] = h
    <3>1. active'[h] = active[h] /\ active[h] # j /\ active[h] # None
      BY <1>1, <2>2
    <3>2. PICK i \in Requests : i = active[h]
      BY <1>4, <3>1
    <3>3. \/ Live(i) /\ task[i].key = h
          \/ Unrecorded(i) /\ asked[i] = h
      BY <3>1, <3>2 DEF RegistryIInv, RegistryMatchesQueue
    <3>4. Unrecorded(i) => Unrecorded(i)'
      BY <1>1, <1>3, <3>1, <3>2 DEF Unrecorded, Settled
    <3>5. Live(i) => Live(i)'
      BY <1>3 DEF Live
    <3> QED
      BY <1>1, <1>3, <3>1, <3>2, <3>3, <3>4, <3>5 DEF Live, Unrecorded, Settled
  <2> QED
    BY <2>1, <2>2 DEF RegistryMatchesQueue
<1>12. CacheSound'
  <2>1. \A i \in DOMAIN cache' : /\ outcome[cache'[i].job] = "value"
                                 /\ task[cache'[i].job].key = cache'[i].key
    BY <1>2, <1>5, <1>7 DEF RegistryIInv, CacheSound
  <2> QED
    BY <1>3, <1>7, <2>1 DEF CacheSound, CacheShape
<1>13. FlightsUnremembered'
  <2>1. ASSUME NEW h \in Keys, active'[h] # None, NEW i \in DOMAIN cache'
        PROVE  cache'[i].key # h
    <3>1. active[h] # j /\ active[h] # None /\ h # k
      BY <1>1, <1>2, <2>1
    <3>2. \A g \in DOMAIN cache : cache[g].key # h
      BY <3>1 DEF RegistryIInv, FlightsUnremembered, Remembered
    <3> QED
      BY <1>5, <1>7, <2>1, <3>1, <3>2
  <2> QED
    BY <2>1 DEF FlightsUnremembered, Remembered
<1>14. OnlyUsefulnessStops'
  BY <1>1, <1>3 DEF RegistryIInv, OnlyUsefulnessStops
<1> QED
  BY <1>3, <1>8, <1>9, <1>10, <1>11, <1>12, <1>13, <1>14 DEF RegistryIInv

\* A job that settles in the queue, before the registry has recorded it.
LEMMA SettleKeeps ==
    ASSUME RegistryIInv, QueueInv', NEW j \in Requests, Settles(j),
           \A i \in Requests : state'[i] = "waiting" => state[i] = "waiting",
           UNCHANGED <<task, aborted, callerVars, registryVars>>
    PROVE  RegistryIInv'
<1>1. UNCHANGED <<task, aborted, phase, joined, claim, active, waited, recorded, cache,
                  watching, asked, revoked, now>>
  BY DEF callerVars, registryVars
<1>2. /\ Live(j) /\ outcome[j] = "pending" /\ state'[j] = "settled" /\ outcome'[j] # "pending"
      /\ \A i \in Requests \ {j} : /\ (state'[i] = "none") <=> (state[i] = "none")
                                   /\ Live(i)' <=> Live(i)
                                   /\ outcome'[i] = outcome[i]
  BY DEF Settles, RegistryIInv, Bookkeeping, Live
<1>3. Onward
  BY <1>1, <1>2 DEF Onward
<1>4. Bookkeeping'
  <2>1. \A i \in Requests : state'[i] = "none" => state[i] = "none" /\ i # j
    BY <1>2
  <2>2. \A i \in Requests : Live(i)' => Live(i) /\ i # j
    BY <1>2 DEF Live
  <2>3. \A i \in Requests : state'[i] = "none" => outcome'[i] = "pending" /\ i \notin waited'
    BY <1>1, <1>2, <2>1 DEF RegistryIInv, Bookkeeping
  <2>4. \A i \in Requests : state'[i] = "none" => ~ aborted'[i]
    BY <1>1, <2>1 DEF RegistryIInv, Bookkeeping
  <2>5. ASSUME NEW i \in Requests, state'[i] # "none"
        PROVE  (Live(i)' <=> outcome'[i] = "pending") /\ asked'[i] = task'[i].key
    <3>1. state[i] # "none"
      BY <1>2, <2>5 DEF Live
    <3>2. (Live(i) <=> outcome[i] = "pending") /\ asked[i] = task[i].key
      BY <3>1 DEF RegistryIInv, Bookkeeping
    <3>3. CASE i = j
      BY <1>1, <1>2, <3>2, <3>3 DEF Live
    <3>4. CASE i # j
      BY <1>1, <1>2, <3>2, <3>4
    <3> QED
      BY <3>3, <3>4
  <2>6. \A i \in Requests : Live(i)' => i \notin recorded'
    BY <1>1, <2>2 DEF RegistryIInv, Bookkeeping
  <2>7. \A i \in Requests : state'[i] = "waiting" => i \in waited'
    BY <1>1 DEF RegistryIInv, Bookkeeping
  <2> QED
    BY <2>3, <2>4, <2>5, <2>6, <2>7 DEF Bookkeeping
<1>5. Requesting'
  <2>1. \A q \in Requests : phase[q] = "refused" => q # j
    BY <1>2 DEF RegistryIInv, Requesting, Live
  <2> QED
    BY <1>1, <1>2, <2>1 DEF RegistryIInv, Requesting
<1>6. RegistryTypeOK'
  BY <1>1 DEF RegistryIInv, RegistryTypeOK
<1>7. CacheSound'
  <2>1. CacheShape(cache')
    BY <1>1 DEF RegistryIInv, RegistryTypeOK, CacheSound, CacheShape
  <2> QED
    BY <1>1, <1>3, <2>1, CacheKept
<1>8. FlightsUnremembered'
  BY <1>1 DEF RegistryIInv, FlightsUnremembered, Remembered
<1>9. RegistryMatchesQueue'
  <2>1. \A i \in Requests : Live(i)' => Live(i)
    BY <1>2 DEF Live
  <2> QED
    BY <1>1, <1>3, <1>4, <2>1, MatchKept
<1>10. OnlyUsefulnessStops'
  BY <1>1, <1>3, UsefulKept
<1> QED
  BY <1>4, <1>5, <1>6, <1>7, <1>8, <1>9, <1>10 DEF RegistryIInv

LEMMA QueueSettlesKeeps ==
    ASSUME RegistryIInv, QueueSettles
    PROVE  RegistryIInv'
<1>1. QueueInv /\ TypeOK /\ UNCHANGED registryVars
  BY DEF RegistryIInv, QueueInv, QueueSettles
<1>2. /\ state \in [Requests -> {"none", "waiting", "running", "settled"}]
      /\ waiting = {i \in Requests : state[i] = "waiting"}
  BY <1>1 DEF QueueInv, TypeOK, Bounded
<1>3. ASSUME NEW j \in Requests, NEW result \in {"value", "error"}, Complete(j, result)
      PROVE  RegistryIInv'
  <2>1. UNCHANGED <<task, aborted, callerVars>>
    BY <1>3 DEF Complete
  <2>2. TypeOK' /\ Arrivals' /\ Bounded' /\ WorkConserving' /\ OneLiveJobPerKey'
    BY <1>1, <1>3, CompleteType, CompleteInv
  <2>3. Settles(j)
    BY <1>1, <1>3, CompleteSettles
  <2>4. Claims'
    BY <1>1, <2>1, <2>3 DEF QueueInv, Claims, Settles, callerVars
  <2>5. QueueInv'
    BY <2>2, <2>4 DEF QueueInv
  <2>6. waiting' \subseteq waiting
    BY <1>3 DEF Complete
  <2>7. \A i \in Requests : state'[i] = "waiting" => state[i] = "waiting"
    BY <1>2, <2>2, <2>6 DEF Bounded
  <2> QED
    BY <1>1, <2>1, <2>3, <2>5, <2>7, SettleKeeps
<1>4. ASSUME NEW j \in Requests, WaitTimeout(j) PROVE RegistryIInv'
  <2>1. /\ state[j] = "waiting" /\ Abandon(j, "timeout")
        /\ UNCHANGED <<sequence, running, task, aborted, refs, callerVars>>
    BY <1>4 DEF WaitTimeout
  <2>2. Arrivals' /\ Bounded' /\ WorkConserving' /\ OneLiveJobPerKey'
    <3>1. \A r \in Requests : phase'[r] = "idle" => phase[r] = "idle"
      BY <2>1 DEF callerVars
    <3> QED
      BY <1>1, <2>1, <3>1, AbandonInv
  <2>3. TypeOK'
    BY <1>1, <2>1, AbandonType DEF TypeOK, callerVars
  <2>4. Settles(j)
    BY <1>1, <2>1, AbandonSettles
  <2>5. Claims'
    BY <1>1, <2>1, <2>4 DEF QueueInv, Claims, Settles, callerVars
  <2>6. QueueInv'
    BY <2>2, <2>3, <2>5 DEF QueueInv
  <2>7. waiting' \subseteq waiting
    BY <2>1 DEF Abandon
  <2>8. \A i \in Requests : state'[i] = "waiting" => state[i] = "waiting"
    BY <1>2, <2>2, <2>7 DEF Bounded
  <2> QED
    BY <1>1, <2>1, <2>4, <2>6, <2>8, SettleKeeps
<1> QED
  BY <1>3, <1>4 DEF QueueSettles

-----------------------------------------------------------------------------
(* The theorems                                                            *)

LEMMA RegistryIInvInitial == RegistryInit => RegistryIInv
<1> SUFFICES ASSUME RegistryInit PROVE RegistryIInv
  OBVIOUS
<1>1. /\ active = [k \in Keys |-> None] /\ waited = {} /\ recorded = {} /\ cache = <<>>
      /\ watching = {} /\ asked = [r \in Requests |-> None] /\ revoked = {} /\ now = 0
      /\ Init
  BY DEF RegistryInit
<1>2. /\ state = [r \in Requests |-> "none"] /\ aborted = [r \in Requests |-> FALSE]
      /\ outcome = [r \in Requests |-> "pending"] /\ phase = [r \in Requests |-> "idle"]
      /\ claim = [r \in Requests |-> FALSE]
  BY <1>1 DEF Init
<1>3. QueueInv
  BY <1>1, InvInitial
<1>4. RegistryTypeOK
  BY <1>1, RegistryLimits DEF RegistryTypeOK
<1>5. \A r \in Requests : ~ aborted[r] /\ ~ claim[r] /\ ~ Live(r)
  BY <1>2 DEF Live
<1>6. Bookkeeping
  BY <1>1, <1>2, <1>5 DEF Bookkeeping
<1>7. Requesting
  BY <1>1, <1>2, <1>5 DEF Requesting
<1>8. RegistryMatchesQueue /\ FlightsUnremembered
  BY <1>1, <1>5 DEF RegistryMatchesQueue, FlightsUnremembered
<1>9. CacheSound
  BY <1>1, RegistryLimits DEF CacheSound
<1>10. OnlyUsefulnessStops
  BY <1>5 DEF OnlyUsefulnessStops
<1> QED
  BY <1>3, <1>4, <1>6, <1>7, <1>8, <1>9, <1>10 DEF RegistryIInv

LEMMA RegistryIInvPreserved == RegistryIInv /\ [RegistryNext]_allVars => RegistryIInv'
<1> SUFFICES ASSUME RegistryIInv, [RegistryNext]_allVars PROVE RegistryIInv'
  OBVIOUS
<1>1. CASE UNCHANGED allVars
  <2>1. /\ UNCHANGED <<lineVars, signal, active, waited, recorded, asked, revoked, phase,
                       joined, claim, cache, watching, now>>
    BY <1>1 DEF allVars, vars, callerVars, registryVars
  <2>2. /\ phase \in [Requests -> {"idle", "attached", "answered", "refused"}]
        /\ joined \in [Requests -> Requests \cup {None}]
        /\ claim \in [Requests -> BOOLEAN] /\ CacheShape(cache)
        /\ watching \in SUBSET Requests /\ now \in 0 .. MaxTime
        /\ \A q \in Requests : phase[q] = "refused" => state[q] = "none"
    BY DEF RegistryIInv, RegistryTypeOK, QueueInv, TypeOK, CacheSound, CacheShape, Requesting
  <2> QED
    BY <2>1, <2>2, QuietKeeps
<1>2. CASE RegistryNext
  BY <1>2, RegistrySubmitKeeps, RegistryCancelKeeps, QuietStepKeeps, RecordKeeps,
     QueueSettlesKeeps DEF RegistryNext
<1> QED
  BY <1>1, <1>2

\* The inductive invariant holds of every behaviour of the registry.
THEOREM RegistryIInvHolds == RegistrySpec => []RegistryIInv
BY RegistryIInvInitial, RegistryIInvPreserved, PTL DEF RegistrySpec

LEMMA RegistryIInvImplies == RegistryIInv => RegistryInv
<1> SUFFICES ASSUME RegistryIInv PROVE NotComputedWhileServed
  BY DEF RegistryIInv, RegistryInv
<1> SUFFICES ASSUME NEW j \in Requests, Live(j), task[j].key \in Keys
             PROVE  ~ Hit(task[j].key)
  BY DEF NotComputedWhileServed
<1>1. active[task[j].key] = j
  BY DEF RegistryIInv, RegistryMatchesQueue
<1> QED
  BY <1>1, RequestsAssumption DEF RegistryIInv, FlightsUnremembered, Hit

\* The registry and the queue agree on what is live, whatever is remembered is
\* the value of a finished run for its key, and nothing is computed for a key
\* whose result is still served (#start, #cancelSuperseded, #readCache and the
\* settlement reactions of jobRegistry.ts).
THEOREM RegistryInvAlways == RegistrySpec => []RegistryInv
BY RegistryIInvHolds, RegistryIInvImplies, PTL

\* A job is stopped by an explicit cancel or by a request for the same game at
\* a higher revision, and by nothing else: not by a page that closes.
THEOREM OnlyUsefulnessStopsAlways == RegistrySpec => []OnlyUsefulnessStops
<1>1. RegistryIInv => OnlyUsefulnessStops
  BY DEF RegistryIInv
<1> QED
  BY <1>1, RegistryIInvHolds, PTL

LEMMA OverwriteStep ==
    ASSUME RegistryIInv, [RegistryNext]_allVars, NEW j \in Requests,
           j \notin recorded, j \in recorded'
    PROVE  Remembered(asked[j]) = {}
<1>1. recorded' # recorded
  OBVIOUS
<1>2. RegistryNext
  BY <1>1 DEF allVars, registryVars
<1>3. \A r \in Requests, k \in Keys : ~ RegistrySubmit(r, k)
  BY <1>1 DEF RegistrySubmit, ServeCached, Observe, StartRefused, Start
<1>4. \A r \in Requests, k \in Keys : ~ Attach(r, k)
  BY <1>1 DEF Attach
<1>5. \A r \in Requests : ~ Detach(r) /\ ~ Answer(r)
  BY <1>1 DEF Detach, Answer, registryVars
<1>6. \A k \in Keys : ~ Inspect(k) /\ ~ RegistryCancel(k)
  BY <1>1 DEF Inspect, RegistryCancel
<1>7. ~ Sweep /\ ~ QueueSettles /\ ~ Tick
  BY <1>1 DEF Sweep, QueueSettles, Tick, registryVars
<1>8. PICK i \in Requests : Record(i)
  BY <1>2, <1>3, <1>4, <1>5, <1>6, <1>7 DEF RegistryNext
<1>9. i = j /\ Unrecorded(j)
  BY <1>8 DEF Record
<1> QED
  BY <1>9, RecordFacts

\* A fresh result never takes the place of an older one in the eviction order.
THEOREM NeverOverwrittenAlways == RegistrySpec => NeverOverwritten
<1>1. RegistryIInv /\ [RegistryNext]_allVars =>
        [\A j \in Requests :
           (j \notin recorded /\ j \in recorded' /\ outcome[j] = "value")
             => Remembered(asked[j]) = {}]_allVars
  BY OverwriteStep
<1> QED
  BY <1>1, RegistryIInvHolds, PTL DEF RegistrySpec, NeverOverwritten

\* A job that stood in line was told so, and one that starts at once was not.
LEMMA WaitedStep ==
    ASSUME RegistryIInv, [RegistryNext]_allVars, NEW j \in Requests,
           state[j] # "running", state'[j] = "running"
    PROVE  j \in waited' <=> state[j] = "waiting"
<1>1. /\ QueueInv /\ state \in [Requests -> {"none", "waiting", "running", "settled"}]
      /\ waiting = {i \in Requests : state[i] = "waiting"}
  BY DEF RegistryIInv, QueueInv, TypeOK, Bounded
<1>2. ASSUME NEW S \in SUBSET Requests, CancelAll(S) PROVE FALSE
  BY <1>1, <1>2, DropEffect
<1>3. state' # state /\ RegistryNext
  BY DEF allVars, vars, lineVars
<1>4. ASSUME NEW r \in Requests, NEW k \in Keys, RegistrySubmit(r, k)
      PROVE  j \in waited' <=> state[j] = "waiting"
  <2>1. Superseded(k) \in SUBSET Requests
    BY <1>1, SupersededType
  <2>2. Start(r, k) /\ phase[r] = "idle"
    BY <1>2, <1>4, <2>1 DEF RegistrySubmit, ServeCached, Observe, StartRefused
  <2>3. \A i \in Requests \ {r} : state'[i] = state[i] \/ state'[i] = "settled"
    BY <2>2, StartJobs
  <2>4. j = r
    BY <2>3
  <2>5. state[r] = "none" /\ r \notin waited
    BY <2>2, StartJobs
  <2>6. \/ waited' = waited
        \/ state' = [i \in Requests |-> IF i = r THEN "waiting"
                                        ELSE IF i \in Dropped(Superseded(k)) THEN "settled"
                                        ELSE state[i]]
    BY <1>1, <2>1, <2>2, StartEffect
  <2>7. waited' = waited
    BY <2>4, <2>6
  <2> QED
    BY <2>4, <2>5, <2>7
<1>5. ASSUME NEW k \in Keys, RegistryCancel(k) PROVE FALSE
  <2>1. {jobs[k]} \in SUBSET Requests /\ CancelAll({jobs[k]})
    BY <1>1, <1>5 DEF RegistryCancel, QueueInv, TypeOK
  <2> QED
    BY <1>2, <2>1
<1>6. CASE QueueSettles
  <2>1. waited' = waited
    BY <1>6 DEF QueueSettles, registryVars
  <2>2. ASSUME NEW i \in Requests, WaitTimeout(i) PROVE FALSE
    BY <1>1, <2>2 DEF WaitTimeout, Abandon
  <2>3. PICK i \in Requests, result \in {"value", "error"} : Complete(i, result)
    BY <1>6, <2>2 DEF QueueSettles
  <2>4. state[j] = "waiting"
    <3>1. CASE state' = [state EXCEPT ![i] = "settled"]
      BY <1>1, <3>1
    <3>2. ASSUME NEW best \in waiting,
                 state' = [state EXCEPT ![i] = "settled", ![best] = "running"]
          PROVE  state[j] = "waiting"
      <4>1. j = best
        BY <1>1, <3>2
      <4> QED
        BY <1>1, <3>2, <4>1
    <3> QED
      BY <1>1, <2>3, <3>1, <3>2, CompleteEffect
  <2> QED
    BY <2>1, <2>4 DEF RegistryIInv, Bookkeeping
<1> QED
  BY <1>3, <1>4, <1>5, <1>6 DEF RegistryNext, Attach, Inspect, Detach, Record, Answer, Sweep,
     Tick, vars, lineVars

\* A run is told whether its job stood in line.
THEOREM WaitedIsTruthAlways == RegistrySpec => WaitedIsTruth
<1>1. RegistryIInv /\ [RegistryNext]_allVars =>
        [\A j \in Requests :
           (state[j] # "running" /\ state'[j] = "running")
             => (j \in waited' <=> state[j] = "waiting")]_allVars
  BY WaitedStep
<1> QED
  BY <1>1, RegistryIInvHolds, PTL DEF RegistrySpec, WaitedIsTruth

-----------------------------------------------------------------------------
(* The inductive invariant of the handlers                                 *)

\* The requests that hold a slot of an account and a kind.
SlotHolders(u, kind) ==
    {r \in Requests : holds[r] /\ UserOf[r] = u /\ admitted[r].kind = kind}

\* The counters of ConcurrencyLimit are the requests that hold a slot.
HeldExact ==
    \A u \in Users, kind \in Kinds : held[<<u, kind>>] = Cardinality(SlotHolders(u, kind))

\* A slot is taken for a position that was read, in the turn that submits, and
\* that turn found the work done or under way, or took a slot; if the clock
\* may move in the turn, what it found may have expired.
TurnCovered ==
    /\ \A r \in Requests : holds[r] => /\ admitted[r] # None
                                       /\ phase[r] # "idle" \/ turn = r
    /\ turn # None => /\ phase[turn] = "idle" /\ admitted[turn] # None
                      /\ TicksInTurn \/ holds[turn] \/ Known(admitted[turn])

\* A live job is awaited by the request that started it, which holds a slot.
JobsCovered ==
    \A j \in Requests : Live(j) => joined[j] = j /\ (TicksInTurn \/ holds[j])

\* The inductive invariant of the handlers.
ServiceIInv == RegistryIInv /\ ServiceTypeOK /\ HeldExact /\ TurnCovered /\ JobsCovered

-----------------------------------------------------------------------------
(* The registry under the handlers                                         *)

\* Every step of a handler keeps the registry's invariant, the refusal of a
\* request without a slot included, which is no call of the registry.
LEMMA HandlersKeepRegistry ==
    ASSUME RegistryIInv, ServiceTypeOK, TurnCovered, [ServiceNext]_everything
    PROVE  RegistryIInv'
<1>1. admitted \in [Requests -> Keys \cup {None}]
  BY DEF ServiceTypeOK
<1>2. CASE UNCHANGED allVars
  BY <1>2, RegistryIInvPreserved
<1>3. ASSUME RegistryNext PROVE RegistryIInv'
  BY <1>3, RegistryIInvPreserved
<1>4. ASSUME NEW r \in Requests, Inspected(r) PROVE RegistryIInv'
  <2>1. admitted[r] \in Keys /\ Inspect(admitted[r])
    BY <1>1, <1>4 DEF Inspected, Inspect
  <2> QED
    BY <1>3, <2>1 DEF RegistryNext
<1>5. ASSUME NEW r \in Requests, TooMany(r) PROVE RegistryIInv'
  <2>1. /\ phase[r] = "idle" /\ admitted[r] \in Keys /\ cache' = ReadCache(admitted[r])
        /\ phase' = [phase EXCEPT ![r] = "refused"]
        /\ UNCHANGED <<lineVars, joined, signal, claim, active, waited, recorded, watching,
                       asked, revoked, now>>
    BY <1>1, <1>5 DEF TooMany
  <2>2. /\ phase \in [Requests -> {"idle", "attached", "answered", "refused"}]
        /\ joined \in [Requests -> Requests \cup {None}]
        /\ claim \in [Requests -> BOOLEAN]
        /\ watching \in SUBSET Requests /\ now \in 0 .. MaxTime
    BY DEF RegistryIInv, RegistryTypeOK, QueueInv, TypeOK
  <2>3. /\ state[r] = "none" /\ ~ claim[r]
        /\ \A q \in Requests : phase[q] = "refused" => state[q] = "none"
    BY <2>1 DEF RegistryIInv, QueueInv, Arrivals, Requesting
  <2>4. /\ phase' \in [Requests -> {"idle", "attached", "answered", "refused"}]
        /\ phase'[r] = "refused" /\ \A q \in Requests \ {r} : phase'[q] = phase[q]
    BY <2>1, <2>2
  <2>5. /\ CacheShape(cache')
        /\ \A i \in DOMAIN cache' : \E h \in DOMAIN cache : cache'[i] = cache[h]
    BY <2>1, ReadKeeps
  <2>6. \A q \in Requests : claim'[q] => claim[q] /\ q # r
    BY <2>1, <2>3
  <2> QED
    BY <2>1, <2>2, <2>3, <2>4, <2>5, <2>6, QuietKeeps
<1>6. ASSUME NEW r \in Requests, PostTurn(r) PROVE RegistryIInv'
  <2>1. RegistrySubmit(r, admitted[r])
    BY <1>6 DEF PostTurn
  <2>2. turn # None /\ admitted[turn] \in Keys /\ r = turn
    BY <1>1, <1>6, RequestsAssumption DEF PostTurn, TurnCovered, ServiceTypeOK
  <2> QED
    BY <1>3, <2>1, <2>2 DEF RegistryNext
<1>7. ASSUME NEW r \in Requests, AnswerRequest(r) \/ RefuseRequest(r) PROVE RegistryIInv'
  BY <1>2, <1>3, <1>7 DEF AnswerRequest, RefuseRequest, RegistryNext
<1>8. ASSUME NEW j \in Requests,
             \/ DatabaseAnswers(j) \/ Revalidate(j) \/ ToolGranted(j) \/ RecheckFails(j)
             \/ ProcessEnds(j) \/ RecordJob(j) \/ WaitsTooLong(j)
      PROVE  RegistryIInv'
  <2>1. UNCHANGED allVars \/ QueueSettles \/ Record(j)
    BY <1>8 DEF DatabaseAnswers, Revalidate, ToolGranted, Spawn, RecheckFails, ProcessEnds,
                RecordJob, WaitsTooLong, QueueSettles
  <2> QED
    BY <1>2, <1>3, <2>1 DEF RegistryNext
<1>9. ASSUME NEW k \in Keys, CancelPosition(k) PROVE RegistryIInv'
  BY <1>3, <1>9 DEF CancelPosition, RegistryNext
<1>10. CASE ClockTicks
  BY <1>3, <1>10 DEF ClockTicks, RegistryNext
<1>11. CASE \/ \E r \in Requests, k \in Keys : LoadContext(r, k)
            \/ \E g \in Games : GameMoves(g)
            \/ UNCHANGED everything
  BY <1>2, <1>11 DEF LoadContext, GameMoves, everything
<1> QED
  BY <1>4, <1>5, <1>6, <1>7, <1>8, <1>9, <1>10, <1>11 DEF ServiceNext

-----------------------------------------------------------------------------
(* Slots                                                                   *)

LEMMA SlotHoldersType ==
    ASSUME NEW u, NEW kind
    PROVE  IsFiniteSet(SlotHolders(u, kind)) /\ Cardinality(SlotHolders(u, kind)) \in Nat
<1>1. SlotHolders(u, kind) \in SUBSET Requests
  BY DEF SlotHolders
<1> QED
  BY <1>1, CardinalityType

\* The slot of a request that has read its position.
LEMMA SlotType ==
    ASSUME ServiceTypeOK, NEW r \in Requests, admitted[r] # None
    PROVE  /\ UserOf[r] \in Users /\ admitted[r].kind \in Kinds
           /\ Slot(r) = <<UserOf[r], admitted[r].kind>> /\ Slot(r) \in Users \X Kinds
<1>1. admitted[r] \in Keys
  BY DEF ServiceTypeOK
<1>2. admitted[r].kind \in Kinds /\ UserOf[r] \in Users
  BY <1>1, KeysAssumption, ServiceAssumption
<1> QED
  BY <1>2 DEF Slot

\* A slot that is taken.
LEMMA AcquireKeeps ==
    ASSUME ServiceTypeOK, HeldExact, NEW r \in Requests, admitted[r] # None, ~ holds[r],
           TryAcquire(r), admitted' = admitted
    PROVE  /\ HeldExact' /\ held' \in [Users \X Kinds -> Nat] /\ holds' \in [Requests -> BOOLEAN]
           /\ holds'[r] /\ \A q \in Requests \ {r} : holds'[q] <=> holds[q]
<1>1. /\ UserOf[r] \in Users /\ admitted[r].kind \in Kinds
      /\ Slot(r) = <<UserOf[r], admitted[r].kind>> /\ Slot(r) \in Users \X Kinds
  BY SlotType
<1>2. held \in [Users \X Kinds -> Nat] /\ holds \in [Requests -> BOOLEAN]
  BY DEF ServiceTypeOK
<1>3. held' = [held EXCEPT ![Slot(r)] = @ + 1] /\ holds' = [holds EXCEPT ![r] = TRUE]
  BY DEF TryAcquire
<1>4. holds' \in [Requests -> BOOLEAN] /\ holds'[r] /\ \A q \in Requests \ {r} : holds'[q] <=> holds[q]
  BY <1>2, <1>3
<1>5. /\ held' \in [Users \X Kinds -> Nat] /\ held'[Slot(r)] = held[Slot(r)] + 1
      /\ \A slot \in Users \X Kinds : slot # Slot(r) => held'[slot] = held[slot]
  BY <1>1, <1>2, <1>3
<1>6. ASSUME NEW u \in Users, NEW kind \in Kinds
      PROVE  held'[<<u, kind>>] = Cardinality(SlotHolders(u, kind)')
  <2>1. held[<<u, kind>>] = Cardinality(SlotHolders(u, kind))
    BY DEF HeldExact
  <2>2. CASE u = UserOf[r] /\ kind = admitted[r].kind
    <3>1. /\ SlotHolders(u, kind)' = SlotHolders(u, kind) \cup {r}
          /\ r \notin SlotHolders(u, kind)
      BY <1>4, <2>2 DEF SlotHolders
    <3>2. Cardinality(SlotHolders(u, kind)') = Cardinality(SlotHolders(u, kind)) + 1
      BY <3>1, SlotHoldersType, FS_AddElement
    <3> QED
      BY <1>1, <1>5, <2>1, <2>2, <3>2
  <2>3. CASE ~ (u = UserOf[r] /\ kind = admitted[r].kind)
    <3>1. SlotHolders(u, kind)' = SlotHolders(u, kind)
      BY <1>4, <2>3 DEF SlotHolders
    <3>2. held'[<<u, kind>>] = held[<<u, kind>>]
      BY <1>1, <1>5, <2>3
    <3> QED
      BY <2>1, <3>1, <3>2, Zenon
  <2> QED
    BY <2>2, <2>3
<1> QED
  BY <1>4, <1>5, <1>6 DEF HeldExact

\* A slot that is given back.
LEMMA ReleaseKeeps ==
    ASSUME ServiceTypeOK, HeldExact, TurnCovered, NEW r \in Requests,
           ReleaseSlot(r), admitted' = admitted
    PROVE  /\ HeldExact' /\ held' \in [Users \X Kinds -> Nat] /\ holds' \in [Requests -> BOOLEAN]
           /\ ~ holds'[r] /\ \A q \in Requests \ {r} : holds'[q] <=> holds[q]
<1>1. held \in [Users \X Kinds -> Nat] /\ holds \in [Requests -> BOOLEAN]
  BY DEF ServiceTypeOK
<1>2. CASE ~ holds[r]
  BY <1>1, <1>2 DEF ReleaseSlot, HeldExact, SlotHolders
<1>3. CASE holds[r]
  <2>1. /\ UserOf[r] \in Users /\ admitted[r].kind \in Kinds
        /\ Slot(r) = <<UserOf[r], admitted[r].kind>> /\ Slot(r) \in Users \X Kinds
    BY <1>3, SlotType DEF TurnCovered
  <2>2. /\ held' = [held EXCEPT ![Slot(r)] = IF @ <= 1 THEN 0 ELSE @ - 1]
        /\ holds' = [holds EXCEPT ![r] = FALSE]
    BY <1>3 DEF ReleaseSlot
  <2>3. /\ holds' \in [Requests -> BOOLEAN] /\ ~ holds'[r]
        /\ \A q \in Requests \ {r} : holds'[q] <=> holds[q]
    BY <1>1, <2>2
  <2> DEFINE mine == SlotHolders(UserOf[r], admitted[r].kind)
  <2>4. IsFiniteSet(mine) /\ Cardinality(mine) \in Nat /\ r \in mine
    BY <1>3, SlotHoldersType DEF SlotHolders
  <2>5. held[Slot(r)] = Cardinality(mine)
    BY <2>1 DEF HeldExact
  <2> HIDE DEF mine
  <2>6. Cardinality(mine \ {r}) = Cardinality(mine) - 1 /\ Cardinality(mine \ {r}) \in Nat
    BY <2>4, FS_RemoveElement, FS_CardinalityType
  <2>7. /\ held'[Slot(r)] = Cardinality(mine \ {r})
        /\ \A slot \in Users \X Kinds : slot # Slot(r) => held'[slot] = held[slot]
        /\ held' \in [Users \X Kinds -> Nat]
    <3>1. held'[Slot(r)] = IF held[Slot(r)] <= 1 THEN 0 ELSE held[Slot(r)] - 1
      BY <1>1, <2>1, <2>2
    <3>2. held'[Slot(r)] = Cardinality(mine \ {r})
      BY <2>4, <2>5, <2>6, <3>1
    <3> QED
      BY <1>1, <2>1, <2>2, <3>2
  <2>8. ASSUME NEW u \in Users, NEW kind \in Kinds
        PROVE  held'[<<u, kind>>] = Cardinality(SlotHolders(u, kind)')
    <3>1. held[<<u, kind>>] = Cardinality(SlotHolders(u, kind))
      BY DEF HeldExact
    <3>2. CASE u = UserOf[r] /\ kind = admitted[r].kind
      <4>1. SlotHolders(u, kind)' = mine \ {r}
        BY <2>3, <3>2 DEF SlotHolders, mine
      <4> QED
        BY <2>1, <2>7, <3>2, <4>1
    <3>3. CASE ~ (u = UserOf[r] /\ kind = admitted[r].kind)
      <4>1. SlotHolders(u, kind)' = SlotHolders(u, kind)
        BY <2>3, <3>3 DEF SlotHolders
      <4>2. held'[<<u, kind>>] = held[<<u, kind>>]
        BY <2>1, <2>7, <3>3
      <4> QED
        BY <3>1, <4>1, <4>2, Zenon
    <3> QED
      BY <3>2, <3>3
  <2> QED
    BY <2>3, <2>7, <2>8 DEF HeldExact
<1> QED
  BY <1>2, <1>3

-----------------------------------------------------------------------------
(* The steps of the handlers                                               *)

\* What the registry's invariant leaves to prove.
Covered == ServiceTypeOK /\ HeldExact /\ TurnCovered /\ JobsCovered

\* A result that is served is still served after it was read.
LEMMA HitSurvivesRead ==
    ASSUME RegistryIInv, NEW k \in Keys, Hit(k), cache' = ReadCache(k), now' = now
    PROVE  Hit(k)'
<1> DEFINE rest == Without(k)
           served == CHOOSE i \in Remembered(k) : TRUE
<1>1. CacheShape(cache)
  BY DEF RegistryIInv, RegistryTypeOK, CacheSound, CacheShape
<1>2. PICK entry \in Entries : entry = cache[served] /\ entry.key = k /\ ~ Expired(entry)
  <2>1. PICK i \in Remembered(k) : ~ Expired(cache[i])
    BY DEF Hit
  <2>2. served \in Remembered(k)
    BY <2>1
  <2> HIDE DEF served
  <2>3. i = served
    BY <1>1, <2>1, <2>2 DEF Remembered, CacheShape
  <2> QED
    BY <1>1, <2>1, <2>2, <2>3 DEF Remembered, CacheShape
<1>3. rest \in Seq(Entries)
  <2>1. KeptSoFar(DOMAIN cache \ Remembered(k), Len(cache), rest)
    BY <1>1, KeptShape DEF Without
  <2> HIDE DEF rest
  <2> QED
    BY <2>1 DEF KeptSoFar
<1>4. cache' = Append(rest, entry)
  BY <1>2 DEF ReadCache
<1> HIDE DEF rest
<1>5. /\ Len(rest) + 1 \in DOMAIN cache' /\ cache'[Len(rest) + 1] = entry
  BY <1>2, <1>3, <1>4
<1>6. ~ Expired(entry)'
  BY <1>2 DEF Expired
<1> QED
  BY <1>2, <1>5, <1>6 DEF Hit, Remembered, Expired

\* A step that takes and gives back no slot.
LEMMA CoverKeeps ==
    ASSUME ServiceIInv, UNCHANGED <<admitted, turn, held, holds>>,
           revision' \in [Games -> 1 .. MaxRevision],
           reread' \in [Requests -> 0 .. MaxRevision],
           checked' \in [Requests -> 0 .. MaxRevision], spawned' \in SUBSET Requests,
           overtaken' \in SUBSET Requests,
           \A q \in Requests : phase'[q] = "idle" => phase[q] = "idle",
           \A j \in Requests : Live(j)' => Live(j) /\ joined'[j] = joined[j],
           turn # None => UNCHANGED <<phase, cache, active>> /\ (TicksInTurn \/ now' = now)
    PROVE  Covered'
<1>1. ServiceTypeOK /\ HeldExact /\ TurnCovered /\ JobsCovered
  BY DEF ServiceIInv
<1>2. ServiceTypeOK'
  BY <1>1 DEF ServiceTypeOK
<1>3. HeldExact'
  <2>1. held' = held
    OBVIOUS
  <2>2. \A u, kind : SlotHolders(u, kind)' = SlotHolders(u, kind)
    BY DEF SlotHolders
  <2> QED
    BY <1>1, <2>1, <2>2 DEF HeldExact
<1>4. TurnCovered'
  <2>1. ASSUME turn # None
        PROVE  /\ phase'[turn] = "idle" /\ admitted[turn] # None
               /\ TicksInTurn \/ holds[turn] \/ Known(admitted[turn])'
    <3>1. (TicksInTurn \/ holds[turn] \/ Known(admitted[turn])) /\ phase[turn] = "idle"
      BY <1>1, <2>1 DEF TurnCovered
    <3>2. now' = now => (Known(admitted[turn]) => Known(admitted[turn])')
      BY <2>1 DEF Known, Hit, Remembered, Expired
    <3> QED
      BY <1>1, <2>1, <3>1, <3>2 DEF TurnCovered
  <2>2. \A q \in Requests : holds[q] => admitted[q] # None /\ (phase'[q] # "idle" \/ turn = q)
    BY <1>1 DEF TurnCovered
  <2> QED
    BY <2>1, <2>2 DEF TurnCovered, Known, Hit, Remembered, Expired
<1>5. JobsCovered'
  BY <1>1 DEF JobsCovered
<1> QED
  BY <1>2, <1>3, <1>4, <1>5 DEF Covered

\* A promise reaction that gives a slot back, after the job was over.
LEMMA ReleaseCovers ==
    ASSUME ServiceIInv, NEW r \in Requests, ~ Live(r), phase[r] # "idle", ReleaseSlot(r),
           UNCHANGED <<revision, admitted, turn, recheckVars, state, joined>>, turn = None,
           \A q \in Requests : phase'[q] = "idle" => phase[q] = "idle"
    PROVE  Covered'
<1>1. ServiceTypeOK /\ HeldExact /\ TurnCovered /\ JobsCovered
  BY DEF ServiceIInv
<1>2. /\ HeldExact' /\ held' \in [Users \X Kinds -> Nat] /\ holds' \in [Requests -> BOOLEAN]
      /\ ~ holds'[r] /\ \A q \in Requests \ {r} : holds'[q] <=> holds[q]
  BY <1>1, ReleaseKeeps
<1>3. ServiceTypeOK'
  BY <1>1, <1>2 DEF ServiceTypeOK, recheckVars
<1>4. TurnCovered'
  BY <1>1, <1>2 DEF TurnCovered
<1>5. JobsCovered'
  BY <1>1, <1>2 DEF JobsCovered, Live
<1> QED
  BY <1>2, <1>3, <1>4, <1>5 DEF Covered

\* The turn that begins.
LEMMA InspectedCovers ==
    ASSUME ServiceIInv, NEW r \in Requests, Inspected(r)
    PROVE  Covered'
<1>1. ServiceTypeOK /\ HeldExact /\ TurnCovered /\ JobsCovered
  BY DEF ServiceIInv
<1>2. /\ turn = None /\ phase[r] = "idle" /\ admitted[r] # None /\ turn' = r
      /\ cache' = ReadCache(admitted[r])
      /\ IF Known(admitted[r]) THEN UNCHANGED <<held, holds>> ELSE TryAcquire(r)
      /\ UNCHANGED <<vars, active, now, revision, admitted, recheckVars>>
  BY DEF Inspected
<1>3. admitted[r] \in Keys /\ ~ holds[r]
  BY <1>1, <1>2, RequestsAssumption DEF ServiceTypeOK, TurnCovered
<1>4. UNCHANGED <<phase, joined, state>>
  BY <1>2 DEF vars, lineVars, callerVars
<1>5. /\ HeldExact' /\ held' \in [Users \X Kinds -> Nat] /\ holds' \in [Requests -> BOOLEAN]
      /\ \A q \in Requests \ {r} : holds'[q] <=> holds[q]
      /\ holds'[r] \/ Known(admitted[r])
  <2>1. CASE Known(admitted[r])
    BY <1>1, <1>2, <2>1 DEF HeldExact, SlotHolders, ServiceTypeOK
  <2>2. CASE ~ Known(admitted[r])
    BY <1>1, <1>2, <1>3, <2>2, AcquireKeeps
  <2> QED
    BY <2>1, <2>2
<1>6. Known(admitted[r]) => Known(admitted[r])'
  <2>1. active[admitted[r]] # None => active'[admitted'[r]] # None
    BY <1>2
  <2>2. Hit(admitted[r]) => Hit(admitted[r])'
    <3>1. PICK k \in Keys : k = admitted[r]
      BY <1>3
    <3>2. Hit(k) => Hit(k)'
      BY <1>2, <3>1, HitSurvivesRead DEF ServiceIInv
    <3>3. admitted'[r] = k
      BY <1>2, <3>1
    <3> QED
      BY <3>1, <3>2, <3>3 DEF Hit, Remembered, Expired
  <2> QED
    BY <2>1, <2>2 DEF Known
<1>7. ServiceTypeOK'
  BY <1>1, <1>2, <1>5 DEF ServiceTypeOK, recheckVars
<1>8. TurnCovered'
  <2>1. \A q \in Requests : holds'[q] => admitted'[q] # None /\ (phase'[q] # "idle" \/ turn' = q)
    BY <1>1, <1>2, <1>4, <1>5, RequestsAssumption DEF TurnCovered
  <2>2. /\ phase'[r] = "idle" /\ admitted'[r] # None
        /\ TicksInTurn \/ holds'[r] \/ Known(admitted[r])'
    BY <1>2, <1>4, <1>5, <1>6
  <2>3. turn' # None => /\ phase'[turn'] = "idle" /\ admitted'[turn'] # None
                        /\ TicksInTurn \/ holds'[turn'] \/ Known(admitted[turn])'
    <3>1. Known(admitted[r])' => Known(admitted[turn])'
      BY <1>2 DEF Known, Hit, Remembered, Expired
    <3> QED
      BY <1>2, <2>2, <3>1
  <2> QED
    BY <2>1, <2>3 DEF TurnCovered
<1>9. JobsCovered'
  <2>1. \A j \in Requests : Live(j)' => Live(j) /\ j # r
    BY <1>2, <1>4 DEF Live, ServiceIInv, RegistryIInv, QueueInv, Arrivals
  <2> QED
    BY <1>1, <1>4, <1>5, <2>1 DEF JobsCovered
<1> QED
  BY <1>5, <1>7, <1>8, <1>9 DEF Covered

\* Who is concerned by a request that is made.
LEMMA SubmitFacts ==
    ASSUME RegistryIInv, NEW r \in Requests, NEW k \in Keys, RegistrySubmit(r, k)
    PROVE  /\ phase[r] = "idle" /\ phase'[r] # "idle" /\ ~ Live(r)
           /\ \A q \in Requests \ {r} : phase'[q] = phase[q] /\ joined'[q] = joined[q]
           /\ \A j \in Requests : Live(j)' => Live(j) \/ (j = r /\ Start(r, k))
<1>1. /\ phase \in [Requests -> {"idle", "attached", "answered", "refused"}]
      /\ joined \in [Requests -> Requests \cup {None}] /\ QueueInv
  BY DEF RegistryIInv, QueueInv, TypeOK
<1>2. phase[r] = "idle" /\ ~ Live(r)
  BY DEF RegistrySubmit, RegistryIInv, QueueInv, Arrivals, Live
<1>3. phase'[r] # "idle" /\ \A q \in Requests \ {r} : phase'[q] = phase[q] /\ joined'[q] = joined[q]
  BY <1>1 DEF RegistrySubmit, ServeCached, Observe, StartRefused, Start
<1>4. CASE Start(r, k)
  BY <1>1, <1>2, <1>3, <1>4, StartJobs DEF Live
<1>5. CASE ~ Start(r, k)
  <2>1. CancelAll(Superseded(k))
    BY <1>5 DEF RegistrySubmit, ServeCached, Observe, StartRefused
  <2>2. Superseded(k) \in SUBSET Requests
    BY <1>1, SupersededType
  <2>3. \A j \in Requests : Live(j)' => Live(j)
    BY <1>1, <2>1, <2>2, DropEffect DEF Live
  <2> QED
    BY <1>1, <1>2, <1>3, <2>3
<1> QED
  BY <1>4, <1>5

\* The turn that ends: a job that is started has found its slot taken.
LEMMA PostTurnCovers ==
    ASSUME ServiceIInv, NEW r \in Requests, PostTurn(r)
    PROVE  Covered'
<1>1. ServiceTypeOK /\ HeldExact /\ TurnCovered /\ JobsCovered /\ RegistryIInv
  BY DEF ServiceIInv
<1>2. /\ turn = r /\ RegistrySubmit(r, admitted[r]) /\ turn' = None
      /\ (ReleaseSlot(r) /\ joined'[r] # r) \/ UNCHANGED <<held, holds>>
      /\ spawned' = spawned \cup {r} \/ spawned' = spawned
      /\ overtaken' = overtaken \cup Outrun'
      /\ UNCHANGED <<revision, admitted, reread, checked>>
  BY DEF PostTurn
<1>3. /\ admitted[r] \in Keys /\ phase[r] = "idle"
      /\ TicksInTurn \/ holds[r] \/ Known(admitted[r])
  BY <1>1, <1>2, RequestsAssumption DEF ServiceTypeOK, TurnCovered
<1>4. PICK k \in Keys : k = admitted[r]
  BY <1>3
<1>5. /\ phase'[r] # "idle" /\ ~ Live(r)
      /\ \A q \in Requests \ {r} : phase'[q] = phase[q] /\ joined'[q] = joined[q]
      /\ \A j \in Requests : Live(j)' => Live(j) \/ (j = r /\ Start(r, k))
  BY <1>1, <1>2, <1>4, SubmitFacts
<1>6. /\ HeldExact' /\ held' \in [Users \X Kinds -> Nat] /\ holds' \in [Requests -> BOOLEAN]
      /\ \A q \in Requests \ {r} : holds'[q] <=> holds[q]
  <2>1. CASE ReleaseSlot(r)
    BY <1>1, <1>2, <2>1, ReleaseKeeps
  <2>2. CASE UNCHANGED <<held, holds>>
    BY <1>1, <1>2, <2>2 DEF HeldExact, SlotHolders, ServiceTypeOK
  <2> QED
    BY <1>2, <2>1, <2>2
<1>7. ServiceTypeOK'
  BY <1>1, <1>2, <1>6 DEF ServiceTypeOK, Outrun
<1>8. TurnCovered'
  <2>1. ASSUME NEW q \in Requests, holds'[q]
        PROVE  admitted'[q] # None /\ phase'[q] # "idle"
    <3>1. CASE q = r
      BY <1>2, <1>3, <1>5, <3>1, KeysAssumption
    <3>2. CASE q # r
      BY <1>1, <1>2, <1>5, <1>6, <2>1, <3>2 DEF TurnCovered
    <3> QED
      BY <3>1, <3>2
  <2> QED
    BY <1>2, <2>1 DEF TurnCovered
<1>9. JobsCovered'
  <2>1. ASSUME NEW j \in Requests, Live(j)' PROVE joined'[j] = j /\ (TicksInTurn \/ holds'[j])
    <3>1. CASE Live(j)
      BY <1>1, <1>5, <1>6, <3>1 DEF JobsCovered
    <3>2. CASE j = r /\ Start(r, k)
      <4>1. joined'[r] = r /\ ~ Known(k)
        BY <1>1, <3>2 DEF Start, NothingKnown, Known, RegistryIInv, QueueInv, TypeOK
      <4>2. UNCHANGED <<held, holds>>
        BY <1>2, <4>1
      <4> QED
        BY <1>3, <1>4, <3>2, <4>1, <4>2
    <3> QED
      BY <1>5, <2>1, <3>1, <3>2
  <2> QED
    BY <2>1 DEF JobsCovered
<1> QED
  BY <1>6, <1>7, <1>8, <1>9 DEF Covered

LEMMA LoadCovers ==
    ASSUME ServiceIInv, NEW r \in Requests, NEW k \in Keys, LoadContext(r, k)
    PROVE  Covered'
<1>1. ServiceTypeOK /\ HeldExact /\ TurnCovered /\ JobsCovered
  BY DEF ServiceIInv
<1>2. /\ turn = None /\ phase[r] = "idle" /\ admitted' = [admitted EXCEPT ![r] = k]
      /\ UNCHANGED <<allVars, revision, turn, held, holds, recheckVars>>
  BY DEF LoadContext
<1>3. UNCHANGED <<phase, joined, state>>
  BY <1>2 DEF allVars, vars, lineVars, callerVars
<1>4. /\ ~ holds[r] /\ \A q \in Requests \ {r} : admitted'[q] = admitted[q]
      /\ admitted' \in [Requests -> Keys \cup {None}]
  BY <1>1, <1>2, RequestsAssumption DEF TurnCovered, ServiceTypeOK
<1>5. ServiceTypeOK'
  BY <1>1, <1>2, <1>4 DEF ServiceTypeOK, recheckVars
<1>6. HeldExact'
  <2>1. \A u \in Users, kind \in Kinds : SlotHolders(u, kind)' = SlotHolders(u, kind)
    BY <1>2, <1>4 DEF SlotHolders
  <2> QED
    BY <1>1, <1>2, <2>1 DEF HeldExact
<1>7. TurnCovered'
  BY <1>1, <1>2, <1>3, <1>4 DEF TurnCovered
<1>8. JobsCovered'
  BY <1>1, <1>2, <1>3 DEF JobsCovered, Live
<1> QED
  BY <1>5, <1>6, <1>7, <1>8 DEF Covered

\* A run that ends frees no other job from its place.
LEMMA CompleteCovers ==
    ASSUME ServiceIInv, NEW j \in Requests, NEW result \in {"value", "error"},
           Complete(j, result)
    PROVE  /\ UNCHANGED <<phase, joined>>
           /\ \A i \in Requests : Live(i)' => Live(i)
<1>1. QueueInv
  BY DEF ServiceIInv, RegistryIInv
<1>2. Settles(j)
  BY <1>1, CompleteSettles
<1> QED
  BY <1>2 DEF Settles, Complete, callerVars, Live

LEMMA ServiceIInvPreserved == ServiceIInv /\ [ServiceNext]_everything => ServiceIInv'
<1> SUFFICES ASSUME ServiceIInv, [ServiceNext]_everything PROVE Covered'
  BY HandlersKeepRegistry DEF ServiceIInv, Covered
<1>1. ServiceTypeOK /\ TurnCovered /\ QueueInv /\ TypeOK /\ RegistryIInv
  BY DEF ServiceIInv, RegistryIInv, QueueInv
<1>2. /\ revision \in [Games -> 1 .. MaxRevision]
      /\ spawned \in SUBSET Requests /\ overtaken \in SUBSET Requests
      /\ reread \in [Requests -> 0 .. MaxRevision] /\ checked \in [Requests -> 0 .. MaxRevision]
  BY <1>1 DEF ServiceTypeOK
<1>3. CASE UNCHANGED everything
  BY <1>2, <1>3, CoverKeeps DEF everything, allVars, vars, lineVars, callerVars, registryVars,
                              serviceVars, recheckVars, Live
<1>4. ASSUME NEW r \in Requests, NEW k \in Keys, LoadContext(r, k) PROVE Covered'
  BY <1>4, LoadCovers
<1>5. ASSUME NEW r \in Requests, Inspected(r) \/ PostTurn(r) PROVE Covered'
  BY <1>5, InspectedCovers, PostTurnCovers
<1>6. ASSUME NEW r \in Requests, TooMany(r) PROVE Covered'
  <2>1. /\ turn = None /\ phase' = [phase EXCEPT ![r] = "refused"]
        /\ UNCHANGED <<lineVars, joined, serviceVars>>
    BY <1>6 DEF TooMany
  <2>2. \A q \in Requests : phase'[q] = "idle" => phase[q] = "idle"
    BY <1>1, <2>1 DEF TypeOK
  <2> QED
    BY <1>2, <2>1, <2>2, CoverKeeps DEF lineVars, serviceVars, recheckVars, Live
<1>7. ASSUME NEW r \in Requests, AnswerRequest(r) PROVE Covered'
  <2>1. /\ turn = None /\ phase[r] = "attached" /\ Settled(joined[r])
        /\ phase' = [phase EXCEPT ![r] = "answered"] /\ ReleaseSlot(r)
        /\ UNCHANGED <<lineVars, joined, revision, admitted, turn, recheckVars>>
    BY <1>7 DEF AnswerRequest, Answer, Unanswered
  <2>2. ~ Live(r)
    <3> SUFFICES ASSUME Live(r) PROVE FALSE
      OBVIOUS
    <3>1. joined[r] = r /\ outcome[r] = "pending"
      BY DEF ServiceIInv, JobsCovered, RegistryIInv, Bookkeeping, Live
    <3> QED
      BY <2>1, <3>1 DEF Settled
  <2>3. \A q \in Requests : phase'[q] = "idle" => phase[q] = "idle"
    BY <1>1, <2>1 DEF TypeOK
  <2> QED
    BY <2>1, <2>2, <2>3, ReleaseCovers DEF lineVars
<1>8. ASSUME NEW r \in Requests, RefuseRequest(r) PROVE Covered'
  <2>1. /\ turn = None /\ phase[r] = "refused" /\ ReleaseSlot(r)
        /\ UNCHANGED <<allVars, revision, admitted, turn, recheckVars>>
    BY <1>8 DEF RefuseRequest
  <2>2. ~ Live(r)
    BY <1>1, <2>1 DEF RegistryIInv, Requesting, Live
  <2> QED
    BY <2>1, <2>2, ReleaseCovers DEF allVars, vars, lineVars, callerVars
<1>9. ASSUME NEW j \in Requests,
             \/ DatabaseAnswers(j) \/ Revalidate(j) \/ ToolGranted(j) \/ RecheckFails(j)
             \/ ProcessEnds(j)
      PROVE  Covered'
  <2>1. /\ turn = None /\ UNCHANGED <<revision, admitted, turn, held, holds, overtaken>>
        /\ spawned' = spawned \/ spawned' = spawned \cup {j}
        /\ \/ UNCHANGED allVars
           \/ \E result \in {"value", "error"} : Complete(j, result)
    BY <1>9 DEF DatabaseAnswers, Revalidate, ToolGranted, Spawn, RecheckFails, ProcessEnds,
                serviceVars, recheckVars
  <2>2. UNCHANGED <<phase, joined>> /\ \A i \in Requests : Live(i)' => Live(i)
    BY <2>1, CompleteCovers DEF allVars, vars, lineVars, callerVars, Live
  <2>3. /\ reread' \in [Requests -> 0 .. MaxRevision]
        /\ checked' \in [Requests -> 0 .. MaxRevision]
    <3>2. state[j] = "running" => revision[task[j].key.game] \in 0 .. MaxRevision
      <4>1. state[j] = "running" => task[j].key.game \in Games
        BY <1>1, KeysAssumption DEF QueueInv, Arrivals, Ranks
      <4> QED
        BY <1>2, <4>1, ServiceAssumption
    <3>3. CASE DatabaseAnswers(j)
      BY <1>2, <3>2, <3>3 DEF DatabaseAnswers, Rechecking
    <3>4. CASE Revalidate(j)
      BY <1>2, <3>2, <3>4 DEF Revalidate, Rechecking
    <3>5. CASE ToolGranted(j) \/ RecheckFails(j) \/ ProcessEnds(j)
      BY <1>2, <3>5 DEF ToolGranted, RecheckFails, ProcessEnds, serviceVars, recheckVars
    <3> QED
      BY <1>9, <3>3, <3>4, <3>5
  <2> QED
    BY <1>2, <2>1, <2>2, <2>3, CoverKeeps
<1>10. ASSUME NEW j \in Requests, RecordJob(j) PROVE Covered'
  <2>1. turn = None /\ UNCHANGED <<vars, serviceVars>>
    BY <1>10 DEF RecordJob, Record
  <2> QED
    BY <1>2, <2>1, CoverKeeps DEF vars, lineVars, callerVars, serviceVars, recheckVars, Live
<1>11. ASSUME NEW k \in Keys, CancelPosition(k) PROVE Covered'
  <2>1. /\ turn = None /\ jobs[k] \in Requests /\ CancelAll({jobs[k]})
        /\ UNCHANGED <<callerVars, serviceVars>>
    BY <1>1, <1>11 DEF CancelPosition, RegistryCancel, TypeOK
  <2>2. \A i \in Requests : Live(i)' => Live(i)
    BY <1>1, <2>1, DropEffect DEF Live
  <2> QED
    BY <1>2, <2>1, <2>2, CoverKeeps DEF callerVars, serviceVars, recheckVars
<1>12. ASSUME NEW g \in Games, GameMoves(g) PROVE Covered'
  <2>1. /\ turn = None /\ revision[g] < MaxRevision /\ revision' = [revision EXCEPT ![g] = @ + 1]
        /\ UNCHANGED <<allVars, admitted, turn, held, holds, reread, checked, spawned>>
        /\ overtaken' = overtaken \cup Outrun'
    BY <1>12 DEF GameMoves
  <2>2. revision' \in [Games -> 1 .. MaxRevision]
    BY <1>2, <2>1, ServiceAssumption
  <2> QED
    BY <1>2, <2>1, <2>2, CoverKeeps DEF allVars, vars, lineVars, callerVars, Outrun, Live
<1>13. CASE ClockTicks
  <2>1. /\ turn = None \/ TicksInTurn
        /\ UNCHANGED <<vars, active, cache, serviceVars>>
    BY <1>13 DEF ClockTicks, Tick
  <2> QED
    BY <1>2, <2>1, CoverKeeps DEF vars, lineVars, callerVars, serviceVars, recheckVars, Live
<1>14. ASSUME NEW j \in Requests, WaitsTooLong(j) PROVE Covered'
  <2>1. /\ turn = None /\ state[j] = "waiting" /\ Abandon(j, "timeout")
        /\ UNCHANGED <<callerVars, serviceVars>>
    BY <1>14 DEF WaitsTooLong, WaitTimeout
  <2>2. Settles(j)
    BY <1>1, <2>1, AbandonSettles
  <2>3. \A i \in Requests : Live(i)' => Live(i)
    BY <2>2 DEF Settles, Live
  <2> QED
    BY <1>2, <2>1, <2>3, CoverKeeps DEF callerVars, serviceVars, recheckVars
<1> QED
  BY <1>3, <1>4, <1>5, <1>6, <1>7, <1>8, <1>9, <1>10, <1>11, <1>12, <1>13, <1>14 DEF ServiceNext

LEMMA ServiceIInvInitial == ServiceInit => ServiceIInv
<1> SUFFICES ASSUME ServiceInit PROVE ServiceIInv
  OBVIOUS
<1>1. /\ RegistryInit /\ revision = [g \in Games |-> 1] /\ admitted = [r \in Requests |-> None]
      /\ turn = None /\ held = [slot \in Users \X Kinds |-> 0]
      /\ holds = [r \in Requests |-> FALSE] /\ spawned = {} /\ overtaken = {}
      /\ reread = [j \in Requests |-> 0] /\ checked = [j \in Requests |-> 0]
  BY DEF ServiceInit
<1>2. RegistryIInv
  BY <1>1, RegistryIInvInitial
<1>3. \A r \in Requests : ~ holds[r] /\ ~ Live(r)
  BY <1>1 DEF RegistryInit, Init, Live
<1>4. ServiceTypeOK
  BY <1>1, ServiceAssumption DEF ServiceTypeOK
<1>5. HeldExact
  <2>1. \A u \in Users, kind \in Kinds : SlotHolders(u, kind) = {}
    BY <1>3 DEF SlotHolders
  <2> QED
    BY <1>1, <2>1, FS_EmptySet DEF HeldExact
<1>6. TurnCovered
  BY <1>1, <1>3 DEF TurnCovered
<1>7. JobsCovered
  BY <1>3 DEF JobsCovered
<1> QED
  BY <1>2, <1>4, <1>5, <1>6, <1>7 DEF ServiceIInv

-----------------------------------------------------------------------------
(* The theorems                                                            *)

\* The inductive invariant holds of every behaviour of the handlers.
THEOREM ServiceIInvHolds == ServiceSpec => []ServiceIInv
BY ServiceIInvInitial, ServiceIInvPreserved, PTL DEF ServiceSpec

\* Under the handlers too, which prove a revision and then let go of the event
\* loop before they submit, the registry and the queue agree on what is live,
\* and nothing is computed for a key whose result is still served.
THEOREM ServiceKeepsRegistry == ServiceSpec => []RegistryInv
<1>1. ServiceIInv => RegistryInv
  BY RegistryIInvImplies DEF ServiceIInv
<1> QED
  BY <1>1, ServiceIInvHolds, PTL

\* Under the handlers too, a job is stopped by an explicit cancel or by a
\* request for the same game at a higher revision.
THEOREM ServiceStopsOnlyOutdated == ServiceSpec => []OnlyUsefulnessStops
<1>1. ServiceIInv => OnlyUsefulnessStops
  BY DEF ServiceIInv, RegistryIInv
<1> QED
  BY <1>1, ServiceIInvHolds, PTL

\* The counters of ConcurrencyLimit never drift from the requests that hold a
\* slot, whatever the clock does.
THEOREM HeldExactAlways == ServiceSpec => []HeldExact
<1>1. ServiceIInv => HeldExact
  BY DEF ServiceIInv
<1> QED
  BY <1>1, ServiceIInvHolds, PTL

\* As long as no result expires between the two readings of the clock in one
\* turn, a live job is covered by the slot of the request that started it.
THEOREM SlotCoversJobAlways ==
    ASSUME TicksInTurn = FALSE
    PROVE  ServiceSpec => []SlotCoversJob
<1>1. ServiceIInv => SlotCoversJob
  <2> SUFFICES ASSUME ServiceIInv PROVE SlotCoversJob
    OBVIOUS
  <2>1. \A j \in Requests : Live(j) => holds[j]
    BY DEF ServiceIInv, JobsCovered
  <2>2. HeldExact
    BY DEF ServiceIInv
  <2> QED
    BY <2>1, <2>2 DEF SlotCoversJob, HeldExact, SlotHolders
<1> QED
  BY <1>1, ServiceIInvHolds, PTL

-----------------------------------------------------------------------------
(* What a job that waited knows of its game                                *)

\* A job keeps its abort, what it was made for and how far it has come.
GoesOn(j) ==
    /\ aborted[j] => aborted'[j]
    /\ state[j] # "none" => state'[j] # "none" /\ task'[j] = task[j]
    /\ state[j] = "running" => state'[j] # "waiting"
    /\ state[j] = "settled" => state'[j] = "settled"

\* Somebody has asked about a later position of the job's game.
Outdates(r, j) ==
    /\ asked[r] # None
    /\ asked[r].game = task[j].key.game
    /\ asked[r].revision > task[j].key.revision

\* What was admitted, or asked for, was a position of the game.
Existed ==
    /\ \A r \in Requests : admitted[r] # None => admitted[r].revision <= revision[admitted[r].game]
    /\ \A r \in Requests : asked[r] # None => asked[r].revision <= revision[asked[r].game]

RevokedAborted == \A j \in revoked : aborted[j]

\* Nothing is read for a job, and no process started, before it is told to run.
ReadsAtFront ==
    \A j \in Requests : reread[j] # 0 \/ j \in spawned => state[j] \in {"running", "settled"}

\* What was found to be the job's own revision is what was read.
ComparedItsOwn ==
    \A j \in Requests : checked[j] # 0 => reread[j] # 0 /\ reread[j] = task[j].key.revision

\* A job that has read its own revision is aborted as soon as anybody asks
\* about a later one: the supersession finds it.
LaterAskedAborts ==
    \A j \in Requests :
       (/\ state[j] = "running" /\ reread[j] # 0 /\ reread[j] = task[j].key.revision
        /\ \E r \in Requests : Outdates(r, j)) => aborted[j]

\* Nothing will start a process for this job: it has ended, or it stands behind
\* its game and has yet to be compared with what was read, or will be read.
Doomed(j) ==
    /\ state[j] # "none" /\ j \notin spawned
    /\ \/ state[j] = "settled"
       \/ /\ revision[task[j].key.game] > task[j].key.revision
          /\ reread[j] = 0 \/ reread[j] # task[j].key.revision
          /\ checked[j] = 0

LeftDoomed == \A j \in overtaken : Doomed(j)

RecheckInv ==
    Existed /\ RevokedAborted /\ ReadsAtFront /\ ComparedItsOwn /\ LaterAskedAborts /\ LeftDoomed

LEMMA DropGoesOn ==
    ASSUME QueueInv, NEW S \in SUBSET Requests, CancelAll(S), NEW j \in Requests
    PROVE  GoesOn(j)
<1>1. /\ j \in Dropped(S) => state[j] = "waiting" /\ state'[j] = "settled"
      /\ j \notin Dropped(S) => state'[j] = state[j]
      /\ aborted'[j] <=> aborted[j] \/ j \in S
  BY DropEffect
<1>2. task' = task
  BY DEF CancelAll
<1> QED
  BY <1>1, <1>2 DEF GoesOn

\* A job that ends, and the one that takes its slot.
LEMMA CompleteGoesOn ==
    ASSUME QueueInv, NEW i \in Requests, NEW result \in {"value", "error"}, Complete(i, result),
           NEW j \in Requests
    PROVE  GoesOn(j)
<1>1. state[i] = "running" /\ UNCHANGED <<task, aborted>>
  BY DEF Complete
<1>2. /\ state \in [Requests -> {"none", "waiting", "running", "settled"}]
      /\ \A h \in waiting : h \in Requests /\ state[h] = "waiting"
  BY DEF QueueInv, TypeOK, Bounded
<1>3. CASE state' = [state EXCEPT ![i] = "settled"]
  BY <1>1, <1>2, <1>3 DEF GoesOn
<1>4. ASSUME NEW best \in waiting, state' = [state EXCEPT ![i] = "settled", ![best] = "running"]
      PROVE  GoesOn(j)
  BY <1>1, <1>2, <1>4 DEF GoesOn
<1> QED
  BY <1>3, <1>4, CompleteEffect

\* A request that is made stops what it supersedes and may start a job; no job
\* is taken back in its course.
LEMMA SubmitGoesOn ==
    ASSUME RegistryIInv, NEW r \in Requests, NEW k \in Keys, RegistrySubmit(r, k), NEW j \in Requests
    PROVE  GoesOn(j) /\ (j \in Superseded(k) => aborted'[j])
<1>1. QueueInv /\ phase[r] = "idle"
  BY DEF RegistryIInv, RegistrySubmit
<1>2. Superseded(k) \in SUBSET Requests
  BY <1>1, SupersededType
<1>3. CASE Start(r, k)
  <2>1. /\ state[r] = "none" /\ ~ aborted[r]
        /\ \A h \in Requests \ {r} :
             /\ task'[h] = task[h]
             /\ aborted'[h] <=> aborted[h] \/ h \in Superseded(k)
             /\ h \in Dropped(Superseded(k)) => state[h] = "waiting" /\ state'[h] = "settled"
             /\ h \notin Dropped(Superseded(k)) => state'[h] = state[h]
    BY <1>1, <1>3, StartJobs
  <2>2. r \notin Superseded(k)
    BY <1>1, <2>1, SupersededType DEF Live
  <2>3. CASE j = r
    BY <2>1, <2>2, <2>3 DEF GoesOn
  <2>4. CASE j # r
    BY <2>1, <2>4 DEF GoesOn
  <2> QED
    BY <2>3, <2>4
<1>4. CASE ~ Start(r, k)
  <2>1. CancelAll(Superseded(k))
    BY <1>4 DEF RegistrySubmit, ServeCached, Observe, StartRefused
  <2>2. GoesOn(j)
    BY <1>1, <1>2, <2>1, DropGoesOn
  <2>3. aborted'[j] <=> aborted[j] \/ j \in Superseded(k)
    BY <1>1, <1>2, <2>1, DropEffect
  <2> QED
    BY <2>2, <2>3
<1> QED
  BY <1>3, <1>4

\* No handler takes a job back, and no game goes back.
LEMMA ServiceGoesOn ==
    ASSUME ServiceIInv, [ServiceNext]_everything
    PROVE  /\ \A j \in Requests : GoesOn(j)
           /\ \A g \in Games : revision[g] <= revision'[g]
<1>1. /\ QueueInv /\ RegistryIInv /\ ServiceTypeOK /\ TurnCovered
      /\ revision \in [Games -> 1 .. MaxRevision]
      /\ admitted \in [Requests -> Keys \cup {None}]
      /\ state \in [Requests -> {"none", "waiting", "running", "settled"}]
  BY DEF ServiceIInv, RegistryIInv, QueueInv, TypeOK, ServiceTypeOK
<1>2. revision' = revision => \A g \in Games : revision[g] <= revision'[g]
  BY <1>1, ServiceAssumption
<1>3. UNCHANGED <<state, task, aborted>> => \A j \in Requests : GoesOn(j)
  BY DEF GoesOn
<1>4. CASE UNCHANGED everything
  BY <1>2, <1>3, <1>4 DEF everything, allVars, vars, lineVars, serviceVars
<1>5. ASSUME NEW r \in Requests, \/ \E k \in Keys : LoadContext(r, k)
                                 \/ Inspected(r) \/ TooMany(r)
                                 \/ AnswerRequest(r) \/ RefuseRequest(r) \/ RecordJob(r)
                                 \/ DatabaseAnswers(r)
      PROVE  UNCHANGED <<state, task, aborted, revision>>
  BY <1>5 DEF LoadContext, Inspected, TooMany, AnswerRequest, Answer, RefuseRequest, RecordJob,
              Record, DatabaseAnswers, allVars, vars, lineVars, serviceVars
<1>6. ASSUME NEW r \in Requests, PostTurn(r)
      PROVE  revision' = revision /\ \A j \in Requests : GoesOn(j)
  <2>1. /\ turn = r /\ RegistrySubmit(r, admitted[r]) /\ revision' = revision
    BY <1>6 DEF PostTurn
  <2>2. admitted[r] \in Keys
    BY <1>1, <2>1, RequestsAssumption DEF TurnCovered
  <2> QED
    BY <1>1, <2>1, <2>2, SubmitGoesOn
<1>7. ASSUME NEW i \in Requests,
             Revalidate(i) \/ ToolGranted(i) \/ RecheckFails(i) \/ ProcessEnds(i)
      PROVE  revision' = revision /\ \A j \in Requests : GoesOn(j)
  <2>1. /\ revision' = revision
        /\ UNCHANGED allVars \/ \E result \in {"value", "error"} : Complete(i, result)
    BY <1>7 DEF Revalidate, ToolGranted, Spawn, RecheckFails, ProcessEnds, serviceVars
  <2> QED
    BY <1>1, <1>3, <2>1, CompleteGoesOn DEF allVars, vars, lineVars
<1>8. ASSUME NEW i \in Requests, WaitsTooLong(i)
      PROVE  revision' = revision /\ \A j \in Requests : GoesOn(j)
  <2>1. /\ state[i] = "waiting" /\ Abandon(i, "timeout") /\ revision' = revision
        /\ UNCHANGED <<task, aborted>>
    BY <1>8 DEF WaitsTooLong, WaitTimeout, serviceVars
  <2>2. state' = [state EXCEPT ![i] = "settled"]
    BY <1>1, <2>1, AbandonEffect
  <2> QED
    BY <1>1, <2>1, <2>2 DEF GoesOn
<1>9. ASSUME NEW k \in Keys, CancelPosition(k)
      PROVE  revision' = revision /\ \A j \in Requests : GoesOn(j)
  <2>1. {jobs[k]} \in SUBSET Requests /\ CancelAll({jobs[k]}) /\ revision' = revision
    BY <1>1, <1>9 DEF CancelPosition, RegistryCancel, QueueInv, TypeOK, serviceVars
  <2> QED
    BY <1>1, <2>1, DropGoesOn
<1>10. ASSUME NEW g \in Games, GameMoves(g)
       PROVE  /\ UNCHANGED <<state, task, aborted>>
              /\ \A h \in Games : revision[h] <= revision'[h]
  <2>1. UNCHANGED <<state, task, aborted>> /\ revision' = [revision EXCEPT ![g] = @ + 1]
    BY <1>10 DEF GameMoves, allVars, vars, lineVars
  <2>2. \A h \in Games : revision[h] \in Nat
    BY <1>1, ServiceAssumption
  <2> QED
    BY <1>1, <2>1, <2>2
<1>11. CASE ClockTicks
  BY <1>2, <1>3, <1>11 DEF ClockTicks, Tick, vars, lineVars, serviceVars
<1> QED
  BY <1>2, <1>3, <1>4, <1>5, <1>6, <1>7, <1>8, <1>9, <1>10, <1>11 DEF ServiceNext

\* Each of these variables is written by the handlers named here, and by no other.
LEMMA WhoWrites ==
    ASSUME [ServiceNext]_everything
    PROVE  /\ admitted' = admitted \/ \E r \in Requests, k \in Keys : LoadContext(r, k)
           /\ asked' = asked \/ \E r \in Requests : PostTurn(r)
           /\ revoked' = revoked \/ \E k \in Keys : CancelPosition(k)
           /\ reread' = reread \/ \E j \in Requests : DatabaseAnswers(j)
           /\ checked' = checked \/ \E j \in Requests : Revalidate(j)
           /\ \/ spawned' = spawned
              \/ \E j \in Requests : PostTurn(j) \/ Revalidate(j) \/ ToolGranted(j)
           /\ \/ overtaken' = overtaken
              \/ (\E r \in Requests : PostTurn(r)) \/ \E g \in Games : GameMoves(g)
<1>1. CASE UNCHANGED everything
  BY <1>1 DEF everything, allVars, registryVars, serviceVars, recheckVars
<1>2. ASSUME NEW r \in Requests, NEW k \in Keys, LoadContext(r, k)
      PROVE  UNCHANGED <<asked, revoked, recheckVars>>
  BY <1>2 DEF LoadContext, allVars, registryVars
<1>3. ASSUME NEW r \in Requests, Inspected(r) \/ TooMany(r) \/ AnswerRequest(r) \/ RefuseRequest(r)
      PROVE  UNCHANGED <<admitted, asked, revoked, recheckVars>>
  BY <1>3 DEF Inspected, TooMany, AnswerRequest, Answer, RefuseRequest, allVars, registryVars,
              serviceVars
<1>4. ASSUME NEW r \in Requests, PostTurn(r)
      PROVE  UNCHANGED <<admitted, revoked, reread, checked>>
  BY <1>4 DEF PostTurn, RegistrySubmit
<1>5. ASSUME NEW j \in Requests, DatabaseAnswers(j)
      PROVE  UNCHANGED <<admitted, asked, revoked, checked, spawned, overtaken>>
  BY <1>5 DEF DatabaseAnswers, allVars, registryVars
<1>6. ASSUME NEW j \in Requests, Revalidate(j) \/ ToolGranted(j)
      PROVE  UNCHANGED <<admitted, asked, revoked, reread, overtaken>>
  BY <1>6 DEF Revalidate, ToolGranted, Spawn, allVars, registryVars
<1>7. ASSUME NEW j \in Requests, ToolGranted(j)
      PROVE  checked' = checked
  BY <1>7 DEF ToolGranted
<1>8. ASSUME NEW j \in Requests, RecheckFails(j) \/ ProcessEnds(j) \/ RecordJob(j) \/ WaitsTooLong(j)
      PROVE  UNCHANGED <<admitted, asked, revoked, recheckVars>>
  BY <1>8 DEF RecheckFails, ProcessEnds, RecordJob, Record, WaitsTooLong, registryVars, serviceVars
<1>9. ASSUME NEW k \in Keys, CancelPosition(k)
      PROVE  UNCHANGED <<admitted, asked, recheckVars>>
  BY <1>9 DEF CancelPosition, RegistryCancel, serviceVars
<1>10. ASSUME NEW g \in Games, GameMoves(g)
       PROVE  UNCHANGED <<admitted, asked, revoked, reread, checked, spawned>>
  BY <1>10 DEF GameMoves, allVars, registryVars
<1>11. CASE ClockTicks
  BY <1>11 DEF ClockTicks, Tick, serviceVars, recheckVars
<1> QED
  BY <1>1, <1>2, <1>3, <1>4, <1>5, <1>6, <1>7, <1>8, <1>9, <1>10, <1>11
     DEF ServiceNext, recheckVars, serviceVars

\* What a request was admitted against, or asks for, was read from the database,
\* and no game goes back.
LEMMA ExistedStep ==
    ASSUME ServiceIInv, RecheckInv, [ServiceNext]_everything
    PROVE  Existed'
<1>1. /\ revision \in [Games -> 1 .. MaxRevision]
      /\ admitted \in [Requests -> Keys \cup {None}] /\ asked \in [Requests -> Keys \cup {None}]
      /\ \A g \in Games : revision[g] \in Int
  BY ServiceAssumption DEF ServiceIInv, ServiceTypeOK, RegistryIInv, RegistryTypeOK
<1>2. /\ admitted' \in [Requests -> Keys \cup {None}] /\ asked' \in [Requests -> Keys \cup {None}]
      /\ \A g \in Games : revision'[g] \in Int
  BY ServiceIInvPreserved, ServiceAssumption
     DEF ServiceIInv, ServiceTypeOK, RegistryIInv, RegistryTypeOK
<1>3. \A g \in Games : revision[g] <= revision'[g]
  BY ServiceGoesOn
<1>4. \A k \in Keys : k.game \in Games /\ k.revision \in Int
  BY KeysAssumption
<1>5. ASSUME NEW r \in Requests, admitted'[r] # None
      PROVE  admitted'[r].revision <= revision'[admitted'[r].game]
  <2>1. CASE admitted' = admitted
    BY <1>1, <1>2, <1>3, <1>4, <1>5, <2>1 DEF RecheckInv, Existed
  <2>2. ASSUME NEW q \in Requests, NEW k \in Keys, LoadContext(q, k)
        PROVE  admitted'[r].revision <= revision'[admitted'[r].game]
    <3>1. /\ k.revision = revision[k.game] /\ revision' = revision
          /\ admitted' = [admitted EXCEPT ![q] = k]
      BY <2>2 DEF LoadContext
    <3> QED
      BY <1>1, <1>4, <1>5, <3>1 DEF RecheckInv, Existed
  <2> QED
    BY <2>1, <2>2, WhoWrites
<1>6. ASSUME NEW r \in Requests, asked'[r] # None
      PROVE  asked'[r].revision <= revision'[asked'[r].game]
  <2>1. CASE asked' = asked
    BY <1>1, <1>2, <1>3, <1>4, <1>6, <2>1 DEF RecheckInv, Existed
  <2>2. ASSUME NEW q \in Requests, PostTurn(q)
        PROVE  asked'[r].revision <= revision'[asked'[r].game]
    <3>1. asked' = [asked EXCEPT ![q] = admitted[q]] /\ revision' = revision
      BY <2>2 DEF PostTurn, RegistrySubmit
    <3> QED
      BY <1>1, <1>6, <3>1 DEF RecheckInv, Existed
  <2> QED
    BY <2>1, <2>2, WhoWrites
<1> QED
  BY <1>5, <1>6 DEF Existed

\* A cancel aborts what it revokes.
LEMMA RevokedStep ==
    ASSUME ServiceIInv, RecheckInv, [ServiceNext]_everything
    PROVE  RevokedAborted'
<1>1. \A j \in Requests : aborted[j] => aborted'[j]
  BY ServiceGoesOn DEF GoesOn
<1>2. revoked \in SUBSET Requests /\ revoked' \in SUBSET Requests
  BY ServiceIInvPreserved DEF ServiceIInv, RegistryIInv, RegistryTypeOK
<1>3. CASE revoked' = revoked
  BY <1>1, <1>2, <1>3 DEF RecheckInv, RevokedAborted
<1>4. ASSUME NEW k \in Keys, CancelPosition(k)
      PROVE  RevokedAborted'
  <2>1. revoked' = revoked \cup {jobs[k]} /\ CancelAll({jobs[k]})
    BY <1>4 DEF CancelPosition, RegistryCancel
  <2>2. jobs[k] \in Requests => aborted'[jobs[k]]
    BY <2>1 DEF CancelAll
  <2> QED
    BY <1>1, <1>2, <2>1, <2>2 DEF RecheckInv, RevokedAborted
<1> QED
  BY <1>3, <1>4, WhoWrites

\* Reads are made, and processes started, for running jobs.
LEMMA ReadsStep ==
    ASSUME ServiceIInv, RecheckInv, [ServiceNext]_everything
    PROVE  ReadsAtFront'
<1>1. state' \in [Requests -> {"none", "waiting", "running", "settled"}]
  BY ServiceIInvPreserved DEF ServiceIInv, RegistryIInv, QueueInv, TypeOK
<1>2. reread \in [Requests -> 0 .. MaxRevision]
  BY DEF ServiceIInv, ServiceTypeOK
<1> SUFFICES ASSUME NEW j \in Requests, reread'[j] # 0 \/ j \in spawned'
             PROVE  state'[j] \in {"running", "settled"}
  BY DEF ReadsAtFront
<1>3. state[j] \in {"running", "settled"} => state'[j] \in {"running", "settled"}
  BY <1>1, ServiceGoesOn DEF GoesOn
<1>4. CASE reread'[j] = reread[j] /\ (j \in spawned' => j \in spawned)
  BY <1>3, <1>4 DEF RecheckInv, ReadsAtFront
<1>5. CASE reread'[j] # reread[j]
  <2>1. PICK i \in Requests : DatabaseAnswers(i)
    BY <1>5, WhoWrites
  <2>2. j = i /\ state[i] = "running"
    BY <1>2, <1>5, <2>1 DEF DatabaseAnswers, Rechecking
  <2> QED
    BY <1>3, <2>2
<1>6. CASE j \in spawned' /\ j \notin spawned
  <2>1. PICK i \in Requests : PostTurn(i) \/ Revalidate(i) \/ ToolGranted(i)
    BY <1>6, WhoWrites
  <2>2. CASE PostTurn(i)
    BY <1>6, <2>2 DEF PostTurn
  <2>3. CASE Revalidate(i) \/ ToolGranted(i)
    <3>1. j = i /\ state[i] = "running"
      BY <1>6, <2>3 DEF Revalidate, ToolGranted, Spawn, Rechecking
    <3> QED
      BY <1>3, <3>1
  <2> QED
    BY <2>1, <2>2, <2>3
<1> QED
  BY <1>4, <1>5, <1>6

\* The comparison is made with what was read, which stays.
LEMMA ComparedStep ==
    ASSUME ServiceIInv, RecheckInv, [ServiceNext]_everything
    PROVE  ComparedItsOwn'
<1>1. /\ reread \in [Requests -> 0 .. MaxRevision] /\ checked \in [Requests -> 0 .. MaxRevision]
  BY DEF ServiceIInv, ServiceTypeOK
<1> SUFFICES ASSUME NEW j \in Requests, checked'[j] # 0
             PROVE  reread'[j] # 0 /\ reread'[j] = task'[j].key.revision
  BY DEF ComparedItsOwn
<1>2. reread[j] # 0 => reread'[j] = reread[j] /\ task'[j] = task[j]
  <2>1. reread[j] # 0 => task'[j] = task[j]
    BY ServiceGoesOn DEF GoesOn, RecheckInv, ReadsAtFront
  <2>2. ASSUME NEW i \in Requests, DatabaseAnswers(i)
        PROVE  reread[j] # 0 => reread'[j] = reread[j]
    BY <1>1, <2>2 DEF DatabaseAnswers
  <2> QED
    BY <2>1, <2>2, WhoWrites
<1>3. CASE checked'[j] = checked[j]
  BY <1>2, <1>3 DEF RecheckInv, ComparedItsOwn
<1>4. CASE checked'[j] # checked[j]
  <2>1. PICK i \in Requests : Revalidate(i)
    BY <1>4, WhoWrites
  <2>2. j = i /\ reread[i] # 0 /\ reread[i] = task[i].key.revision
    BY <1>1, <1>4, <2>1 DEF Revalidate
  <2> QED
    BY <1>2, <2>2
<1> QED
  BY <1>3, <1>4

\* A job that has just read its revision is outdated by nobody, because nobody
\* has asked about a position that does not exist yet; and a later request
\* finds the job in the registry and in the queue, and stops it.
LEMMA LaterAskedStep ==
    ASSUME ServiceIInv, RecheckInv, [ServiceNext]_everything
    PROVE  LaterAskedAborts'
<1>1. /\ RegistryIInv /\ QueueInv /\ TurnCovered
      /\ state \in [Requests -> {"none", "waiting", "running", "settled"}]
      /\ reread \in [Requests -> 0 .. MaxRevision]
      /\ asked \in [Requests -> Keys \cup {None}] /\ admitted \in [Requests -> Keys \cup {None}]
      /\ revision \in [Games -> 1 .. MaxRevision]
  BY DEF ServiceIInv, ServiceTypeOK, RegistryIInv, RegistryTypeOK, QueueInv, TypeOK
<1>2. \A k \in Keys : k.game \in Games /\ k.revision \in Nat
  BY KeysAssumption
<1> SUFFICES ASSUME NEW j \in Requests, NEW r \in Requests,
                    state'[j] = "running", reread'[j] # 0, reread'[j] = task'[j].key.revision,
                    Outdates(r, j)'
             PROVE  aborted'[j]
  BY DEF LaterAskedAborts
<1>3. GoesOn(j)
  BY ServiceGoesOn
<1>4. CASE reread'[j] # reread[j]
  <2>1. PICK i \in Requests : DatabaseAnswers(i)
    BY <1>4, WhoWrites
  <2>2. /\ i = j /\ reread'[j] = revision[task[j].key.game]
        /\ UNCHANGED <<task, asked>>
    BY <1>1, <1>4, <2>1 DEF DatabaseAnswers, allVars, vars, lineVars, registryVars
  <2>3. /\ asked[r] \in Keys /\ asked[r].game = task[j].key.game
        /\ asked[r].revision > task[j].key.revision
    BY <1>1, <2>2 DEF Outdates
  <2>4. asked[r].revision <= revision[asked[r].game]
    BY <1>1, <2>3, KeysAssumption DEF RecheckInv, Existed
  <2>5. task[j].key.revision = revision[asked[r].game]
    BY <2>2, <2>3
  <2>6. revision[asked[r].game] \in Int /\ asked[r].revision \in Nat
    BY <1>1, <1>2, <2>3, ServiceAssumption
  <2> QED
    BY <2>3, <2>4, <2>5, <2>6
<1>5. CASE reread'[j] = reread[j]
  <2>1. state[j] = "running" /\ task'[j] = task[j]
    BY <1>1, <1>3, <1>5 DEF GoesOn, RecheckInv, ReadsAtFront
  <2>2. reread[j] # 0 /\ reread[j] = task[j].key.revision
    BY <1>5, <2>1
  <2>3. CASE asked'[r] = asked[r]
    BY <1>3, <2>1, <2>2, <2>3 DEF Outdates, GoesOn, RecheckInv, LaterAskedAborts
  <2>4. CASE asked'[r] # asked[r]
    <3>1. PICK i \in Requests : PostTurn(i)
      BY <2>4, WhoWrites
    <3>2. turn = i /\ RegistrySubmit(i, admitted[i]) /\ admitted[i] \in Keys
      BY <1>1, <3>1, RequestsAssumption DEF PostTurn, TurnCovered
    <3>3. r = i /\ asked'[r] = admitted[i]
      BY <1>1, <2>4, <3>2 DEF RegistrySubmit
    <3>4. admitted[i].game = task[j].key.game /\ task[j].key.revision < admitted[i].revision
      <4>1. task[j].key \in Keys
        BY <1>1, <2>1 DEF QueueInv, Arrivals, Ranks
      <4> QED
        BY <1>2, <2>1, <3>2, <3>3, <4>1 DEF Outdates
    <3>5. /\ task[j].key \in Keys /\ jobs[task[j].key] = j /\ active[task[j].key] = j
          /\ j # None
      BY <1>1, <2>1, RequestsAssumption
         DEF QueueInv, Arrivals, Ranks, OneLiveJobPerKey, RegistryIInv, RegistryMatchesQueue, Live
    <3>6. CASE aborted[j]
      BY <1>3, <3>6 DEF GoesOn
    <3>7. CASE ~ aborted[j]
      <4>1. j \in Superseded(admitted[i])
        BY <3>4, <3>5, <3>7 DEF Superseded
      <4> QED
        BY <1>1, <3>2, <4>1, SubmitGoesOn
    <3> QED
      BY <3>6, <3>7
  <2> QED
    BY <2>3, <2>4
<1> QED
  BY <1>4, <1>5

\* What is doomed stays so: the game does not come back, and what will be read
\* is not the job's own revision.
LEMMA DoomedStays ==
    ASSUME ServiceIInv, RecheckInv, [ServiceNext]_everything, NEW j \in Requests, Doomed(j)
    PROVE  Doomed(j)'
<1>1. /\ QueueInv /\ GoesOn(j)
      /\ \A g \in Games : revision[g] <= revision'[g]
      /\ reread \in [Requests -> 0 .. MaxRevision] /\ checked \in [Requests -> 0 .. MaxRevision]
      /\ revision \in [Games -> 1 .. MaxRevision]
  BY ServiceGoesOn DEF ServiceIInv, ServiceTypeOK, RegistryIInv
<1>2. revision' \in [Games -> 1 .. MaxRevision]
  BY ServiceIInvPreserved DEF ServiceIInv, ServiceTypeOK
<1>3. task[j].key.game \in Games /\ task[j].key.revision \in Nat
  BY <1>1, KeysAssumption DEF Doomed, QueueInv, Arrivals, Ranks
<1>4. state'[j] # "none" /\ task'[j] = task[j]
  BY <1>1 DEF GoesOn, Doomed
<1>5. j \notin spawned'
  <2> SUFFICES ASSUME j \in spawned' PROVE FALSE
    OBVIOUS
  <2>1. PICK i \in Requests : PostTurn(i) \/ Revalidate(i) \/ ToolGranted(i)
    BY WhoWrites DEF Doomed
  <2>2. CASE PostTurn(i)
    BY <1>1, <2>2 DEF PostTurn, RegistrySubmit, QueueInv, Arrivals, Doomed
  <2>3. CASE Revalidate(i)
    BY <2>3 DEF Revalidate, Rechecking, Spawn, Doomed
  <2>4. CASE ToolGranted(i)
    BY <2>4 DEF ToolGranted, Rechecking, Spawn, Doomed
  <2> QED
    BY <2>1, <2>2, <2>3, <2>4
<1>6. CASE state[j] = "settled"
  BY <1>1, <1>4, <1>5, <1>6 DEF GoesOn, Doomed
<1>7. CASE state[j] # "settled"
  <2>1. /\ revision[task[j].key.game] > task[j].key.revision
        /\ reread[j] = 0 \/ reread[j] # task[j].key.revision
        /\ checked[j] = 0
    BY <1>7 DEF Doomed
  <2>2. revision'[task[j].key.game] > task[j].key.revision
    BY <1>1, <1>2, <1>3, <2>1, ServiceAssumption
  <2>3. reread'[j] = 0 \/ reread'[j] # task[j].key.revision
    <3>1. ASSUME NEW i \in Requests, DatabaseAnswers(i)
          PROVE  reread'[j] = reread[j] \/ reread'[j] = revision[task[j].key.game]
      BY <1>1, <3>1 DEF DatabaseAnswers
    <3>2. revision[task[j].key.game] # task[j].key.revision
      BY <1>1, <1>3, <2>1, ServiceAssumption
    <3> QED
      BY <2>1, <3>1, <3>2, WhoWrites
  <2>4. checked'[j] = 0
    <3>1. ASSUME NEW i \in Requests, Revalidate(i)
          PROVE  checked'[j] = checked[j]
      BY <1>1, <2>1, <3>1 DEF Revalidate
    <3> QED
      BY <2>1, <3>1, WhoWrites
  <2> QED
    BY <1>4, <1>5, <2>2, <2>3, <2>4 DEF Doomed
<1> QED
  BY <1>6, <1>7

\* A job that is outrun in line has read nothing and started nothing.
LEMMA LeftStep ==
    ASSUME ServiceIInv, RecheckInv, [ServiceNext]_everything
    PROVE  LeftDoomed'
<1>1. /\ overtaken \in SUBSET Requests /\ ReadsAtFront' /\ ComparedItsOwn'
  BY ReadsStep, ComparedStep DEF ServiceIInv, ServiceTypeOK
<1>2. \A j \in overtaken : Doomed(j)'
  BY <1>1, DoomedStays DEF RecheckInv, LeftDoomed
<1>3. \A j \in Outrun' : Doomed(j)'
  BY <1>1 DEF Outrun, ReadsAtFront, ComparedItsOwn, Doomed
<1>4. overtaken' = overtaken \/ overtaken' = overtaken \cup Outrun'
  BY WhoWrites DEF PostTurn, GameMoves
<1> QED
  BY <1>2, <1>3, <1>4 DEF LeftDoomed

LEMMA RecheckInvPreserved == ServiceIInv /\ RecheckInv /\ [ServiceNext]_everything => RecheckInv'
BY ExistedStep, RevokedStep, ReadsStep, ComparedStep, LaterAskedStep, LeftStep DEF RecheckInv

LEMMA RecheckInvInitial == ServiceInit => RecheckInv
<1> SUFFICES ASSUME ServiceInit PROVE RecheckInv
  OBVIOUS
<1>1. /\ admitted = [r \in Requests |-> None] /\ asked = [r \in Requests |-> None]
      /\ revoked = {} /\ spawned = {} /\ overtaken = {}
      /\ reread = [j \in Requests |-> 0] /\ checked = [j \in Requests |-> 0]
  BY DEF ServiceInit, RegistryInit
<1> QED
  BY <1>1 DEF RecheckInv, Existed, RevokedAborted, ReadsAtFront, ComparedItsOwn, LaterAskedAborts, LeftDoomed

\* What holds of the reads of a job between its admission and its start: it
\* reads the database at the front of the line and not before, and after a
\* read that agrees with its revision a later request finds and aborts it.
THEOREM RecheckInvHolds == ServiceSpec => []RecheckInv
BY RecheckInvInitial, RecheckInvPreserved, ServiceIInvHolds, PTL DEF ServiceSpec

\* A job that waited is looked at behind its last await, on either path.
LEMMA SpawnAfterWaitStep ==
    ASSUME ServiceIInv, RecheckInv, [ServiceNext]_everything, NEW j \in Requests, SpawnsAfterWait(j)
    PROVE  /\ state[j] = "running" /\ ~ aborted[j]
           /\ reread[j] # 0 /\ reread[j] = task[j].key.revision
<1>1. PICK i \in Requests : PostTurn(i) \/ Revalidate(i) \/ ToolGranted(i)
  BY WhoWrites DEF SpawnsAfterWait
<1>2. CASE PostTurn(i)
  <2>1. j = i
    BY <1>2 DEF PostTurn, SpawnsAfterWait
  <2>2. phase[i] = "idle"
    BY <1>2 DEF PostTurn, RegistrySubmit
  <2> QED
    BY <2>1, <2>2 DEF SpawnsAfterWait
<1>3. CASE Revalidate(i)
  BY <1>3 DEF Revalidate, Rechecking, Spawn, SpawnsAfterWait
<1>4. CASE ToolGranted(i)
  BY <1>4 DEF ToolGranted, Rechecking, Spawn, SpawnsAfterWait, RecheckInv, ComparedItsOwn
<1> QED
  BY <1>1, <1>2, <1>3, <1>4

\* Nobody searches behind a player who has moved on and asked again: a job that
\* waited starts no process once a request at a higher revision of its game was
\* submitted, or once it was cancelled, in whichever await that happened.
THEOREM NeverSearchesBehindAlways == ServiceSpec => NeverSearchesBehind
<1>1. ServiceIInv /\ RecheckInv /\ [ServiceNext]_everything
        => [\A j \in Requests : SpawnsAfterWait(j) =>
              /\ \A r \in Requests :
                    ~ (/\ asked[r] # None
                       /\ asked[r].game = task[j].key.game
                       /\ asked[r].revision > task[j].key.revision)
              /\ j \notin revoked]_everything
  <2> SUFFICES ASSUME ServiceIInv, RecheckInv, [ServiceNext]_everything,
                      NEW j \in Requests, SpawnsAfterWait(j)
               PROVE  /\ \A r \in Requests : ~ Outdates(r, j)
                      /\ j \notin revoked
    BY DEF Outdates
  <2>1. /\ state[j] = "running" /\ ~ aborted[j]
        /\ reread[j] # 0 /\ reread[j] = task[j].key.revision
    BY SpawnAfterWaitStep
  <2> QED
    BY <2>1 DEF RecheckInv, RevokedAborted, LaterAskedAborts
<1> QED
  BY <1>1, ServiceIInvHolds, RecheckInvHolds, PTL DEF ServiceSpec, NeverSearchesBehind

\* A position that the game leaves while a job for it stands in line is never
\* searched, for any number of jobs, games and revisions.
THEOREM LeftInLineNeverSpawnsAlways == ServiceSpec => []LeftInLineNeverSpawns
<1>1. RecheckInv => LeftInLineNeverSpawns
  BY DEF RecheckInv, LeftDoomed, Doomed, LeftInLineNeverSpawns
<1> QED
  BY <1>1, RecheckInvHolds, PTL

=============================================================================
