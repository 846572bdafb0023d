----------------------------- MODULE EngineQueue -----------------------------
(***************************************************************************)
(* The compute queue of the HTTP service (service/src/queue.ts).           *)
(*                                                                         *)
(* A request submits a task under a key.  Identical work in flight is      *)
(* shared; otherwise a job is created, which runs at once if a slot is     *)
(* free, or waits in a bounded line served by priority, then by arrival.   *)
(*                                                                         *)
(* JavaScript runs each handler to completion, so one handler is one       *)
(* action.  What does interleave is the order of handlers, of the          *)
(* promise reactions (microtasks) and of the events of the outside world   *)
(* (macrotasks: a closed connection, a timer), which run only when no      *)
(* promise reaction is pending.                                            *)
(*                                                                         *)
(* A job is named after the request that created it: at most one per       *)
(* request.  The line is a set, because the code sorts it before every     *)
(* shift and otherwise only scans it.                                      *)
(***************************************************************************)
EXTENDS Integers, FiniteSets

CONSTANTS
    Requests,      \* the calls of submit that may ever be made
    Keys,          \* the identities of computations
    Priorities,    \* the priorities a task may carry, smaller is served first
    Concurrency,   \* engine processes at once
    MaxWaiting,    \* depth of the line
    WaitDeadline,  \* whether maxWaitMs is finite
    Signals,       \* the state of the signal a caller may pass to submit
    None           \* "no job"

ASSUME RequestsAssumption == IsFiniteSet(Requests) /\ None \notin Requests
ASSUME PrioritiesAssumption == Priorities \subseteq Int
ASSUME LimitsAssumption == Concurrency \in Nat \ {0} /\ MaxWaiting \in Nat \ {0}
ASSUME DeadlineAssumption == WaitDeadline \in BOOLEAN
ASSUME SignalsAssumption == Signals \subseteq {"absent", "live", "aborted"}

VARIABLES
    sequence,   \* #sequence, the next arrival number
    running,    \* #running, the counter of started and unfinished jobs
    waiting,    \* #waiting, the line
    jobs,       \* #jobs, the live job of each key
    task,       \* per job: key, priority and arrival number, fixed at creation
    state,      \* per job: "none", "waiting", "running" or "settled"
    aborted,    \* per job: its AbortController has fired
    refs,       \* per job: its reference count
    announced,  \* per job: the last number of jobs ahead reported to listeners
    outcome,    \* per job: how its promise settled
    phase,      \* per request: "idle", "attached", "answered" or "refused"
    joined,     \* per request: the job whose promise it awaits
    signal,     \* per request: its caller's signal, "absent", "live", "aborted"
    claim       \* per request: #attach has not released its reference

lineVars == <<sequence, running, waiting, jobs, task, state, aborted, refs,
              announced, outcome>>
callerVars == <<phase, joined, signal, claim>>
vars == <<lineVars, callerVars>>

Ranks == [key : Keys, priority : Priorities, sequence : Nat]

TypeOK ==
    /\ sequence \in Nat
    /\ running \in Int
    /\ waiting \in SUBSET Requests
    /\ jobs \in [Keys -> Requests \cup {None}]
    /\ task \in [Requests -> Ranks \cup {None}]
    /\ state \in [Requests -> {"none", "waiting", "running", "settled"}]
    /\ aborted \in [Requests -> BOOLEAN]
    /\ refs \in [Requests -> Int]
    /\ announced \in [Requests -> Nat]
    /\ outcome \in [Requests -> {"pending", "value", "error", "cancelled", "timeout"}]
    /\ phase \in [Requests -> {"idle", "attached", "answered", "refused"}]
    /\ joined \in [Requests -> Requests \cup {None}]
    /\ signal \in [Requests -> {"absent", "live", "aborted"}]
    /\ claim \in [Requests -> BOOLEAN]

Init ==
    /\ sequence = 0
    /\ running = 0
    /\ waiting = {}
    /\ jobs = [k \in Keys |-> None]
    /\ task = [r \in Requests |-> None]
    /\ state = [r \in Requests |-> "none"]
    /\ aborted = [r \in Requests |-> FALSE]
    /\ refs = [r \in Requests |-> 0]
    /\ announced = [r \in Requests |-> 0]
    /\ outcome = [r \in Requests |-> "pending"]
    /\ phase = [r \in Requests |-> "idle"]
    /\ joined = [r \in Requests |-> None]
    /\ signal = [r \in Requests |-> "absent"]
    /\ claim = [r \in Requests |-> FALSE]

-----------------------------------------------------------------------------
(* Order of service                                                        *)

Outranks(a, b) ==
    \/ a.priority < b.priority
    \/ a.priority = b.priority /\ a.sequence < b.sequence

\* How many jobs of the line are served before j.
Ahead(ranks, line, j) ==
    Cardinality({i \in line \ {j} : Outranks(ranks[i], ranks[j])})

\* Mutant of Pump: arrival order only.
PumpFifo(ranks, line, slots) ==
    {j \in line : Cardinality({i \in line : ranks[i].sequence < ranks[j].sequence}) < slots}

\* The jobs that the loop of #pump starts with a number of slots free: each
\* turn sorts the line and shifts its first job.
Pump(ranks, line, slots) == {j \in line : Ahead(ranks, line, j) < slots}

\* Mutant of SyncPositions: a place is told once, when the job joins the line.
SyncNewcomers(ranks, line) ==
    announced' = [j \in Requests |->
                    IF j \in line /\ state[j] # "waiting"
                      THEN Ahead(ranks, line, j) ELSE announced[j]]

\* Every change of the line ends by telling each waiting job its place.
SyncPositions(ranks, line) ==
    announced' = [j \in Requests |->
                    IF j \in line THEN Ahead(ranks, line, j) ELSE announced[j]]

\* No promise reaction is pending: the event loop may take the next event.
Unheard(r) == phase[r] = "attached" /\ outcome[joined[r]] # "pending"
Drained == \A r \in Requests : ~ Unheard(r)

-----------------------------------------------------------------------------
(* submit                                                                  *)

\* Identical work is in flight: share its run.  With a signal that is already
\* aborted the new reference is released on the spot, and a count that drops
\* to zero aborts a controller that has been aborted before.
Join(r, k, s) ==
    /\ jobs[k] # None
    /\ refs' = [refs EXCEPT ![jobs[k]] = IF s = "aborted" THEN @ ELSE @ + 1]
    /\ phase' = [phase EXCEPT ![r] = "attached"]
    /\ joined' = [joined EXCEPT ![r] = jobs[k]]
    /\ signal' = [signal EXCEPT ![r] = s]
    /\ claim' = [claim EXCEPT ![r] = s # "aborted"]
    /\ UNCHANGED <<sequence, running, waiting, jobs, task, state, aborted,
                   announced, outcome>>

\* Mutant of Refuse: a ceiling one too low.
RefuseEarly(r, k, s) ==
    /\ jobs[k] = None
    /\ Cardinality(waiting) >= MaxWaiting - 1
    /\ phase' = [phase EXCEPT ![r] = "refused"]
    /\ signal' = [signal EXCEPT ![r] = s]
    /\ UNCHANGED <<lineVars, joined, claim>>

\* The line is at its ceiling: QueueFullError, and nothing is created.
Refuse(r, k, s) ==
    /\ jobs[k] = None
    /\ Cardinality(waiting) >= MaxWaiting
    /\ phase' = [phase EXCEPT ![r] = "refused"]
    /\ signal' = [signal EXCEPT ![r] = s]
    /\ UNCHANGED <<lineVars, joined, claim>>

\* A new job joins the line and the line is pumped.  A caller whose signal is
\* already aborted releases its reference before submit returns, which aborts
\* the job it has just created: a waiting job is abandoned, one that started
\* is told to stop.
Create(r, k, p, s) ==
    LET rank == [key |-> k, priority |-> p, sequence |-> sequence]
        ranks == [task EXCEPT ![r] = rank]
        line == waiting \cup {r}
        started == Pump(ranks, line, Concurrency - running)
        given == s = "aborted"
        dropped == IF given THEN {r} \ started ELSE {}
        left == (line \ started) \ dropped
    IN  /\ jobs[k] = None
        /\ Cardinality(waiting) < MaxWaiting
        /\ sequence' = sequence + 1
        /\ task' = ranks
        /\ running' = running + Cardinality(started)
        /\ waiting' = left
        /\ state' = [j \in Requests |->
                       CASE j \in started -> "running"
                         [] j \in dropped -> "settled"
                         [] j \in left -> "waiting"
                         [] OTHER -> state[j]]
        /\ jobs' = [jobs EXCEPT ![k] = IF dropped = {} THEN r ELSE None]
        /\ refs' = [refs EXCEPT ![r] = IF given THEN 0 ELSE 1]
        /\ aborted' = [aborted EXCEPT ![r] = given]
        /\ outcome' = [outcome EXCEPT ![r] = IF dropped = {} THEN "pending"
                                                             ELSE "cancelled"]
        /\ SyncPositions(ranks, left)
        /\ phase' = [phase EXCEPT ![r] = "attached"]
        /\ joined' = [joined EXCEPT ![r] = r]
        /\ signal' = [signal EXCEPT ![r] = s]
        /\ claim' = [claim EXCEPT ![r] = ~ given]

Submit(r, k, p, s) ==
    /\ phase[r] = "idle"
    /\ \/ Join(r, k, s)
       \/ Refuse(r, k, s)
       \/ Create(r, k, p, s)

-----------------------------------------------------------------------------
(* Leaving the queue                                                       *)

\* Mutant of Abandon: the map entry stays.
AbandonKeepsEntry(j, why) ==
    /\ waiting' = waiting \ {j}
    /\ state' = [state EXCEPT ![j] = "settled"]
    /\ outcome' = [outcome EXCEPT ![j] = why]
    /\ jobs' = jobs
    /\ SyncPositions(task, waiting \ {j})

\* #abandon: a job that is still waiting gives its place back at once.
Abandon(j, why) ==
    /\ waiting' = waiting \ {j}
    /\ state' = [state EXCEPT ![j] = "settled"]
    /\ outcome' = [outcome EXCEPT ![j] = why]
    /\ jobs' = [jobs EXCEPT ![task[j].key] = IF @ = j THEN None ELSE @]
    /\ SyncPositions(task, waiting \ {j})

\* The abort of a job's controller: the listener that submit installed drops
\* a waiting job, a running one only sees its signal.
AbortJob(j) ==
    /\ aborted' = [aborted EXCEPT ![j] = TRUE]
    /\ IF state[j] = "waiting"
         THEN Abandon(j, "cancelled")
         ELSE UNCHANGED <<waiting, state, outcome, jobs, announced>>

\* cancel(key), for the owner of the job: whatever its references.
Cancel(k) ==
    /\ jobs[k] # None
    /\ ~ aborted[jobs[k]]
    /\ AbortJob(jobs[k])
    /\ UNCHANGED <<sequence, running, task, refs, callerVars>>

\* Mutant of LastReference: the count is read before it is decremented.
LastButOne(j) == refs[j] - 1 <= 1

\* The reference that goes is the last one.
LastReference(j) == refs[j] - 1 <= 0

\* A caller goes away.  Its reference is released on the job that is now live
\* under its key, and the last reference to go aborts that job.
CallerAborts(r) ==
    LET j == jobs[task[joined[r]].key]
    IN  /\ Drained
        /\ signal[r] = "live"
        /\ phase[r] = "attached" \/ phase[r] = "answered"
        /\ signal' = [signal EXCEPT ![r] = "aborted"]
        /\ claim' = [claim EXCEPT ![r] = FALSE]
        /\ IF ~ claim[r] \/ j = None
             THEN UNCHANGED lineVars
             ELSE /\ refs' = [refs EXCEPT ![j] = @ - 1]
                  /\ IF LastReference(j) /\ ~ aborted[j]
                       THEN AbortJob(j)
                       ELSE UNCHANGED <<aborted, waiting, state, outcome, jobs,
                                        announced>>
                  /\ UNCHANGED <<sequence, running, task>>
        /\ UNCHANGED <<phase, joined>>

\* The wait timer that #beginWaiting armed fires.
WaitTimeout(j) ==
    /\ WaitDeadline
    /\ Drained
    /\ state[j] = "waiting"
    /\ Abandon(j, "timeout")
    /\ UNCHANGED <<sequence, running, task, aborted, refs, callerVars>>

\* The run of a job settles, with a value or an error: finish() frees the slot,
\* drops the map entry, pumps and tells positions, then the promise settles.
Complete(j, result) ==
    LET started == Pump(task, waiting, Concurrency - (running - 1))
        left == waiting \ started
    IN  /\ state[j] = "running"
        /\ running' = running - 1 + Cardinality(started)
        /\ waiting' = left
        /\ state' = [i \in Requests |->
                       CASE i = j -> "settled"
                         [] i \in started -> "running"
                         [] OTHER -> state[i]]
        /\ jobs' = [jobs EXCEPT ![task[j].key] = IF @ = j THEN None ELSE @]
        /\ outcome' = [outcome EXCEPT ![j] = result]
        /\ SyncPositions(task, left)
        /\ UNCHANGED <<sequence, task, aborted, refs, callerVars>>

\* Mutant of Hear: the reference outlives the run.
HearKeepsClaim(r) ==
    /\ Unheard(r)
    /\ phase' = [phase EXCEPT ![r] = "answered"]
    /\ UNCHANGED <<lineVars, joined, signal, claim>>

\* The promise reaction of one caller: it hears the outcome and its reference
\* can no longer be released, lest that abort a fresh run under the same key.
Hear(r) ==
    /\ Unheard(r)
    /\ phase' = [phase EXCEPT ![r] = "answered"]
    /\ claim' = [claim EXCEPT ![r] = FALSE]
    /\ UNCHANGED <<lineVars, joined, signal>>

-----------------------------------------------------------------------------

Arrive == \E r \in Requests, k \in Keys, p \in Priorities :
            \E s \in Signals : Submit(r, k, p, s)
Finish == \E j \in Requests, result \in {"value", "error"} : Complete(j, result)

Next ==
    \/ Arrive
    \/ \E k \in Keys : Cancel(k)
    \/ \E r \in Requests : CallerAborts(r)
    \/ \E j \in Requests : WaitTimeout(j)
    \/ Finish
    \/ \E r \in Requests : Hear(r)

Spec == Init /\ [][Next]_vars

-----------------------------------------------------------------------------
(* Safety                                                                  *)

Live(j) == state[j] \in {"waiting", "running"}

\* BOUNDED RUNNING and BOUNDED WAITING (queue.ts header): the counter the
\* queue decides by is the number of jobs that really run, at most
\* `concurrency` of them, and the line never outgrows `maxWaiting`.
Bounded ==
    /\ running = Cardinality({j \in Requests : state[j] = "running"})
    /\ running <= Concurrency
    /\ waiting = {j \in Requests : state[j] = "waiting"}
    /\ Cardinality(waiting) <= MaxWaiting

\* No slot is idle while a job waits: every event that frees a slot pumps.
WorkConserving == waiting # {} => running = Concurrency

\* Deduplication: the map holds exactly the live jobs, so no two live jobs
\* share a key, and neither abandoning nor finishing a job un-registers the
\* fresh job that took its key.
OneLiveJobPerKey ==
    /\ \A j \in Requests : Live(j) => jobs[task[j].key] = j
    /\ \A k \in Keys : jobs[k] # None => Live(jobs[k]) /\ task[jobs[k]].key = k

\* Jobs are numbered in the order they arrived, and a request that has not
\* been made owns no job.
Arrivals ==
    /\ \A r \in Requests : phase[r] = "idle" => state[r] = "none"
    /\ \A j \in Requests : state[j] # "none" =>
          task[j] \in Ranks /\ task[j].sequence < sequence
    /\ \A i, j \in Requests :
          (i # j /\ state[i] # "none" /\ state[j] # "none")
             => task[i].sequence # task[j].sequence

\* A claim is a claim on a job that was created.
Claims == \A r \in Requests : claim[r] => joined[r] \in Requests /\ state[joined[r]] # "none"

\* The inductive invariant: no part of it is preserved by every operation
\* without the others.
QueueInv == TypeOK /\ Arrivals /\ Claims /\ Bounded /\ WorkConserving /\ OneLiveJobPerKey

\* The reference count of a live job is the number of callers that hold a
\* claim on it: a release that comes after the run is over never reaches the
\* count of a fresh run with the same key.
RefsExact ==
    \A j \in Requests : Live(j) =>
        refs[j] = Cardinality({r \in Requests : joined[r] = j /\ claim[r]})

\* OBSERVED: the number of jobs ahead that a waiting caller was last told is a
\* fact about the line at this instant, whatever joined or left it since.
AnnouncedIsFact == \A j \in waiting : announced[j] = Ahead(task, waiting, j)

\* ORDERED: a job that starts outranks every job it leaves behind in the line.
ServedInOrder ==
    [][\A i, j \in Requests :
          (state[i] # "running" /\ state'[i] = "running" /\ j \in waiting')
             => Outranks(task'[i], task'[j])]_vars

\* QueueFullError is reported only when every slot is busy and the line is full.
RefusedOnlyWhenSaturated ==
    [][\A r \in Requests :
          (phase[r] # "refused" /\ phase'[r] = "refused")
             => running = Concurrency /\ Cardinality(waiting) = MaxWaiting]_vars

\* A caller that goes away never aborts a job on which another caller still
\* holds a claim (the doc of submit: "One player navigating away must not
\* cancel the analysis their opponent is watching").
DepartureSparesOthers ==
    [][\A r, j \in Requests :
          (signal[r] # "aborted" /\ signal'[r] = "aborted"
             /\ ~ aborted[j] /\ aborted'[j])
             => ~ \E other \in Requests \ {r} : joined[other] = j /\ claim[other]]_vars

\* A caller who is still interested is on a run that goes on.  The queue does
\* not promise it: whoever submits the key of a run that is being stopped is
\* attached to that run, and fails with its cancellation.
InterestedCallerKeepsRun ==
    \A r \in Requests :
        (phase[r] = "attached" /\ signal[r] # "aborted") => ~ aborted[joined[r]]

-----------------------------------------------------------------------------
(* Refinement                                                              *)

\* The queue is a priority pool: a request that created a job stands where
\* that job stands, one that joined another's job never arrives.
Pool == INSTANCE PriorityPool WITH
    Jobs <- Requests,
    Capacity <- Concurrency,
    LineLimit <- MaxWaiting,
    place <- [r \in Requests |-> IF phase[r] = "refused" THEN "refused" ELSE state[r]],
    better <- {pair \in Requests \X Requests :
                  /\ state[pair[1]] # "none"
                  /\ state[pair[2]] # "none"
                  /\ Outranks(task[pair[1]], task[pair[2]])}

\* The promise of the header of queue.ts (bounded running, ordered, bounded
\* waiting), as one abstract specification that every step of the queue obeys.
ImplementsPool == Pool!PoolSpec
=============================================================================
