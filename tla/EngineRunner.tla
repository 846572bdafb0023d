---------------------------- MODULE EngineRunner ----------------------------
(***************************************************************************)
(* One engine process and the run that waits for it (runEngineRaw in       *)
(* service/src/engineRunner.ts).                                           *)
(*                                                                         *)
(* The process answers on its standard output and exits when it likes; a   *)
(* timer, the caller's signal and an oversized answer each ask it to stop, *)
(* with SIGTERM and, after a grace, SIGKILL.  The run settles in the turn  *)
(* of the close event: what the process said, what asked it to stop and    *)
(* how it exited may have happened in any order by then.                   *)
(***************************************************************************)
EXTENDS Integers

CONSTANT Signals  \* the state of the caller's signal at the call

ASSUME SignalsAssumption == Signals \subseteq {"absent", "live", "aborted"}

VARIABLES
    child,      \* "none", "alive", "exited" (not yet closed), "closed", "failed"
    code,       \* how it exited: "none", "ok", "bad" or "signal"
    killed,     \* SIGKILL has been sent
    termed,     \* SIGTERM has been sent
    graces,     \* calls of stopProcess that wait out their grace
    output,     \* what it wrote: "none", "answer", "rejection", "garbage"
    overflowed, \* the answer grew beyond maxResponseBytes
    outcome,    \* state.outcome: "running", "timeout" or "cancelled"
    timer,      \* the timeout is armed
    listening,  \* the abort listener is installed
    signal,     \* the caller's signal
    writing,    \* "done", or "failed" when the request could not be written
    result      \* "pending", "answer", "cancelled", "timeout" or "failure"

vars == <<child, code, killed, termed, graces, output, overflowed, outcome,
          timer, listening, signal, writing, result>>

TypeOK ==
    /\ child \in {"none", "alive", "exited", "closed", "failed"}
    /\ code \in {"none", "ok", "bad", "signal"}
    /\ {killed, termed, overflowed, timer, listening} \subseteq BOOLEAN
    /\ graces \in 0 .. 4
    /\ output \in {"none", "answer", "rejection", "garbage"}
    /\ outcome \in {"running", "timeout", "cancelled"}
    /\ signal \in {"absent", "live", "aborted"}
    /\ writing \in {"done", "failed"}
    /\ result \in {"pending", "answer", "cancelled", "timeout", "failure"}

\* The call: a signal that is already aborted spawns nothing, otherwise the
\* process is spawned, the timer armed and the listener installed; then the
\* request is written, which may throw.
Init ==
    /\ signal \in Signals
    /\ writing \in {"done", "failed"}
    /\ child = IF signal = "aborted" THEN "none" ELSE "alive"
    /\ result = IF signal = "aborted" THEN "cancelled" ELSE "pending"
    /\ timer = (signal # "aborted")
    /\ listening = (signal = "live")
    /\ termed = (signal # "aborted" /\ writing = "failed")
    /\ graces = IF termed THEN 1 ELSE 0
    /\ code = "none"
    /\ killed = FALSE
    /\ output = "none"
    /\ overflowed = FALSE
    /\ outcome = "running"

-----------------------------------------------------------------------------
(* Stopping the process                                                    *)

\* stopProcess: nothing is sent to a process that has exited.
StopProcess ==
    IF child = "alive"
      THEN termed' = TRUE /\ graces' = graces + 1
      ELSE UNCHANGED <<termed, graces>>

TimerFires ==
    /\ timer
    /\ timer' = FALSE
    /\ outcome' = "timeout"
    /\ StopProcess
    /\ UNCHANGED <<child, code, killed, output, overflowed, listening, signal, writing, result>>

CallerAborts ==
    /\ signal = "live"
    /\ signal' = "aborted"
    /\ listening' = FALSE
    /\ IF listening
         THEN outcome' = "cancelled" /\ StopProcess
         ELSE UNCHANGED <<outcome, termed, graces>>
    /\ UNCHANGED <<child, code, killed, output, overflowed, timer, writing, result>>

\* The answer exceeds its bound: nothing more of it is kept.
Overflow ==
    /\ child \in {"alive", "exited"}
    /\ ~ overflowed
    /\ overflowed' = TRUE
    /\ StopProcess
    /\ UNCHANGED <<child, code, killed, output, outcome, timer, listening, signal, writing, result>>

\* Mutant of GraceEnds: the process is trusted to heed SIGTERM.
GraceTrusts ==
    /\ graces > 0
    /\ graces' = graces - 1
    /\ result' = IF writing = "failed" /\ result = "pending" THEN "failure" ELSE result
    /\ UNCHANGED <<killed, child, code, termed, output, overflowed, outcome, timer,
                   listening, signal, writing>>

\* A grace is over: the process is killed unless it has exited.  The run whose
\* request could not be written waits for its own grace and no longer.
GraceEnds ==
    /\ graces > 0
    /\ graces' = graces - 1
    /\ killed' = (killed \/ child = "alive")
    /\ result' = IF writing = "failed" /\ result = "pending" THEN "failure" ELSE result
    /\ UNCHANGED <<child, code, termed, output, overflowed, outcome, timer, listening,
                   signal, writing>>

-----------------------------------------------------------------------------
(* The process                                                             *)

\* It could not be spawned: the error event rejects the wait.
SpawnFails ==
    /\ child = "alive"
    /\ output = "none" /\ code = "none" /\ ~ overflowed
    /\ child' = "failed"
    /\ IF writing = "done"
         THEN result' = "failure" /\ timer' = FALSE /\ listening' = FALSE
         ELSE UNCHANGED <<result, timer, listening>>
    /\ UNCHANGED <<code, killed, termed, graces, output, overflowed, outcome, signal, writing>>

\* It writes what it has to say.
Writes(what) ==
    /\ child = "alive"
    /\ output = "none"
    /\ output' = what
    /\ UNCHANGED <<child, code, killed, termed, graces, overflowed, outcome, timer,
                   listening, signal, writing, result>>

\* It exits by itself, well or badly, or by the signal it was sent.
Exits(how) ==
    /\ child = "alive"
    /\ how = "signal" => termed \/ killed
    /\ child' = "exited"
    /\ code' = how
    /\ UNCHANGED <<killed, termed, graces, output, overflowed, outcome, timer, listening,
                   signal, writing, result>>

\* Mutant of Verdict: the exit code is looked at first.
VerdictByExit ==
    IF code = "ok" /\ outcome # "running" THEN outcome
    ELSE IF code = "ok" /\ ~ overflowed /\ output = "answer" THEN "answer"
    ELSE "failure"

\* What the run makes of a closed process: what asked it to stop counts before
\* how it exited, and that before what it wrote.
Verdict ==
    IF outcome # "running" THEN outcome
    ELSE IF ~ overflowed /\ code = "ok" /\ output = "answer" THEN "answer"
    ELSE "failure"

\* The close event settles the run, unless its request could not be written:
\* that run does not wait for the process.
Closes ==
    /\ child = "exited"
    /\ child' = "closed"
    /\ IF writing = "done"
         THEN result' = Verdict /\ timer' = FALSE /\ listening' = FALSE
         ELSE UNCHANGED <<result, timer, listening>>
    /\ UNCHANGED <<code, killed, termed, graces, output, overflowed, outcome, signal, writing>>

Next ==
    \/ TimerFires
    \/ CallerAborts
    \/ Overflow
    \/ GraceEnds
    \/ SpawnFails
    \/ \E what \in {"answer", "rejection", "garbage"} : Writes(what)
    \/ \E how \in {"ok", "bad", "signal"} : Exits(how)
    \/ Closes

Spec == Init /\ [][Next]_vars

\* Timers fire, events are delivered, and a process that was killed dies; one
\* that was only asked to stop may never heed it.
Fairness ==
    /\ WF_vars(TimerFires)
    /\ WF_vars(GraceEnds)
    /\ WF_vars(Closes)
    /\ WF_vars(killed /\ Exits("signal"))

FairSpec == Spec /\ Fairness
-----------------------------------------------------------------------------
(* Properties                                                              *)

\* When a run settles its process is gone or has been sent SIGKILL: the slot
\* that the queue frees at this moment is a processor that is really free.
NoProcessLeftBehind ==
    /\ TypeOK
    /\ result # "pending" => child # "alive" \/ killed

\* A run that was cancelled or ran out of time before it settled says so: it
\* neither returns the answer that arrived meanwhile nor blames the engine for
\* the signal it was sent.
StopIsReported ==
    [][(result = "pending" /\ result' # "pending" /\ writing = "done" /\ child = "exited")
          => (outcome # "running" <=> result' \in {"timeout", "cancelled"})]_vars

\* Every run settles, however wedged its process: this is what lets the queue
\* count on a slot being freed.
EveryRunSettles == <>(result # "pending")
=============================================================================
