------------------------- MODULE EngineRunnerProofs -------------------------
(***************************************************************************)
(* Proofs about one engine process and the run that waits for it, whatever *)
(* signal the caller passes.                                               *)
(***************************************************************************)
EXTENDS EngineRunner, TLAPS

\* What may still ask the process to stop.
One(condition) == IF condition THEN 1 ELSE 0
StopsToCome == One(timer) + One(signal = "live") + One(~ overflowed)

\* The inductive invariant.  That no more than four graces ever run at once
\* needs that each cause of a stop occurs once; what a settled run leaves
\* behind needs nothing but itself.
RunnerInv == NoProcessLeftBehind /\ graces + StopsToCome <= 4

-----------------------------------------------------------------------------
(* The parts of the type invariant: flags, labels and the number of graces *)

Flags ==
    /\ killed \in BOOLEAN
    /\ termed \in BOOLEAN
    /\ overflowed \in BOOLEAN
    /\ timer \in BOOLEAN
    /\ listening \in BOOLEAN

Labels ==
    /\ child \in {"none", "alive", "exited", "closed", "failed"}
    /\ code \in {"none", "ok", "bad", "signal"}
    /\ output \in {"none", "answer", "rejection", "garbage"}
    /\ outcome \in {"running", "timeout", "cancelled"}
    /\ signal \in {"absent", "live", "aborted"}
    /\ writing \in {"done", "failed"}
    /\ result \in {"pending", "answer", "cancelled", "timeout", "failure"}

LEMMA TypeParts == TypeOK <=> Flags /\ Labels /\ graces \in 0 .. 4
BY Zenon DEF TypeOK, Flags, Labels

LEMMA OneType == \A b : One(b) \in {0, 1}
BY DEF One

LEMMA FlagsKept == Flags /\ [Next]_vars => Flags'
BY Zenon DEF Flags, Next, vars, TimerFires, CallerAborts, Overflow, GraceEnds, SpawnFails,
   Writes, Exits, Closes, StopProcess

LEMMA LabelsKept == Labels /\ [Next]_vars => Labels'
BY DEF Labels, Next, vars, TimerFires, CallerAborts, Overflow, GraceEnds, SpawnFails,
   Writes, Exits, Closes, Verdict

LEMMA Balance ==
    ASSUME NEW g \in Nat, NEW a \in {0, 1}, NEW b \in {0, 1}, NEW c \in {0, 1},
           NEW h, NEW i \in {0, 1}, NEW j \in {0, 1}, NEW k \in {0, 1},
           g + (a + b + c) <= 4,
           \/ h = g /\ i = a /\ j = b /\ k = c
           \/ h = g - 1 /\ g > 0 /\ i = a /\ j = b /\ k = c
           \/ h \in {g, g + 1} /\ a = 1 /\ i = 0 /\ j = b /\ k = c
           \/ h \in {g, g + 1} /\ i = a /\ b = 1 /\ j = 0 /\ k = c
           \/ h \in {g, g + 1} /\ i = a /\ j = b /\ c = 1 /\ k = 0
           \/ h = g /\ i = 0 /\ j = b /\ k = c
    PROVE  h \in 0 .. 4 /\ h + (i + j + k) <= 4
OBVIOUS

\* A step with one more grace uses up one cause; no other step adds a grace.
LEMMA GracesKept ==
    ASSUME RunnerInv, [Next]_vars
    PROVE  graces' \in 0 .. 4 /\ graces' + StopsToCome' <= 4
<1> DEFINE a == One(timer)
           b == One(signal = "live")
           c == One(~ overflowed)
<1>1. /\ graces \in Nat /\ graces + (a + b + c) <= 4
      /\ a \in {0, 1} /\ b \in {0, 1} /\ c \in {0, 1}
      /\ a' \in {0, 1} /\ b' \in {0, 1} /\ c' \in {0, 1}
  BY OneType, TypeParts DEF RunnerInv, NoProcessLeftBehind, StopsToCome
<1>2. \/ graces' = graces /\ a' = a /\ b' = b /\ c' = c
      \/ graces' = graces - 1 /\ graces > 0 /\ a' = a /\ b' = b /\ c' = c
      \/ graces' \in {graces, graces + 1} /\ a = 1 /\ a' = 0 /\ b' = b /\ c' = c
      \/ graces' \in {graces, graces + 1} /\ a' = a /\ b = 1 /\ b' = 0 /\ c' = c
      \/ graces' \in {graces, graces + 1} /\ a' = a /\ b' = b /\ c = 1 /\ c' = 0
      \/ graces' = graces /\ a' = 0 /\ b' = b /\ c' = c
  <2>1. CASE TimerFires
    BY <2>1, Zenon DEF TimerFires, StopProcess, One
  <2>2. CASE CallerAborts
    <3>1. signal = "live" /\ ~ (signal' = "live")
      BY <2>2 DEF CallerAborts
    <3> QED
      BY <2>2, <3>1, Zenon DEF CallerAborts, StopProcess, One
  <2>3. CASE Overflow
    BY <2>3, Zenon DEF Overflow, StopProcess, One
  <2>4. CASE GraceEnds
    <3>1. graces' = graces - 1 /\ graces > 0 /\ UNCHANGED <<timer, signal, overflowed>>
      BY <2>4, Zenon DEF GraceEnds
    <3> QED
      BY <3>1, Zenon
  <2>5. CASE SpawnFails \/ Closes
    <3>1. UNCHANGED <<graces, signal, overflowed>> /\ (timer' = timer \/ ~ timer')
      BY <2>5, Zenon DEF SpawnFails, Closes
    <3>2. b' = b /\ c' = c
      BY <3>1, Zenon
    <3>3. CASE timer' = timer
      BY <3>1, <3>2, <3>3, Zenon
    <3>4. CASE ~ timer'
      <4>1. a' = 0
        BY <3>4, Zenon DEF One
      <4> QED
        BY <3>1, <3>2, <4>1
    <3> QED
      BY <3>1, <3>3, <3>4, Zenon
  <2>6. CASE \/ \E what \in {"answer", "rejection", "garbage"} : Writes(what)
             \/ \E how \in {"ok", "bad", "signal"} : Exits(how)
             \/ UNCHANGED vars
    <3>1. UNCHANGED <<graces, timer, signal, overflowed>>
      BY <2>6, Zenon DEF Writes, Exits, vars
    <3> QED
      BY <3>1, Zenon
  <2> QED
    BY <2>1, <2>2, <2>3, <2>4, <2>5, <2>6 DEF Next
<1> QED
  BY <1>1, <1>2, Balance DEF StopsToCome

LEMMA SettledStaysSafe ==
    ASSUME Flags, Labels, [Next]_vars, result # "pending" => child # "alive" \/ killed
    PROVE  result' # "pending" => child' # "alive" \/ killed'
<1>1. CASE GraceEnds
  BY <1>1, Zenon DEF GraceEnds
<1>2. CASE SpawnFails \/ Closes
  BY <1>2 DEF SpawnFails, Closes
<1>3. CASE \E how \in {"ok", "bad", "signal"} : Exits(how)
  BY <1>3 DEF Exits
<1>4. CASE UNCHANGED <<result, child, killed>>
  BY <1>4
<1> QED
  BY <1>1, <1>2, <1>3, <1>4, Zenon
     DEF Next, vars, TimerFires, CallerAborts, Overflow, Writes

LEMMA InitRunnerInv == Init => RunnerInv
<1> SUFFICES ASSUME Init PROVE RunnerInv
  OBVIOUS
<1>1. Flags
  BY Zenon DEF Init, Flags
<1>2. Labels
  BY SignalsAssumption DEF Init, Labels
<1>3. result # "pending" => child # "alive"
  BY DEF Init
<1>4. graces \in {0, 1}
  BY Zenon DEF Init
<1>5. graces \in 0 .. 4 /\ graces + StopsToCome <= 4
  BY <1>4, OneType DEF StopsToCome
<1> QED
  BY <1>1, <1>2, <1>3, <1>5, TypeParts DEF RunnerInv, NoProcessLeftBehind

LEMMA StepRunnerInv == RunnerInv /\ [Next]_vars => RunnerInv'
<1> SUFFICES ASSUME RunnerInv, [Next]_vars PROVE RunnerInv'
  OBVIOUS
<1>1. Flags /\ Labels /\ (result # "pending" => child # "alive" \/ killed)
  BY TypeParts, Zenon DEF RunnerInv, NoProcessLeftBehind
<1>2. Flags' /\ Labels'
  BY <1>1, FlagsKept, LabelsKept
<1>3. graces' \in 0 .. 4 /\ graces' + StopsToCome' <= 4
  BY GracesKept
<1>4. TypeOK'
  BY <1>2, <1>3, Zenon DEF TypeOK, Flags, Labels
<1>5. result' # "pending" => child' # "alive" \/ killed'
  BY <1>1, SettledStaysSafe
<1> QED
  BY <1>3, <1>4, <1>5, Zenon DEF RunnerInv, NoProcessLeftBehind

-----------------------------------------------------------------------------
(* The theorems                                                            *)

\* When a run settles its process is gone or has been sent SIGKILL, whatever
\* stopped it and in whatever order it wrote, exited and was told to stop.
THEOREM NoProcessIsLeftBehind == Spec => []NoProcessLeftBehind
<1>1. RunnerInv => NoProcessLeftBehind
  BY DEF RunnerInv
<1> QED
  BY <1>1, InitRunnerInv, StepRunnerInv, PTL DEF Spec

LEMMA SettlingStep ==
    ASSUME RunnerInv, [Next]_vars,
           result = "pending", result' # "pending", writing = "done", child = "exited"
    PROVE  outcome # "running" <=> result' \in {"timeout", "cancelled"}
<1>1. outcome \in {"running", "timeout", "cancelled"}
  BY TypeParts DEF RunnerInv, NoProcessLeftBehind, Labels
<1>2. CASE Closes
  <2>1. result' = Verdict
    BY <1>2 DEF Closes
  <2>2. CASE outcome # "running"
    <3>1. Verdict = outcome
      BY <2>2 DEF Verdict
    <3> QED
      BY <1>1, <2>1, <2>2, <3>1
  <2>3. CASE outcome = "running"
    <3>1. Verdict \in {"failure", "answer"}
      BY <2>3, Zenon DEF Verdict
    <3> QED
      BY <2>1, <2>3, <3>1
  <2> QED
    BY <2>2, <2>3
<1>3. CASE UNCHANGED result
  BY <1>3
<1>4. CASE SpawnFails \/ GraceEnds
  BY <1>4 DEF SpawnFails, GraceEnds
<1> QED
  BY <1>2, <1>3, <1>4, Zenon
     DEF Next, vars, TimerFires, CallerAborts, Overflow, Writes, Exits

\* A run that was told to stop before it settled reports that, and no other
\* run does.
THEOREM StopIsAlwaysReported == Spec => StopIsReported
<1>1. RunnerInv /\ [Next]_vars =>
        [(result = "pending" /\ result' # "pending" /\ writing = "done" /\ child = "exited")
           => (outcome # "running" <=> result' \in {"timeout", "cancelled"})]_vars
  BY SettlingStep
<1> QED
  BY <1>1, InitRunnerInv, StepRunnerInv, PTL DEF Spec, StopIsReported
=============================================================================
