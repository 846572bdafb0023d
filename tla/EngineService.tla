---------------------------- MODULE EngineService ----------------------------
(***************************************************************************)
(* The POST handlers of the service (service/src/app.ts) over the registry *)
(* and the queue: a request reads the position from the database, proves   *)
(* its revision, takes a slot of its account unless the work exists, and   *)
(* submits a job; a job that had to wait reads the position again.         *)
(*                                                                         *)
(* A request keeps what it read across the awaits before its last turn.    *)
(* In that turn inspecting the registry, taking the slot and submitting    *)
(* happen without an await; only the clock may move between them, because  *)
(* each reads Date.now() for itself.                                       *)
(***************************************************************************)
EXTENDS JobRegistry

CONSTANTS
    Users,
    UserOf,       \* the account that makes each request
    SlotsOf,      \* per kind, the jobs one account may have in flight
    MaxRevision,  \* bound of the revisions of a game
    TicksInTurn   \* whether Date.now() may move within one turn

ASSUME ServiceAssumption ==
    /\ UserOf \in [Requests -> Users]
    /\ SlotsOf \in [Kinds -> Nat \ {0}]
    /\ MaxRevision \in Nat \ {0}
    /\ TicksInTurn \in BOOLEAN

VARIABLES
    revision,  \* the revision of each game in the database
    admitted,  \* per request: the key of the position it read and proved
    turn,      \* the request that has inspected and not yet submitted
    held,      \* #held: the slots each account holds of each kind
    holds,     \* per request: holdsSlot
    reread,    \* per job that waited: the revision the database answered, or 0
    checked,   \* per job that waited: the revision of its game when what the
               \* database answered was found to be its own (history), or 0
    spawned,   \* the jobs whose engine process was started
    overtaken  \* the jobs whose game was past them while they stood in line
               \* (history)

recheckVars == <<reread, checked, spawned, overtaken>>
serviceVars == <<revision, admitted, turn, held, holds, recheckVars>>
everything == <<allVars, serviceVars>>

ServiceTypeOK ==
    /\ revision \in [Games -> 1 .. MaxRevision]
    /\ admitted \in [Requests -> Keys \cup {None}]
    /\ turn \in Requests \cup {None}
    /\ held \in [Users \X Kinds -> Nat]
    /\ holds \in [Requests -> BOOLEAN]
    /\ reread \in [Requests -> 0 .. MaxRevision]
    /\ checked \in [Requests -> 0 .. MaxRevision]
    /\ spawned \in SUBSET Requests
    /\ overtaken \in SUBSET Requests

ServiceInit ==
    /\ RegistryInit
    /\ revision = [g \in Games |-> 1]
    /\ admitted = [r \in Requests |-> None]
    /\ turn = None
    /\ held = [slot \in Users \X Kinds |-> 0]
    /\ holds = [r \in Requests |-> FALSE]
    /\ reread = [j \in Requests |-> 0]
    /\ checked = [j \in Requests |-> 0]
    /\ spawned = {}
    /\ overtaken = {}

-----------------------------------------------------------------------------
(* Slots                                                                   *)

Slot(r) == <<UserOf[r], admitted[r].kind>>

\* tryAcquire
TryAcquire(r) ==
    /\ held[Slot(r)] < SlotsOf[admitted[r].kind]
    /\ held' = [held EXCEPT ![Slot(r)] = @ + 1]
    /\ holds' = [holds EXCEPT ![r] = TRUE]

\* releaseSlot: at most once per request, and never below zero.
ReleaseSlot(r) ==
    IF holds[r]
      THEN /\ held' = [held EXCEPT ![Slot(r)] = IF @ <= 1 THEN 0 ELSE @ - 1]
           /\ holds' = [holds EXCEPT ![r] = FALSE]
      ELSE UNCHANGED <<held, holds>>

-----------------------------------------------------------------------------
(* A request                                                               *)

\* The database answers: the caller asked about the position that exists.
LoadContext(r, k) ==
    /\ turn = None
    /\ phase[r] = "idle"
    /\ admitted[r] = None
    /\ k.revision = revision[k.game]
    /\ admitted' = [admitted EXCEPT ![r] = k]
    /\ UNCHANGED <<allVars, revision, turn, held, holds, recheckVars>>

\* registry.inspect finds a result or a live job.
Known(k) == Hit(k) \/ active[k] # None

\* The last turn of the handler begins: what exists is joined without a slot.
Inspected(r) ==
    /\ turn = None
    /\ phase[r] = "idle"
    /\ admitted[r] # None
    /\ cache' = ReadCache(admitted[r])
    /\ IF Known(admitted[r]) THEN UNCHANGED <<held, holds>> ELSE TryAcquire(r)
    /\ turn' = r
    /\ UNCHANGED <<vars, active, waited, recorded, watching, asked, revoked, now,
                   revision, admitted, recheckVars>>

\* No slot is free: TooManyAnalysesError or BotInProgressError.
TooMany(r) ==
    /\ turn = None
    /\ phase[r] = "idle"
    /\ admitted[r] # None
    /\ ~ Known(admitted[r])
    /\ held[Slot(r)] >= SlotsOf[admitted[r].kind]
    /\ cache' = ReadCache(admitted[r])
    /\ phase' = [phase EXCEPT ![r] = "refused"]
    /\ UNCHANGED <<lineVars, joined, signal, claim, active, waited, recorded, watching,
                   asked, revoked, now, serviceVars>>

\* The jobs in line for a position that their game has left.
Outrun == {j \in Requests : state[j] = "waiting" /\ revision[task[j].key.game] > task[j].key.revision}

\* Mutant of PostTurn: the handler gives the slot back when it hands the
\* answer over to a stream.
PostTurnReleases(r) ==
    /\ turn = r
    /\ RegistrySubmit(r, admitted[r])
    /\ turn' = None
    /\ ReleaseSlot(r)
    /\ spawned' = IF state'[r] = "running" THEN spawned \cup {r} ELSE spawned
    /\ UNCHANGED <<revision, admitted, reread, checked>>
    /\ overtaken' = overtaken \cup Outrun'

\* The turn ends with runQueued: a job that starts at once spawns its process
\* in this turn, a request whose job is shared gives its slot back.
PostTurn(r) ==
    /\ turn = r
    /\ RegistrySubmit(r, admitted[r])
    /\ turn' = None
    /\ IF joined'[r] # r /\ holds[r]
         THEN ReleaseSlot(r)
         ELSE UNCHANGED <<held, holds>>
    /\ spawned' = IF state'[r] = "running" THEN spawned \cup {r} ELSE spawned
    /\ UNCHANGED <<revision, admitted, reread, checked>>
    /\ overtaken' = overtaken \cup Outrun'

\* Mutant of AnswerRequest: the slot is kept.
AnswerKeepsSlot(r) ==
    /\ turn = None
    /\ Answer(r)
    /\ UNCHANGED serviceVars

\* The promise reaction of a request that started or joined a job.
AnswerRequest(r) ==
    /\ turn = None
    /\ Answer(r)
    /\ ReleaseSlot(r)
    /\ UNCHANGED <<revision, admitted, turn, recheckVars>>

\* The promise reaction of a request whose job the queue refused.
RefuseRequest(r) ==
    /\ turn = None
    /\ phase[r] = "refused"
    /\ holds[r]
    /\ ReleaseSlot(r)
    /\ UNCHANGED <<allVars, revision, admitted, turn, recheckVars>>

-----------------------------------------------------------------------------
(* A job that waited has reached the front                                 *)

\* It has been told to run, and has started no process yet.
Rechecking(j) == state[j] = "running" /\ j \in waited /\ j \notin spawned

\* Mutant of DatabaseAnswers: the position is read while the job is in line.
DatabaseAnswersEarly(j) ==
    /\ turn = None
    /\ state[j] = "waiting" \/ Rechecking(j)
    /\ reread[j] = 0
    /\ reread' = [reread EXCEPT ![j] = revision[task[j].key.game]]
    /\ UNCHANGED <<allVars, revision, admitted, turn, held, holds, checked, spawned, overtaken>>

\* The database reads the position for the job; its answer is under way.
DatabaseAnswers(j) ==
    /\ turn = None
    /\ Rechecking(j)
    /\ reread[j] = 0
    /\ reread' = [reread EXCEPT ![j] = revision[task[j].key.game]]
    /\ UNCHANGED <<allVars, revision, admitted, turn, held, holds, checked, spawned, overtaken>>

\* Mutant of Spawn: what became of the job during the awaits is not looked at.
SpawnRegardless(j) == spawned' = spawned \cup {j} /\ UNCHANGED allVars

\* The process starts, unless the job was aborted during the awaits.
Spawn(j) ==
    IF aborted[j]
      THEN Complete(j, "error") /\ UNCHANGED <<registryVars, spawned>>
      ELSE spawned' = spawned \cup {j} /\ UNCHANGED allVars

\* The answer arrives and is compared with the revision of admission.  A bot
\* turn starts its process at once; an analysis asks the database once more,
\* whether the tool is granted, and lets go of the event loop.
Revalidate(j) ==
    LET key == task[j].key
    IN  /\ turn = None
        /\ Rechecking(j)
        /\ reread[j] # 0 /\ checked[j] = 0
        /\ IF reread[j] = key.revision
             THEN /\ checked' = [checked EXCEPT ![j] = revision[key.game]]
                  /\ IF key.kind = "bot" THEN Spawn(j) ELSE UNCHANGED <<allVars, spawned>>
             ELSE /\ Complete(j, "error")
                  /\ UNCHANGED <<registryVars, checked, spawned>>
        /\ UNCHANGED <<revision, admitted, turn, held, holds, reread, overtaken>>

\* The tool is granted: requireAnalysisTool returns.
ToolGranted(j) ==
    /\ turn = None
    /\ Rechecking(j)
    /\ checked[j] # 0
    /\ Spawn(j)
    /\ UNCHANGED <<revision, admitted, turn, held, holds, reread, checked, overtaken>>

\* A read fails, or what was read rules the job out: the game is over or
\* drawing, the tool is not granted, or the turn is no longer the caller's.
RecheckFails(j) ==
    /\ turn = None
    /\ Rechecking(j)
    /\ Complete(j, "error")
    /\ UNCHANGED <<registryVars, serviceVars>>

-----------------------------------------------------------------------------
(* The end of a job                                                        *)

\* The process has ended.
ProcessEnds(j) ==
    /\ turn = None
    /\ j \in spawned
    /\ \E result \in {"value", "error"} : Complete(j, result)
    /\ UNCHANGED <<registryVars, serviceVars>>

RecordJob(j) ==
    /\ turn = None
    /\ Record(j)
    /\ UNCHANGED serviceVars

\* maxWaitMs is over before the job has reached the front.
WaitsTooLong(j) ==
    /\ turn = None
    /\ RegistryDrained
    /\ WaitTimeout(j)
    /\ UNCHANGED <<registryVars, serviceVars>>

-----------------------------------------------------------------------------
(* The world                                                               *)

\* POST .../cancel, for the position that exists.
CancelPosition(k) ==
    /\ turn = None
    /\ k.kind # "bot"
    /\ k.revision = revision[k.game]
    /\ RegistryCancel(k)
    /\ UNCHANGED serviceVars

\* A player moves.
GameMoves(g) ==
    /\ turn = None
    /\ revision[g] < MaxRevision
    /\ revision' = [revision EXCEPT ![g] = @ + 1]
    /\ UNCHANGED <<allVars, admitted, turn, held, holds, reread, checked, spawned>>
    /\ overtaken' = overtaken \cup Outrun'

ClockTicks ==
    /\ turn = None \/ TicksInTurn
    /\ Tick
    /\ UNCHANGED serviceVars

ServiceNext ==
    \/ \E r \in Requests, k \in Keys : LoadContext(r, k)
    \/ \E r \in Requests : Inspected(r) \/ TooMany(r) \/ PostTurn(r)
    \/ \E r \in Requests : AnswerRequest(r) \/ RefuseRequest(r)
    \/ \E j \in Requests : DatabaseAnswers(j) \/ Revalidate(j) \/ ToolGranted(j) \/ RecheckFails(j)
    \/ \E j \in Requests : ProcessEnds(j) \/ RecordJob(j) \/ WaitsTooLong(j)
    \/ \E k \in Keys : CancelPosition(k)
    \/ \E g \in Games : GameMoves(g)
    \/ ClockTicks

ServiceSpec == ServiceInit /\ [][ServiceNext]_everything

\* What the event loop owes a request: a turn that has begun ends, and the
\* reaction to its answer runs.
RequestProceeds(r) == PostTurn(r) \/ AnswerRequest(r) \/ RefuseRequest(r)

\* What a job is owed: the database answers every read, the engine runner ends
\* every process, and the event loop runs the reactions to both.
JobProceeds(j) ==
    \/ DatabaseAnswers(j) \/ Revalidate(j) \/ ToolGranted(j)
    \/ ProcessEnds(j) \/ RecordJob(j)

ServiceFairness ==
    /\ \A r \in Requests : WF_everything(RequestProceeds(r))
    /\ \A j \in Requests : WF_everything(JobProceeds(j))

FairServiceSpec == ServiceSpec /\ ServiceFairness
-----------------------------------------------------------------------------
(* Properties                                                              *)

\* The counters of ConcurrencyLimit are the requests that hold a slot, and a
\* live job is covered by the slot of the request that started it for as long
\* as it is queued, running or being killed.
SlotCoversJob ==
    /\ \A u \in Users, kind \in Kinds :
          held[<<u, kind>>] =
              Cardinality({r \in Requests : /\ holds[r]
                                            /\ UserOf[r] = u
                                            /\ admitted[r].kind = kind})
    /\ \A j \in Requests : Live(j) => holds[j]

\* A position that the game leaves while a job for it stands in line is never
\* searched: the job reads the position when it has reached the front, not
\* before, and what it reads then decides.
LeftInLineNeverSpawns == overtaken \cap spawned = {}

\* The step in which a job that had waited starts its process.  A job that did
\* not wait starts it in the turn of the request that submitted it.
SpawnsAfterWait(j) == phase[j] # "idle" /\ j \notin spawned /\ j \in spawned'

\* Nobody searches behind a player who has moved on and asked again: a job that
\* waited starts no process once any request at a higher revision of its game
\* was submitted, or once it was cancelled, at whatever moment between its
\* admission and its start.  Before the database has read the position for it
\* the comparison sees to it, afterwards the supersession and the look at the
\* signal behind the last await.
NeverSearchesBehind ==
    [][\A j \in Requests : SpawnsAfterWait(j) =>
          /\ \A r \in Requests :
                ~ (/\ asked[r] # None
                   /\ asked[r].game = task[j].key.game
                   /\ asked[r].revision > task[j].key.revision)
          /\ j \notin revoked]_everything

\* "Re-checked at the moment the job actually starts" (the doc of revalidate
\* in runQueued): the game has not moved between the comparison of its revision
\* and the start.  For an analysis it may, while requireAnalysisTool waits.
CheckedAsItStarts ==
    [][\A j \in Requests :
          SpawnsAfterWait(j) => checked'[j] = revision[task[j].key.game]]_everything

\* Every slot is given back, whatever became of the job.
EverySlotReleased == \A r \in Requests : holds[r] ~> ~ holds[r]
=============================================================================
