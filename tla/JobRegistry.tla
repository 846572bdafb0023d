----------------------------- MODULE JobRegistry -----------------------------
(***************************************************************************)
(* The job registry (service/src/jobRegistry.ts) over the compute queue.   *)
(*                                                                         *)
(* The registry owns the jobs: callers observe them, and observing or      *)
(* leaving never starts or stops a search.  It remembers completed results *)
(* for a while in a bounded least-recently-used cache, and it retires the  *)
(* jobs of a game that a request at a higher revision proves outdated.     *)
(*                                                                         *)
(* A registry call and the queue calls it makes run in one turn of the     *)
(* event loop, so each is one action over the variables of both.  The      *)
(* registry passes no signal to the queue.  Its own bookkeeping of a       *)
(* settled job runs one promise reaction later (Record): in between, the   *)
(* queue has forgotten the job and the registry has not.                   *)
(***************************************************************************)
EXTENDS EngineQueue, Sequences

CONSTANTS
    Games,       \* the games of the database
    Kinds,       \* what is asked about a position: "bot" or a level of analysis
    PriorityOf,  \* the priority of each kind
    TtlOf,       \* how long a result of each kind is served
    MaxCached,   \* results remembered
    MaxTime      \* bound of the clock

ASSUME KeysAssumption ==
    Keys \subseteq [game : Games, revision : Nat, kind : Kinds] /\ None \notin Keys
ASSUME KindsAssumption == PriorityOf \in [Kinds -> Priorities] /\ TtlOf \in [Kinds -> Nat]
ASSUME RegistryLimits == MaxCached \in Nat \ {0} /\ MaxTime \in Nat

VARIABLES
    active,     \* #active: the job the registry holds under each key
    waited,     \* the jobs whose onQueued has fired
    recorded,   \* the jobs whose settlement the registry has processed
    cache,      \* #cache: completed results, least recently used first
    watching,   \* the requests that observe the job they joined
    asked,      \* the key each request asked for
    revoked,    \* the jobs that were cancelled explicitly (history)
    now         \* Date.now()

registryVars == <<active, waited, recorded, cache, watching, asked, revoked, now>>
allVars == <<vars, registryVars>>

Entries == [key : Keys, job : Requests, at : 0 .. MaxTime]

RegistryTypeOK ==
    /\ active \in [Keys -> Requests \cup {None}]
    /\ waited \in SUBSET Requests
    /\ recorded \in SUBSET Requests
    /\ cache \in Seq(Entries)
    /\ watching \in SUBSET Requests
    /\ asked \in [Requests -> Keys \cup {None}]
    /\ revoked \in SUBSET Requests
    /\ now \in 0 .. MaxTime

RegistryInit ==
    /\ Init
    /\ active = [k \in Keys |-> None]
    /\ waited = {}
    /\ recorded = {}
    /\ cache = <<>>
    /\ watching = {}
    /\ asked = [r \in Requests |-> None]
    /\ revoked = {}
    /\ now = 0

-----------------------------------------------------------------------------
(* The cache                                                               *)

Expired(entry) == now - entry.at >= TtlOf[entry.key.kind]

Remembered(k) == {i \in DOMAIN cache : cache[i].key = k}
Hit(k) == \E i \in Remembered(k) : ~ Expired(cache[i])

\* The entries at the positions I, in their order.
Kept(I) ==
    LET kept[i \in 0 .. Len(cache)] ==
          IF i = 0 THEN <<>>
          ELSE IF i \in I THEN Append(kept[i - 1], cache[i]) ELSE kept[i - 1]
    IN  kept[Len(cache)]

Without(k) == Kept(DOMAIN cache \ Remembered(k))

\* Mutant of ReadCache: an expired entry is kept and merely not served.
ReadCacheLazily(k) ==
    IF Hit(k) THEN Append(Without(k), cache[CHOOSE i \in Remembered(k) : TRUE]) ELSE cache

\* #readCache: an expired entry goes, one that is served becomes the most
\* recently used.
ReadCache(k) ==
    IF Hit(k) THEN Append(Without(k), cache[CHOOSE i \in Remembered(k) : TRUE])
              ELSE Without(k)

\* #evictOverflow: the least recently used entries go.
EvictOverflow(entries) ==
    IF Len(entries) > MaxCached
      THEN SubSeq(entries, Len(entries) - MaxCached + 1, Len(entries))
      ELSE entries

\* Map.set: a key that is still in the map keeps its place in the order.
Remember(k, entry) ==
    EvictOverflow(IF Remembered(k) = {}
                    THEN Append(cache, entry)
                    ELSE [i \in DOMAIN cache |-> IF cache[i].key = k THEN entry ELSE cache[i]])

-----------------------------------------------------------------------------
(* Settlement, as the registry sees it                                     *)

\* The promise of a job has settled: its run did, it was abandoned, or the
\* queue was full and rejected it at once.
Settled(j) == phase[j] = "refused" \/ outcome[j] # "pending"

Unrecorded(j) == j \notin recorded /\ Settled(j) /\ \E k \in Keys : active[k] = j
Unanswered(r) == phase[r] = "attached" /\ Settled(joined[r])
RegistryDrained ==
    /\ Drained
    /\ \A j \in Requests : ~ Unrecorded(j) /\ ~ Unanswered(j)

-----------------------------------------------------------------------------
(* Submitting                                                              *)

\* Mutant of Superseded: requests at the same revision retire each other.
SupersededOrSame(k) ==
    {jobs[other] : other \in
        {o \in Keys : /\ active[o] # None /\ jobs[o] # None
                      /\ o.game = k.game /\ o.revision <= k.revision
                      /\ ~ aborted[jobs[o]]}}

\* #cancelSuperseded: the live jobs of the game at a lower revision that the
\* queue still knows.
Superseded(k) ==
    {jobs[other] : other \in
        {o \in Keys : /\ active[o] # None /\ jobs[o] # None
                      /\ o.game = k.game /\ o.revision < k.revision
                      /\ ~ aborted[jobs[o]]}}

\* Mutant of JobsWithout: a job that is abandoned keeps its key.
JobsKept(S) == jobs

\* The line and the map after the waiting jobs among S were abandoned.
LineWithout(S) == waiting \ S
JobsWithout(S) == [o \in Keys |-> IF jobs[o] \in S \cap waiting THEN None ELSE jobs[o]]

\* queue.cancel of every job of S, and nothing more for the queue to do.
CancelAll(S) ==
    /\ aborted' = [j \in Requests |-> aborted[j] \/ j \in S]
    /\ waiting' = LineWithout(S)
    /\ jobs' = JobsWithout(S)
    /\ state' = [j \in Requests |-> IF j \in S \cap waiting THEN "settled" ELSE state[j]]
    /\ outcome' = [j \in Requests |-> IF j \in S \cap waiting THEN "cancelled" ELSE outcome[j]]
    /\ SyncPositions(task, LineWithout(S))
    /\ UNCHANGED <<sequence, running, task, refs>>

\* Neither a served result nor a job in flight: the key must be computed.
NothingKnown(k) == ~ Hit(k) /\ active[k] = None

\* Mutant of ToldToWait: listeners are told of the line before it is pumped.
ToldOnEntry(r, left) == waited \cup {r}

\* onQueued reaches the registry when the pump has left the job in the line.
ToldToWait(r, left) == IF r \in left THEN waited \cup {r} ELSE waited

\* The answer is remembered: it is served and nothing is started.
ServeCached(r, k) ==
    /\ Hit(k)
    /\ CancelAll(Superseded(k))
    /\ cache' = ReadCache(k)
    /\ phase' = [phase EXCEPT ![r] = "answered"]
    /\ joined' = [joined EXCEPT ![r] = cache[CHOOSE i \in Remembered(k) : TRUE].job]
    /\ UNCHANGED <<claim, active, waited, recorded, watching>>

\* #observe: the job is in flight, or has settled and is not yet recorded.
Observe(r, k) ==
    /\ ~ Hit(k)
    /\ active[k] # None
    /\ CancelAll(Superseded(k))
    /\ cache' = ReadCache(k)
    /\ phase' = [phase EXCEPT ![r] = "attached"]
    /\ joined' = [joined EXCEPT ![r] = active[k]]
    /\ watching' = watching \cup {r}
    /\ UNCHANGED <<claim, active, waited, recorded>>

\* #start with a full queue: the registry holds a job whose promise is already
\* rejected.
StartRefused(r, k) ==
    LET S == Superseded(k)
    IN  /\ NothingKnown(k)
        /\ Cardinality(LineWithout(S)) >= MaxWaiting
        /\ CancelAll(S)
        /\ cache' = ReadCache(k)
        /\ active' = [active EXCEPT ![k] = r]
        /\ phase' = [phase EXCEPT ![r] = "refused"]
        /\ joined' = [joined EXCEPT ![r] = r]
        /\ UNCHANGED <<claim, waited, recorded, watching>>

\* #start: the queue creates the job.  The jobs that were superseded in the
\* same turn have left the line before the newcomer joins it.
Start(r, k) ==
    LET S == Superseded(k)
        ranks == [task EXCEPT ![r] = [key |-> k, priority |-> PriorityOf[k.kind],
                                      sequence |-> sequence]]
        line == LineWithout(S) \cup {r}
        started == Pump(ranks, line, Concurrency - running)
        left == line \ started
    IN  /\ NothingKnown(k)
        /\ Cardinality(LineWithout(S)) < MaxWaiting
        /\ sequence' = sequence + 1
        /\ task' = ranks
        /\ running' = running + Cardinality(started)
        /\ waiting' = left
        /\ jobs' = [JobsWithout(S) EXCEPT ![k] = r]
        /\ state' = [j \in Requests |->
                       CASE j \in started -> "running"
                         [] j \in left -> "waiting"
                         [] j \in S \cap waiting -> "settled"
                         [] OTHER -> state[j]]
        /\ outcome' = [j \in Requests |-> IF j \in S \cap waiting THEN "cancelled" ELSE outcome[j]]
        /\ aborted' = [j \in Requests |-> aborted[j] \/ j \in S]
        /\ refs' = [refs EXCEPT ![r] = 1]
        /\ SyncPositions(ranks, left)
        /\ cache' = ReadCache(k)
        /\ active' = [active EXCEPT ![k] = r]
        /\ waited' = ToldToWait(r, left)
        /\ phase' = [phase EXCEPT ![r] = "attached"]
        /\ joined' = [joined EXCEPT ![r] = r]
        /\ claim' = [claim EXCEPT ![r] = TRUE]
        /\ watching' = watching \cup {r}
        /\ UNCHANGED recorded

\* submit, the POST path.
RegistrySubmit(r, k) ==
    /\ phase[r] = "idle"
    /\ asked' = [asked EXCEPT ![r] = k]
    /\ \/ ServeCached(r, k)
       \/ Observe(r, k)
       \/ StartRefused(r, k)
       \/ Start(r, k)
    /\ UNCHANGED <<signal, revoked, now>>

-----------------------------------------------------------------------------
(* The other calls                                                         *)

\* attach, the reconnect path: it starts nothing and cancels nothing.
Attach(r, k) ==
    /\ phase[r] = "idle"
    /\ cache' = ReadCache(k)
    /\ \/ /\ Hit(k)
          /\ phase' = [phase EXCEPT ![r] = "answered"]
          /\ joined' = [joined EXCEPT ![r] = cache[CHOOSE i \in Remembered(k) : TRUE].job]
          /\ UNCHANGED watching
       \/ /\ ~ Hit(k) /\ active[k] # None
          /\ phase' = [phase EXCEPT ![r] = "attached"]
          /\ joined' = [joined EXCEPT ![r] = active[k]]
          /\ watching' = watching \cup {r}
    /\ UNCHANGED <<lineVars, signal, claim, active, waited, recorded, asked, revoked, now>>

\* inspect, and an attach that finds nothing: only the cache is touched.
Inspect(k) ==
    /\ cache' = ReadCache(k)
    /\ UNCHANGED <<vars, active, waited, recorded, watching, asked, revoked, now>>

\* detach: a page that closed.  The job goes on with nobody watching.
Detach(r) ==
    /\ r \in watching
    /\ watching' = watching \ {r}
    /\ UNCHANGED <<vars, active, waited, recorded, cache, asked, revoked, now>>

\* Mutant of RegistryCancel: the registry forgets the job at once.
CancelForgets(k) ==
    /\ active[k] # None
    /\ jobs[k] # None
    /\ ~ aborted[jobs[k]]
    /\ CancelAll({jobs[k]})
    /\ revoked' = revoked \cup {jobs[k]}
    /\ active' = [active EXCEPT ![k] = None]
    /\ UNCHANGED <<callerVars, waited, recorded, cache, watching, asked, now>>

\* cancel: the only way a player stops a job.
RegistryCancel(k) ==
    /\ active[k] # None
    /\ jobs[k] # None
    /\ ~ aborted[jobs[k]]
    /\ CancelAll({jobs[k]})
    /\ revoked' = revoked \cup {jobs[k]}
    /\ UNCHANGED <<callerVars, active, waited, recorded, cache, watching, asked, now>>

\* Mutant of Record: a rejection has no handler.
RecordValuesOnly(j) ==
    /\ Unrecorded(j)
    /\ recorded' = recorded \cup {j}
    /\ IF outcome[j] = "value"
         THEN /\ active' = [k \in Keys |-> IF active[k] = j THEN None ELSE active[k]]
              /\ cache' = LET k == asked[j] IN Remember(k, [key |-> k, job |-> j, at |-> now])
         ELSE UNCHANGED <<active, cache>>
    /\ UNCHANGED <<vars, waited, watching, asked, revoked, now>>

\* The registry's own promise reaction: the job is no longer active, and a
\* value, never a failure, is remembered.
Record(j) ==
    /\ Unrecorded(j)
    /\ recorded' = recorded \cup {j}
    /\ active' = [k \in Keys |-> IF active[k] = j THEN None ELSE active[k]]
    /\ cache' = LET k == asked[j]
                IN  IF outcome[j] = "value"
                      THEN Remember(k, [key |-> k, job |-> j, at |-> now])
                      ELSE cache
    /\ UNCHANGED <<vars, waited, watching, asked, revoked, now>>

\* The promise reaction of an observer.
Answer(r) ==
    /\ Unanswered(r)
    /\ phase' = [phase EXCEPT ![r] = "answered"]
    /\ claim' = [claim EXCEPT ![r] = FALSE]
    /\ UNCHANGED <<lineVars, joined, signal, registryVars>>

\* sweep, on a timer.
Sweep ==
    /\ RegistryDrained
    /\ cache' = Kept({i \in DOMAIN cache : ~ Expired(cache[i])})
    /\ UNCHANGED <<vars, active, waited, recorded, watching, asked, revoked, now>>

\* The queue's own events.
QueueSettles ==
    /\ \/ \E j \in Requests, result \in {"value", "error"} : Complete(j, result)
       \/ RegistryDrained /\ \E j \in Requests : WaitTimeout(j)
    /\ UNCHANGED registryVars

Tick ==
    /\ now < MaxTime
    /\ now' = now + 1
    /\ UNCHANGED <<vars, active, waited, recorded, cache, watching, asked, revoked>>

RegistryNext ==
    \/ \E r \in Requests, k \in Keys : RegistrySubmit(r, k) \/ Attach(r, k)
    \/ \E k \in Keys : Inspect(k) \/ RegistryCancel(k)
    \/ \E r \in Requests : Detach(r) \/ Record(r) \/ Answer(r)
    \/ Sweep
    \/ QueueSettles
    \/ Tick

RegistrySpec == RegistryInit /\ [][RegistryNext]_allVars

-----------------------------------------------------------------------------
(* Properties                                                              *)

\* The registry and the queue agree on what is live: a live job is held under
\* its key, and what the registry holds is live or about to be recorded.  It
\* follows that a start never finds the key taken in the queue.
RegistryMatchesQueue ==
    /\ \A j \in Requests : Live(j) => active[task[j].key] = j
    /\ \A k \in Keys : active[k] # None =>
          \/ Live(active[k]) /\ task[active[k]].key = k
          \/ Unrecorded(active[k]) /\ asked[active[k]] = k

\* The cache holds at most maxCached results, one per key, and each is the
\* value of a finished run for that key: never a failure, a cancellation or
\* an answer to another question.
CacheSound ==
    /\ Len(cache) <= MaxCached
    /\ \A i, h \in DOMAIN cache : i # h => cache[i].key # cache[h].key
    /\ \A i \in DOMAIN cache : /\ outcome[cache[i].job] = "value"
                               /\ task[cache[i].job].key = cache[i].key


\* "Instead of paying for the same search twice": nothing is computed for a
\* key while a result for it is still served.
NotComputedWhileServed ==
    \A k \in Keys : Hit(k) => ~ \E j \in Requests : Live(j) /\ task[j].key = k

\* The queue and the registry together keep these facts: they agree on what is
\* live, what is remembered is the value of a run for its key, and a key is
\* either computed or served.
RegistryInv ==
    /\ RegistryTypeOK
    /\ QueueInv
    /\ RegistryMatchesQueue
    /\ CacheSound
    /\ NotComputedWhileServed

\* A result is never put over an older one of the same key, which would leave
\* the fresh result in the old one's place in the eviction order.
NeverOverwritten ==
    [][\A j \in Requests :
          (j \notin recorded /\ j \in recorded' /\ outcome[j] = "value")
             => Remembered(asked[j]) = {}]_allVars

\* PAGE LIFETIME # ENGINE JOB LIFETIME: what stops a job is an explicit cancel
\* or a request for the same game at a higher revision, never an observer that
\* left, another game, or a request at the same or a lower revision.
OnlyUsefulnessStops ==
    \A j \in Requests : aborted[j] =>
        \/ j \in revoked
        \/ \E r \in Requests : /\ asked[r] # None
                               /\ asked[r].game = task[j].key.game
                               /\ asked[r].revision > task[j].key.revision

\* A run is told whether its job stood in line, whatever the order in which
\* the line, the listeners and the run were called.
WaitedIsTruth ==
    [][\A j \in Requests :
          (state[j] # "running" /\ state'[j] = "running")
             => (j \in waited' <=> state[j] = "waiting")]_allVars

\* Every job the registry holds is let go, and every observer is answered.
EveryJobLetGo ==
    /\ \A r \in Requests : (phase[r] = "attached") ~> (phase[r] = "answered")
    /\ \A j \in Requests : (\E k \in Keys : active[k] = j) ~> (\A k \in Keys : active[k] # j)
=============================================================================
