# A verification project for the engine and its service

The repository plays a two-player crossword game of equations. A C++ engine
(`src/src`) chooses moves; a Node service (`src/service/src`) runs the engine
as a child process for the players of a game server, under limits on processor
time, accounts and stale work. This directory holds TLA+ modules for the parts
of both that carry control: what is queued, shared, cancelled, remembered and
billed in the service; in the engine, how one request becomes one answer, how
an end-game is proved, how a search spends its work, how a game evolves, what
makes a line of tiles an equation, how placements are enumerated and how replies
are found without enumerating them anew. TLC checks the modules on small
instances, and TLAPS proves the invariants of the service, of the rules of the
game, of the newer search and of a request with its end-game proof for every
instance. `PROJECT.json` maps each definition to the lines it models.

To check a run: `tlc -workers 2 -config <cfg> <module>`. To check the proofs:
`tlapm <module>` for `Induction` and each module named `...Proofs`.

## The system

| part | code | state | operations |
|---|---|---|---|
| compute queue | `service/src/queue.ts` | counter of running jobs, line, live job per key, reference counts | `submit`, `#attach` and its release, `cancel`, `#abandon`, `#start`, `#pump` |
| job registry | `service/src/jobRegistry.ts` | active job per key, remembered results (TTL and LRU) | `submit`, `attach`, `inspect`, `cancel`, `sweep`, settlement |
| metering | `service/src/rateLimit.ts` | one fixed window per account; slots per account and kind | `charge`, `refund`, `sweep`; `tryAcquire`, `release` |
| request handlers | `service/src/app.ts` | slots held by requests, revision a request read | POST of a bot turn or analysis, cancel, `runQueued` |
| engine runner | `service/src/engineRunner.ts` | child, timer, listener, outcome | spawn, stop and kill, verdict on close |
| shutdown | `service/src/server.ts` | | closes the listener, then exits |
| canonical state, rooms, study, configuration | `service/src/*.ts` | none that changes | readers, checks and tables |
| game mechanics | `src/state_transition.cpp`, `world_deck.cpp`, `selfplay.hpp` | board, racks, bag, pending returns, scores, streak | place, exchange, pass, refill, endings, hidden worlds |
| decision search | `src/decision_search.cpp` | policy, world, race, ledger, stop reason | root generation, worlds, observations, verdict |
| work ledger | `src/work_ledger.hpp` | spent calls, nodes and worlds under an envelope | reserve, commit, discard |
| paired race | `src/paired_race.cpp` | measurements per candidate, active candidates | commit a batch, eliminate, compare |
| engine request | `src/engine.cpp` | root moves, candidates, sums of samples, answer | parse, generate, prove, settle at once, rank, admit, sample, choose, report, validate |
| end-game proof | `src/engine.cpp`, `HiddenBagSolver`, `solveHiddenEndgame` | node count, table of positions, guarantees per option | search of an option in a world, the two passes, the outcome |
| rules of a line | `src/rational.hpp`, `rules.hpp` | structure of a line read so far | advance, evaluate, validate |
| board | `src/board.hpp`, `rules.cpp`, `inc_board.hpp` | tiles; cross checks, contacts, anchors, hash | validate and score a placement; make, undo |
| move generation | `src/movegen.cpp` | node count, moves found | enumeration across and down, under options and limits |
| replies and root moves | `src/reply_index.cpp`, `root_catalogue.cpp`, `selectRootScope` | an index per board | build, recover after a candidate; catalogue of root actions, choice of the few that are searched |
| evaluation | `src/eval.cpp` | none | pure sums of weights |

How they interact. A handler reads the revision of a game from the database,
takes a slot of the account, charges its budget and submits to the registry.
The registry answers from its cache or its active jobs, or cancels what the
newer revision has made useless and submits to the queue. The queue starts the
run or puts it in line; a run that waited reads the revision again, and spawns
the engine through the runner. The engine process is one request: `EngineRequest`
for a bot's turn, `DecisionSearch` for the newer search. What the run settles with goes, in later promise
reactions, to the registry (which remembers values) and to the handler (which
releases the slot and, on failure, undoes the charge). Inside the engine both
searches enumerate root moves with the generator, which asks the rules of a
line for every prefix it builds and the incremental board for what a column
allows. The one proves an end-game in every possible bag or else compares
candidates on common samples; the other deals hidden worlds, plays each
candidate in them by the rules of the game, and stops by its ledger or race.

### What is hard

* **Order of handlers.** One turn of the event loop is atomic; what interleaves
  is turns, promise reactions and outside events. The queue forgets a job one
  reaction before the registry does; a position may change at every `await`.
* **Who decides a job's end.** Its process, its wait timer, the last caller
  that leaves, an explicit cancel and a newer revision may each end a job.
* **Sharing.** Two requests for the same work share a run, so that a departure,
  a refund or a slot release of one must not touch the other.
* **Time.** Windows and remembered results expire between two steps.
* **Limits.** The line, the cache, slots, the ledger's ceilings and the bag are
  all finite, and most of the code's branches are about reaching the limit.
* **Partial failure.** A world of a search is measured candidate by candidate
  and may have to be given up half-way; an ending may come in the middle of an
  exchange; the clock may cut a sample between two candidates.
* **What outlives its question.** A table entry written within one window, in
  one world, by a defending or by a helping opponent, is read in another. A
  budget that runs out between two passes leaves half of an answer.
* **Merging before ranking.** Placements that differ only in the faces of choice
  tiles are one candidate until a cut has been made, and several afterwards.
* **Incremental caches.** A move changes the cross checks of cells that are not
  on its line and the contacts of cells far along it; undoing must restore both.
* **Reuse.** Replies are indexed once and revalidated after each candidate; what
  a candidate makes possible is looked for only in lines it can reach.
* **Pruning.** The generator gives up a prefix for three reasons, each of which
  must be one from which nothing legal can follow; a single tile lies in two
  lines and must be found in exactly one of them.

### What makes each part correct

* Queue: never more processes than allowed, never idle while somebody waits,
  served by priority and arrival, refused only when full, a departure that
  spares the others, places announced truthfully.
* Registry: it agrees with the queue on what lives; it remembers values only,
  never computes what it still serves, and is told truly who waited.
* Metering: the books balance with what was billed, per window.
* Handlers: a live job is always covered by a slot, slots come back, a position
  that its game leaves while a job for it waits is never searched, and nobody
  searches behind a player who has moved on and asked again.
* Runner: a stop is reported as what it was, no process survives its run
  unkilled, every run settles.
* Game: tiles are conserved, whoever is to move can move, games end.
* Search: the ledger and the race agree on worlds, no ceiling is passed,
  comparisons are made in the same worlds, "Complete" means settled.
* End-game proof: what it says of its move is the minimax value over the worlds,
  with the outcome that value has, whatever the table and the budget did.
* Request: certain results are never traded for estimates, candidates are
  compared on the same samples, nothing better is left out, what is answered
  would be validated, and the report leads with what is played.
* Rules, board, generation: a line is accepted exactly when the rules describe
  it; the maintained board equals a fresh one; the enumeration is exactly what
  the validator allows; every way to do less finds a part of the same.
* Replies and root moves: replies recovered from an index are the replies a full
  enumeration finds; the few root moves admitted hold the best, the highest
  scorer, a pass and every size of exchange.

## Modules

### EngineQueue, PriorityPool

`EngineQueue` is `queue.ts`. A job is named after the request that created it.
`Submit` is all of `submit`: sharing (`Join`), refusal, or creation (`Create`)
with the start or the line; `Complete` is the end of a run with the `#pump`
behind it; `CallerAborts` the listener of `#attach`; `Cancel` and `WaitTimeout`
the two ways out of the line; `Hear` the reaction of the caller's promise.
Outside events are guarded by `Drained`, because promise reactions run before
the next timer or connection event. The line is a set: the code sorts before
each shift. `PriorityPool` is the abstract promise - a pool with a bounded line
in front - and `EngineQueue` implements it (`ImplementsPool`) under a mapping
that forgets keys, references, signals and promises.

### JobRegistry

`EXTENDS EngineQueue` and adds the active map, the cache (a sequence in
eviction order), the observers and a clock. `RegistrySubmit` contains the
supersession of older revisions, the cache, the join of a known job and the
submission to the queue, all of which happen in one turn. `Record` and `Answer`
are separate promise reactions.

### Metering

`ComputeBudget` and its use: charge before submission, at most one undoing.
The two history variables `chargedAt` and `lateCredit` only serve properties.

### EngineService, EngineServiceProofs

`EXTENDS JobRegistry`; the composition of handlers, slots, registry and queue
over a database whose games move on. `LoadContext` is the turn that reads and
proves the revision; `Inspected` inspects the registry and takes a slot unless
the work exists, `TooMany` finds none free, and `PostTurn` ends the turn with the
submission. `WaitsTooLong` is the queue's wait timer under the handlers.

A job that waited goes through what `runQueued` does before it spawns, one action
for each turn of the event loop between two awaits: `DatabaseAnswers` reads the
revision in the database, `Revalidate` is the turn in which that answer arrives
and is compared, after which a bot turn spawns and an analysis asks whether the
tool is granted, and `ToolGranted` is the turn in which it is and the analysis
spawns. Both ways end in `Spawn`, which looks at the signal once more. The game
may move, and the job be superseded or cancelled, between any two of them.
`RecheckFails` is a read that throws or rules the job out. Two history
variables serve properties alone: `checked` is the revision of the game at the
comparison, `overtaken` the jobs that were in line when their game was past them.

### EngineRunner

One call of `runEngineRaw`. A process is anything that may write, exit well or
badly, ignore SIGTERM, or fail to spawn, in any order with the timer, the
signal, the overflow and the graces.

### WorkLedger, PairedRace, DecisionSearch

Two modules of operators on records (a ledger, a race) and the loop that
composes them. `Observe` is one candidate in one world, with the reply index,
the delta generation and the fall-back to full generation; `GiveUpWorld` is
what both `discardWorld` exits do; `CompleteWorld` commits to the ledger and to
the race and decides whether to stop. Values are exact integers: a standard
error is compared by squares.

### StateTransition, StateTransitionProofs

`apply` of `state_transition.cpp` from the deal of `selfplay.hpp`. A tile is a
physical tile, and the bag is a set from which a draw takes any tiles, because
the code draws from a shuffled bag that nobody sees. What a placement scores
and where it lies is an input. `SampleWorld` is a search that continues in a
hidden world of `WorldDeck`: the other rack and the bag are dealt anew. An
exchange draws first and returns afterwards (`Refill`); when it ends the game
its tiles stay in `pendingReturn`.

### Ordering, TileGame, HiddenEndgame

`TileGame` is what the searches of `engine.cpp` see of a game's end: racks and
a bag as counts, placements as names with the tiles they use, the squares they
cover and the squares they build on. It holds the operators of a node
(`Playable`, `Placed`, `DrawsOf`, `RackedOut`, the two endings) and, apart from
them, `ValueOf`: the value of a position by definition, without window, table,
order or budget. It is a recursive function over all positions, which is well
founded because every placement uses a tile and every pass but the last brings
the end nearer.

`HiddenEndgame` is `HiddenBagSolver` and `solveHiddenEndgame`. A search (`Search`,
`OptionValue`, `DrawWorst`, the code's `mm`, its root loop and `drawWorst`) is a
function of a position, a window and the solver's state; one search is one
step. `Search[n]` nests n deep, and a search begins with one more than the node
budget, so that the depth never decides: the budget aborts first. `ProveUnit` searches one option in one world against the best defence,
`Judge` takes a guarantee that wins or starts the second pass, `ReachUnit` asks
for what an opponent who helps lets through, `Settle` names the outcome. An
overrun of the budget ends the first pass without result and the second with a
result that does not claim to know. Killers and history only permute the moves
of a node, so the order is an input; a state stands for its 64-bit hash; the
clock aborts as the budget does. `Sorted` of `Ordering` is `std::sort`.

### EngineRequest, MCEngineRequest, EndgameProofs, EngineRequestProofs

`parseRequest` and `handleRequest`, step by step in the order of the code:
`ParseRequest` (unseen tiles, refusal of an unknown solver), `GenerateRoot` (one
face per footprint, and whether the end-game is tried), the proof of
`HiddenEndgame`, `UseProof`, `SettleAtOnce` (a placement that ends the game),
`AdmitCandidates` (the cut, the top scorer, all faces again, exchanges, pass),
`SampleRow` and `ClockCutsRow` (a sample is committed when every candidate has
been valued on it), `RankCandidates`, `PlayGreedy`, and the reports.
`RunValidation` is the other mode of the program. What a placement is worth
beyond its score and what a candidate is worth in a sample are numbers of the
request; the arithmetic on them is the code's, with the deviation rounded down.
What a generation that was cut short finds is any part of the whole, which
`BoundsAreHonest` of `moves` supports.

### Equations, EquationBoard, MoveGenerator, MoveTree, MCMoveTree

`Equations` is `rational.hpp` and the automaton and evaluator of `rules.hpp`,
and next to them the rules of a line said of the whole line (`WellFormed`,
`Balanced`). Fractions are kept up to `RationalMax`, beyond which they are
invalid, as in the code beyond 64 bits. `EquationBoard` is the board, the
validator and scorer of a placement, and the incremental board: `ApplyTo` is
what `makeMove` and `undoMove` refresh, `Rebuild` a fresh board. The XOR of keys
is a symmetric difference of sets. `MoveGenerator` is the enumeration: `StartAt`,
`Extend`, `TryTile`, `EmitIfValid` and `Keep` are the code's functions, with the
board as a function from occupied cells to tiles. The deadline cuts where the
node limit does. `MoveTree` is how the searches use all this: make a move that
was generated, go on, take it back; beside it, from the empty board, a line
reads any token.

### Replies

`EXTENDS MoveTree`. `RootCatalogue` is the list of root actions, `SelectRootScope`
the choice of those that a search admits: the leader, the highest scorer, a pass
and one exchange of each size, then whoever is near the leader. `BuildIndex`
holds the replies on the board before a candidate; `Recover` keeps those still
legal after it, at their new score, and enumerates from `DependencyStarts`, the
lines that the candidate's tiles lie in and those at the two ends of every run
they joined. A canonical key stands for the tiles of a placement, and the order
of keys is arbitrary. What the ledger refuses appears as a limit `Refused`; how
it decides is in `DecisionSearch`, where replies have only a number.

These modules (`Equations`, `EquationBoard`, `MoveGenerator`, `MoveTree`,
`Replies`) use RECURSIVE operators and are for TLC only.

## Runs

| run | asks | bounds | result |
|---|---|---|---|
| `queue_callers` | do departures, joins and timeouts keep the books? | 3 callers, 3 keys, line of 1, every state of a signal | holds |
| `queue_line` | who is served, who is told what, is it a pool? | 4 requests, 1 slot, line of 2, 2 priorities | holds |
| `registry` | does the registry agree with the queue? | 3 requests, 2 keys of 2 revisions, cache of 1, 2 ticks | holds |
| `budget` | do the books balance over windows? | 5 requests, 2 accounts, costs 1 and 2, windows of 2 ticks | holds |
| `service_slots` | slots, supersession and late starts end to end | 2 accounts, 2 games, 3 requests, 2 revisions | holds |
| `service_liveness` | are slots given back, jobs let go and callers answered? | the same with one game, a clock that stands still | holds under fairness |
| `runner` | does each run settle, and truthfully? | one process, any order of its events | holds under fairness |
| `decision_search` | books, ceilings, comparisons and verdict | 8 policies, up to 3 candidates and 3 worlds | holds |
| `game` | conservation, readiness, endings | 8 tiles, racks of 3, streak of 3 | holds under fairness |
| `answer` | is what the engine answers so, as certain as claimed, and legal? | two kinds of tile, racks of two, 8 placements, bags of up to two, budgets of 1, 6 and 10000 nodes, a table of 4, 4 samples | holds |
| `moves` | do enumeration, caches, validator, grammar and recovered replies agree? | 6 by 6 board, numbers 0, 1, 2, 12, racks of three, depth 2, lines of 5 tokens, of 8 from 0, 1, 12, -, \*, = | holds |
| `moves_lone_operator` | is every legal move enumerated? | as above | fails, see below |

Why the bounds are enough to be interesting. Three callers are the first number
at which one runs, one waits and one is refused or shares; four requests with a
line of two is the first at which the order *within* the line matters while
another runs. A cache of one makes every second result an eviction. Two windows
and the start of a third are needed for a charge of the first to be undone in
the second, and for a burst across an edge. Three requests of two accounts with
one slot each is the first instance in which a slot is contended while another
account's job holds the process. A job stands in line only behind another, so the
runs about jobs that waited have a bot turn of another game next to the analysis;
two revisions are enough for a game to move in any of the awaits, and a third
request can ask about the new position meanwhile. In `registry` one key is of each
revision, so that every analysis supersedes the bot turn before it. In the
search, reply indices of 0 and 2 with trees of 1 and 3 nodes make permits fit, truncate and be refused; two or three
worlds are a screen and a world behind it, and three candidates let two be
eliminated at once or one after the other. Eight tiles with racks of three
leave a bag of two: smaller than a rack, larger than nothing, so that short
racks, an empty bag, both endings and an exchange larger than the bag all
occur. `StreakCap` bounds the passes before the opening, which are unbounded in
the code; it is above the streak that ends a game, so that the case "longer
than the limit before the opening" happens.

In `answer` two placements are faces of one footprint, two compete for a square
and one builds on another; a bag of one gives several worlds, a bag of two is
beyond the proof; a budget of one node aborts the first search, one of six
aborts within either pass, and one of ten thousand never; a table of four slots
makes positions of different worlds and passes meet. `TopN` and `SimTopK` of two
cut both the report and the comparison, and four samples leave one row on either
side of the third, from which the clock is obeyed. In `moves` racks of three
with choice tiles and a blank exceed the two tiles left by a move, so that
bingos, crossings and single tiles all occur; 111 as the
largest fraction holds every number of the long lines, and "12\*12\*0=0" outgrows
it. Six tokens are needed to tell an order of operators from the other
("0=-1\*0") and eight to tell a limit of three digits from none ("0\*1000=0"), so
that the lines of a smaller alphabet go up to eight. `moves` starts from three boards:
the empty one; a column "0=0" on which "1*" can be put, after which "1=1" fits in
the first row with its first or last tile on top of the column - a reply that
shares no line with the tiles of the candidate, for which six rows are needed;
and a ring of equations with a hole that only a column passes through. `MaxTiles`
ends the tree early under the ring, whose moves are many. Limits of 1, 7 and 40
nodes cut an enumeration, an index or a delta anywhere from its first cell on, and a scope
of one, two, five and eight actions has room for the leader alone, for both
leaders, and for some or all of the mandatory ones. `CHECK_DEADLOCK FALSE` stands where
all requests may be over, a run has settled, a game has ended or a line is as
long as the bound allows.

### Fairness

* `service_liveness`: weak fairness, for each request, of its
  turn and its reactions (`RequestProceeds`), which the event loop never drops,
  and for each job of the next thing it waits for (`JobProceeds`): the database
  answers its reads, its process ends, and the reaction to either runs. A job has
  at most one of these under way, so weak fairness of the disjunction is no more
  than that of its parts. That a process ends is what `EveryRunSettles` of `runner`
  shows of `engineRunner.ts`; nothing forces a job to *start*, and no fairness is
  given to callers, cancels, moves, the wait timer or failing reads.
* `runner`: timers fire, a close event is delivered, and a process that was
  sent SIGKILL dies. Nothing is assumed of a process that was sent SIGTERM.
* `game`: somebody moves while the game goes on (`WF` of `Apply`), with no
  assumption on which move. Sampling a world is not progress.

### What the failing run says

`moves_lone_operator`: "Complete legal-move enumeration" is the first line of
`src/movegen.hpp`, and the README of the engine and `tests/test_engine.cpp` say
the same. A single tile is placed by the pass across only (`movegen.cpp:226`),
because otherwise it would be found twice. That pass reads it as the start of a
row, and `LineState::advance` takes no operator but "-" as the first token. So
"+", "*", "/" or "=" put where it completes a column and touches no row is legal
by the validator and is never generated: an "=" between two ones that stand one
above the other is the shortest case. Built from the sources, the generator
returns no move in that position and the validator accepts the placement with a
score of 3. `GeneratesAllButLoneOperators` of `moves` shows that nothing else is
missing.

### Known differences that no run shows

Each of the first seven is stated in its module and refuted by TLC as described;
the line of the repository that says otherwise is named with it.

* `InterestedCallerKeepsRun` (`EngineQueue`; `SpecWithoutCancel` of
  `MCEngineQueue`, two callers of one key whose signals are live). `submit`
  attaches a caller to a job whose controller has already fired, while its
  process is being killed, and the caller is answered with that cancellation
  although it never left. The comment of `submit` promises that a run is
  cancelled only when the last interested caller has gone.
* `NeverHandsOutBudget` (`Metering`; `budget.cfg` with this invariant). `refund`
  credits whatever window the account has by then. A charge of one window that
  fails in the next makes room there for work beyond the budget. `BooksBalance`
  and `TwiceTheBudgetAtMost` therefore speak of accounts without such a credit,
  which `lateCredit` remembers.
* `CheckedAsItStarts` (`EngineService`; `service_slots.cfg` with this property). The
  doc of `revalidate` (`app.ts:617`) says that a job which waited is "re-checked at
  the moment the job actually starts". A bot turn is compared and started in one
  turn of the event loop. An analysis is compared (`app.ts:1218`), awaits
  `requireAnalysisTool` (`app.ts:1220`), which is another call of the database, and
  is started (`app.ts:670`) after a look at its signal alone. A game that moves in
  between is searched at a position that is gone, unless somebody asks about the
  new one. What remains true is stated by two properties that hold:
  `LeftInLineNeverSpawns`, because no revision is read before the front of the line
  is reached, and `NeverSearchesBehind`, because a request about the new position
  aborts the job and the signal is looked at behind the last await.
* `ExchangeDrawsSameCount` (`StateTransition`; five tiles, racks of two). The
  reserve counts the opponent's rack and the bag, so an exchange of more tiles
  than the bag holds is accepted and leaves a short rack, while section 9.2 of
  `docs/aether-search-v2-design.md` draws "the same count". `ActionReady` shows
  that the rack cannot become empty.
* `PlayedMoveReported` (`EngineRequest`; `answer.cfg` with this invariant). The
  rows of an end-game are ordered by guarantee, and the move of a conditional
  win is not the one with the best guarantee, so that a short report leaves it
  out. The comment of `serializeRows` says that the played move survives
  truncation. `ReportLeadsWithPlayed` excepts that outcome and no other.
* `ForcedLossHasNoWinningLine` (`EngineRequest`, as above). A placement that ends
  the game at once and loses is answered as a forced loss when nothing else was
  generated and no exchange is allowed; a pass, with which an opponent might
  still help, was not examined. The comment of `EndgameOutcome` says that no
  line reaches a win. Within the proof itself, `OutcomeSound` includes the pass.
* `RacksFilled` (`EngineRequest`; an end-game of `answer` with a rack of one and a
  bag of one, and `genLimit` of 7). The rules end the game when a rack is played
  out and no more than a rack is left with the other side and in the bag
  (`state_transition.cpp:91`, repeated above `immediateOutMargin`), but within the
  proof only a placement that empties the rack and finds the bag empty does. The
  two agree while racks are full as long as the bag lasts. An exchange of more
  tiles than the bag holds (see above) and a study whose rack is entered short
  break that, and then TLC finds `ProofSound` violated: the proof lets an opponent
  who went out draw on, and calls a forced win what the rules end at once.
* The engine answers "unknown" over the end-game channel when the second pass
  was cut; the comment after `EndgameOutcome` says that every return on
  that channel is a completed proof.
* The averages shown with a candidate (`parts`) include the row that the clock
  has cut, the values that decide do not (`CommonSamples`).
* A generation that was cut short is a subset of the whole and need not be a
  prefix: the tiles of the cells it is at are still tried, it only goes no
  deeper.
* With `TicksInTurn = TRUE` the clock may move within the turn that inspects
  the registry and then submits. A remembered result may then expire between
  the two, and a job starts without a slot: TLC finds `SlotCoversJob` violated.
  The runs keep the clock still within a turn, which is a matter of
  microseconds in the program.
* A job that starts at once does not read its revision again, although its
  handler read it several awaits before. The properties of stale starts are about
  jobs that waited, which is what the code re-reads. Of those, the answer of the
  database may itself be old when it arrives; a bot turn is then compared and
  started for the revision it had when it was read.
* An adaptive search compares the world index, not the completed worlds, with
  `minimumWorlds`, so a world that was given up counts for the screen and
  indifference may rest on fewer worlds. It also admits a world on a projection
  from earlier ones, which may cost more than the credits that are left. The
  adaptive policies are reached by the benchmark only.
* `GameSim` of `selfplay.hpp` refills a short rack after a pass; `apply` and
  section 9.3 of the design do not draw there.
* The budget's window is fixed from its first charge, while some comments speak
  of a sliding one; `TwiceTheBudgetAtMost` is the bound a fixed window gives. The
  charge that opens a window is not compared with the budget (`rateLimit.ts:61`),
  which matters only for a request dearer than the whole budget; the bounds keep
  to budgets that the dearest request fits.
* A process that dies before it has read its request makes its stdin emit an
  error nobody listens to (`engineRunner.ts:218`), and the slot of a streamed
  analysis is held until its last event is written (`app.ts:305`). Both are
  behaviours of streams, which the modules leave out.
* `server.ts:92` stops the server while unwatched searches run; their results
  are lost with the process.

## Proofs

Every theorem is about a module as the runs check it, for every value of its
constants that satisfies the named assumptions; each rests on one inductive
invariant, and TLC has checked that invariant on the instance of the runs first.

### Induction

The installed provers cannot instantiate a theorem that takes a predicate. The
principles here speak of a set of counterexamples in its place: a non-empty
collection of subsets of a finite set has a minimal member (`MinimalSubset`,
from the well-foundedness of strict inclusion), hence `NatLeast` and
`NatClosed`. What follows for the folds of the community modules is that a sum
over a finite set exists (`SumExists`), is one (`SumUnique`), and is that of the
rest plus a member (`SumRemove`, `SumSubset`, `SumUnion`).

### The queue

The first part of `EngineServiceProofs` proves for every finite set of requests, every set of keys
and integer priorities and every positive concurrency and depth of the line:

* `TypeCorrect`: `TypeOK` always holds.
* `InvariantHolds`: `QueueInv` is inductive. It adds to the safety properties
  that arrival numbers are fresh and distinct (`Arrivals`), so that `Outranks`
  is a total order on the line and `Pump` of one free slot takes exactly one
  job, and that a claim belongs to a job that exists (`Claims`). Without the
  first, two jobs might share a place and a single free slot start both.
* `BoundedAlways`, `WorkConservingAlways`, `OneLiveJobPerKeyAlways`: parts of
  it.
* `ServedInOrderAlways`, `RefusedOnlyWhenSaturatedAlways`: action properties,
  from `QueueInv` and a lemma on each step.
* `CallersInvHolds`, and with it `RefsExactAlways`, `AnnouncedIsFactAlways` and
  `DepartureSparesOthersAlways`. `CallersInv` ties the promise of a job to its
  life and a claim to the phase of its caller (`Callers`). The counts are exact
  because in every step at most one job settles (`Settles`), so that whoever
  releases by key finds the job it joined or none: were the promise allowed to
  outlive the job unheard, a late release would hit its successor.
* `QueueImplementsPool`: the refinement, one lemma per step of the mapping. An
  arrival that joins maps to a stutter, one that is created to the pool's
  arrival, with the start of a waiting job when a place is free.

The argument goes by the effect of an operation (`CreateEffect`,
`CompleteEffect`, `AbandonEffect`: what happens to line, counter and states, in
the three shapes a step can have) and then by conjunct. That a non-empty finite
line has a best job (`PumpOne`) follows from the well-foundedness of strict
inclusion.

### The runner

`EngineRunnerProofs`: `NoProcessIsLeftBehind` and `StopIsAlwaysReported`, whatever
signal the caller passes. `RunnerInv` adds to the first that the graces under way
and the causes of a stop still to come (`StopsToCome`: the timer, the signal, the
overflow) are never more than four, which is what bounds the counter of graces.

### The registry

The second part of `EngineServiceProofs`, for every finite set of requests, every set of keys, every
lifetime of a result and every positive size of the cache:

* `RegistryIInvHolds`. `RegistryIInv` adds to `QueueInv` and to the properties
  of the registry that a job has the key it was asked for, that its promise is
  pending as long as it lives and its settlement is recorded afterwards
  (`Bookkeeping`), that who was refused owns nothing (`Requesting`), and that a
  key in flight is not remembered (`FlightsUnremembered`). The last is what
  `NotComputedWhileServed` and `NeverOverwritten` need: a start removes an
  expired result of its key, and only the settlement of that start adds one.
* `RegistryInvAlways`, `OnlyUsefulnessStopsAlways`, `NeverOverwrittenAlways`,
  `WaitedIsTruthAlways`.

The proof goes by what a call does to the queue - it cancels a set of jobs
(`DropEffect`, `DropInv`) and may start one (`StartEffect`, `StartInv`) - and by
what it does to the cache (`KeptShape`, `ReadShape`, `RememberShape`). Entries are
removed by a recursive function, whose value has the shape claimed by `NatClosed`.
Calls that neither start nor stop nor record share one lemma (`QuietKeeps`).
`KeysAssumption` says that the model value for "no job" is not a key.

### The handlers

The third part of `EngineServiceProofs`, for every set of accounts, every limit of slots and every
bound of the revisions:

* `ServiceIInvHolds`. `ServiceIInv` adds to `RegistryIInv` that the counters are
  the requests that hold a slot (`HeldExact`), that the turn under way has found
  the work done or under way, or holds a slot (`TurnCovered`), and that a live
  job is awaited by the request that started it (`JobsCovered`).
* `ServiceKeepsRegistry`, `ServiceStopsOnlyOutdated`: the registry's properties
  under its real callers, whose refusals without a slot are no call of it.
* `HeldExactAlways`: the counters never drift, whatever the clock does.
* `SlotCoversJobAlways`, under the hypothesis `TicksInTurn = FALSE`. The hypothesis
  is needed: a result may expire between `inspect` and `submit`, each of which reads
  the clock, and the job that is then started has no slot. `HitSurvivesRead` says
  that nothing else comes between the two.
* `RecheckInvHolds`. `RecheckInv` says what holds of a job across its reads: what
  was admitted or asked about existed (`Existed`), who was cancelled is aborted
  (`RevokedAborted`), nothing is read in line (`ReadsAtFront`), only a job that read
  its own revision passes the comparison (`ComparedItsOwn`), and a job that has
  read it is aborted once somebody asks about a later position
  (`LaterAskedAborts`). The last is the deep one. At the read nobody can have asked
  about a later position, because what is asked about existed; and whoever asks
  afterwards finds the job among the superseded, because registry and queue agree
  on what lives (`RegistryMatchesQueue`, `OneLiveJobPerKey`).
* `NeverSearchesBehindAlways`: a job that starts after a wait was not aborted when
  it did (`SpawnAfterWaitStep`), so nobody has asked about a later position.
* `LeftInLineNeverSpawnsAlways`: a job whose game moves on while it waits is
  `Doomed`, which nothing undoes (`DoomedStays`): the revision it will read is not
  its own, so it passes no comparison. That all of `overtaken` is doomed (`LeftDoomed`)
  is the last conjunct of `RecheckInv`.

### The budget

`MeteringProofs`, for every set of users and requests, every cost, budget and
length of the window:

* `MeterInvHolds`, `BooksBalanceAlways`. A window is within the time that has
  passed (`Framed`) and no charge is dated after it (`Dated`); without the first
  a charge might open a window before an older charge.
* `SpendingBounded`: with any ceiling that neither the budget nor the cost of a
  request exceeds, an interval as long as a window holds at most two ceilings of
  billed work. The interval meets at most two windows (`TwoWindows`), and a
  window never holds more than the ceiling: either its spending was compared
  with the budget or it is the one charge that opened it.
* `TwiceTheBudgetAlways`: the property of the run, under the hypothesis that
  no request costs more than the budget. The hypothesis is needed, since the charge
  that opens a window is compared with nothing; the tiers of the service, the
  dearest of which costs 36 of a default budget of 300, satisfy it.

`NoneAssumption` says that the model value for "no window" is not a number.

### The search

`DecisionSearchProofs`, for every policy (fixed and adaptive, with references
or not, any numbers of candidates and worlds), every envelope and whatever the
position makes of trees, indexes and endpoints:

* `SearchInvHolds`. `SearchInv` consists of the types (`Typed`, `LedgerOK`), the
  race (`RaceOK`: whoever is active was measured in every batch, and the
  measurements of any two are of the same worlds), the books (`Books`), the row
  of observations of the world under way (`RowOK`), and the pace of the calls:
  what is left of the ceilings covers what the world under way and, for a fixed
  schedule, the worlds to come may still ask for (`CallsPaced`, `Started`,
  `Underway`, `Undecided`).
* `WorldsAccountedAlways`, `EnvelopeFitsAlways`, `SameWorldsAlways`,
  `CompleteIsSettledAlways`, `DroppedBehindLeaderAlways`.

`EnvelopeFits` needs most of it: how many calls are left depends on how many
worlds were given up and on how many candidates were dropped, and only the pace
says that every candidate to be measured has one. `DroppedBehindLeader` needs
that the leader beats every other in a total order (`LeaderBeatsAll`,
`LeaderUnique`) and that what eliminated a candidate is what the race holds
afterwards; the sums of measurements are numbers by `NatClosed` (`TotalType`).

### The game

`StateTransitionProofs` proves for every finite set of tiles that fills two
racks, every positive size of the racks, positive reserve and streak:

* `GameInvariant`: `GameInv` is inductive, with one lemma per action. Its first
  part, `Typed`, is the type invariant of the module.
* `TilesAlwaysConserved`, `ActionAlwaysReady`.
* `StreakAlwaysEnds`: `StreakEndsOpenedGame`, a conjunct of `GameInv`. It is proved
  and no run repeats it.

`ActionReady` is the deep one. After a placement that empties a rack and does
not end the game, the rest exceeds a rack (`RackOut` fails) while the opponent
holds at most a rack, so the bag is not empty and the draw gives at least one
tile (`DrawFits`); after an exchange the reserve does the same. So the sizes of
the racks and that nothing is pending must be in the invariant. The scores say
nothing about either and are left out of `Typed`.

### The end-game

`EndgameProofs` is about the operators of `TileGame` and `HiddenEndgame`, for
every finite set of kinds and placements, every score within `MostScore`, every
size of the table and every budget. Its result is `SearchSound`: what a search
answers without having been aborted tells the value of its position within the
window it was asked with, and every entry it leaves in the table bounds the
value of the position it is keyed by.

* `ValueOf` is defined by recursion over positions, not over numbers. That it
  satisfies its own equation (`ValueAt`) is proved by its approximations:
  functions that are the value where fewer than n moves are left
  (`ValueNearExists`) and that agree where both are (`ValueNearUnique`); `NatClosed`
  takes the place of induction. `MovesLeft` descends because a placement uses
  a tile and a streak of passes is bounded.
* A value never exceeds the stake of its position, the points that its tiles can
  still move (`ValueBounds`). This is what makes the window of the root a full
  one: `Infinity` is larger than twice the stake of the whole game.
* The draw of several tiles, one by one, each the worst of the kinds that are
  left, is the worst of the draws of that many (`DrawValueSplits`, `WorstOverSound`):
  the code nests minima with a narrowing window where the definition takes one
  minimum over submultisets.
* The loop over the options keeps `NodeSoFar`: the best value so far is within
  the window the largest (for the side that helps itself, or for both when the
  opponent helps, `HighSoFar`) or the least (`LowSoFar`) of the options tried. After
  all of them, or a cut, the flag of the entry is the one that value deserves
  (`ExploreSound`, `FinishedSound`).
* That this holds at every depth is `SearchSound`, again by `NatClosed` over
  the depth. A search with no depth left aborts, as one without budget does,
  and an aborted solver never writes an entry.

Positions with an empty bag only are looked up, but the entries outlive the
world, the unit and the window in which they were written; soundness of an
entry therefore mentions none of the three.

### The request

`EngineRequestProofs`, for every request that is well formed:

* `RequestAlwaysKnown`. What is unseen is read once and is within the
  distribution, so that the bounds above hold for every world.
* `ProofGoesRight`: `ProofInvariant`, one conjunct per stage. In `prove` the
  guarantee of each option is the least of its true values over the worlds in which
  it has been searched (`LeastOver`), in `reach` the largest (`LargestOver`) once no
  guarantee wins, and at the end the result is what `Judge` and `Settle` make
  of them. `ProofAlwaysSound` states `ProofSound` of it: the table is sound, and
  the outcome - win, conditional win, draw, loss or unknown - is the one that the
  minimax value over the worlds has.
* `EstimatesGoRight`: ranking and candidates are functions of the request alone,
  and a request that ends the game at once never gets that far (`Stops`).
  `NothingBetterIsLeftOut` follows by counting: the admitted are the first of a
  strict total order (`OrderedBy`, which `Sorted` is), and the faces added later
  keep their footprint.
* `SamplesGoRight`, `SamplesAreCommon`: the sums are those of all rows that were
  completed, for all candidates alike, wherever the clock cuts a row.
* `AnswersGoRight`: `AnswerRight`, with one lemma per step that answers. It
  gives `AnswersAlwaysLegal` (what the search answers is what the other mode of the
  program accepts), `TerminalMovesAreSettled` and `ReportsLeadWithPlayed` (the row
  of the chosen move is first because it is marked, has the largest value and
  stands before its equals).

The inductive invariant of a request is the conjunction of `RequestKnown`,
`ProofInvariant`, `Estimates`, `SamplesDone` and `AnswerRight`; TLC has checked each of
them on the instance of `answer`. The assumptions are `TileGameAssumption`
(finitely many kinds and placements, a placement uses a tile, racks and
streaks have a positive length) and `RequestAssumption`: of each request that
the generator lists every placement once and misses none that could be reached,
that a rack is short only when the bag is empty, and that twice the stake of
its tiles is below `Infinity`. The first says that the placements of a request are
those the generator knows (what it never lists, the lone operators of
`moves_lone_operator`, is no placement here). The second is the rule of the game as
`service/src/study.ts:57` states it; a position that breaks it is treated under
"Known differences". The third is true with a wide margin: the code's infinity
is 2^20. Orders, scores, leaves, dangers and prices are
arbitrary numbers of the request, so that no theorem rests on the evaluation.

What the recursive definitions compute is used through their equations only:
`Submultisets`, `Total` and the folds through the lemmas of `Induction`, `Filtered`,
`WorstOver` and `Explore` through the steps their functions are made of.

### Only model-checked

* Every liveness property (`EverySlotReleased`, `EveryJobLetGo`, `EveryRunSettles`,
  `OpenedGameEnds`), for which the prover has no rules of fairness, and
  whatever speaks of ENABLED.
* `IncConsistent`, `GeneratesAllButLoneOperators`, `LineAgreement`, `BoundsAreHonest`
  and `RecoveredIsFull`: the rules of a line, the board, the enumeration and the
  replies. Evaluation by precedence, greatest common divisors and the
  descent of the generator are RECURSIVE operators in the modules these
  properties are about, and a module that reaches one cannot be reasoned about;
  what they compute for every line would take an induction over data besides.
* The run that fails, which needs one counterexample and not a proof.

## Not modelled

Authentication, rooms, study and presentation are reads and checks without
state of their own. The alternative runners call the runner that is modelled.
Bundled models are generated. Evaluation is a sum of hand-set weights in
floating point, so that what a leave, an opening or a sample is worth appears
as a number of the request. Enumeration is modelled where it is defined
(`MoveGenerator`) and appears as an input of the searches, which would
otherwise be out of TLC's reach. Configuration gives the constants.

Of `engine.cpp`: the older exact solver (`EngineSolver`, lines 782-982) is called
by nothing; the calibration mode measures the machine; progress events and JSON
are output; the opponent's reply and the potential within a sample are part of
the price of a candidate. Of `decision_search.cpp`: the values by which root
actions are ranked. Of `opponent_search.cpp`: the policy that orders replies by
weights of the evaluation. Of `app.ts`: reads, listings, streams and presentation.

## Plan

The order in which the modules were and will be written: first what every
request passes through (the queue, then the registry and the handlers composed
with it), then what bounds and ends its work (metering, the runner), then what
the engine does with it (the search with its ledger and race, the rules of the
game, the request and its proof), then the algorithms underneath (rules of a
line, board, enumeration, replies). What is left:

| next module | code | composes or refines | to be checked | instance |
|---|---|---|---|---|
| `GameSim` | `selfplay.hpp` | implements `StateTransition` but for the refill after a pass | the refinement, and where it stops | racks of 2, five tiles |
| `CanonicalState` | `canonical.ts`, `adapter.ts` | its result is an initial state of `StateTransition` | the closed set is proved or the row refused | five tiles |
| `Shutdown` | `server.ts` | with `EngineService` | what a stop loses, and that it ends | two requests |

Proofs: every safety property that the runs check of the service, the game, the
newer search and the request is a theorem. What is left is the board and the
generator, beginning with `IncConsistent`, which needs the rules of a line kept in
a module apart from the recursive evaluator.
