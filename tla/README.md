# ElectriFix in TLA+

ElectriFix is a fault-management server for an electricity distribution network. Devices on
poles send telemetry; the server keeps the state of every pole, localizes the fault when poles
go dark, opens a ticket, and closes it when telemetry shows that power is back. This directory
holds TLA+ modules of its core, TLC configurations that check them on small instances, and
TLAPS proofs of their main properties for every instance.

Paths below are relative to `src/server/src/` unless they start with `client/`.

## 1. The system

The server is one Node.js process in front of PostgreSQL. Code between two `await`s runs without
interruption; anything may run at an `await`. So the unit of a step in these models is *one
uninterrupted piece of JavaScript*, or *one database statement or transaction taking effect*.

| Component | State it keeps | Operations | Talks to |
|---|---|---|---|
| Telemetry ingestion (`application/ingest-telemetry.ts`, `infrastructure/event-pipeline.ts`) | buffer, duplicate filter (`admittedTuples`), `pendingCursors`, `draining` flag, `telemetry_events` | `ingest`, `ingestBatch`, `admit`, `drain`, `process` | HTTP routes and simulator call it; it calls the pole state service |
| Pole state (`domain/pole-state/`) | cache of pole states, `pole_states` | `applyEvent`, `rebuildCache`, `subscribe` | publishes transitions to localization, live updates and tickets, in that order |
| Fault orchestration (`application/localize-faults.ts`) | the `pending` promise chain | `handleTransition`, `persistCandidate`, `backfillAiSummary` | reads pole state and topology, writes `faults` and `tickets` |
| Localization engine (`domain/localization/`, `domain/noise-filter/`, `domain/topology/`) | none (pure) | `localizeDT`, `localizeFeeder`, filters, resolvers | called by the orchestration |
| Ticket management (`application/manage-ticket.ts`, `domain/ticket/`) | none in memory; `tickets`, `faults` | `acknowledge`, `assign`, `resolve`, `handlePoleStateTransition` | HTTP routes and transitions call it; reads pole state |
| Live updates (`presentation/ws/`, `infrastructure/websocket-emitter.ts`) | pending pole changes, connected clients | `publish...`, `flushPoleStateChanges`, `broadcast` | the dashboard's `useWebSocket` |
| Dashboard client (`client/src/`) | socket, polling flag, cached queries | connect, reconnect, invalidate, poll, refetch | live updates for news, the REST routes for data |
| Simulator (`application/run-simulation.ts`, `simulator/`) | `activeTargets`, device cursors | `injectFault`, `repair`, `injectNoise`, `run` | sends telemetry through ingestion |
| Startup and schema (`index.ts`, `infrastructure/db/`) | the database | migrate, seed, snapshot, shutdown | builds everything else |
| Read models, serializers, routes | none | queries and rendering | |
| External services (summaries, scheduled outages, configuration) | none | one request each | |

### What is hard about it

* **Telemetry**: admission tests capacity and duplicates, waits for a lookup, then queues; two
  requests interleave there. The drain runs on a timer while admissions go on. Insert and pole
  state update are separate statements, so failures and crashes fall between them.
* **Tickets**: commands read, decide and write in three steps and write by ticket id alone;
  every restored pole starts a handler of its own; all of them race.
* **Localization and tickets together**: localization is serialised against itself but not
  against restoration; it reads levels from memory and commits rows later; it is triggered by
  transitions only, so what a crash or a suppression hides is not looked at again.
* **Simulator**: targets are claimed by keys of different kinds, cursors are taken when a plan is
  made and used while others send, and an answer that was not planned for ends the process.
* **Dashboard**: announcements are only a reason to read again; they are lost while a connection is
  down, overtake responses, and meet requests in flight, retries and polling.

What makes each part correct: a device's stream is applied in order and once, whatever is
retried; the rows and the cache agree; a pole that is dark for long belongs to an active fault; a
fault is resolved once, only on the word of telemetry, and is resolved when its poles are back;
tickets move along their life cycle; a simulation disturbs nothing but its targets; a screen is
never behind without something on its way that will correct it. The `hazards` in `PROJECT.json` list where each of these can
go wrong, with the properties that would notice; a hazard with no property has a note.

## 2. Modules

| Module | What it is |
|---|---|
| `PoleEvents` | vocabulary shared by the telemetry modules: event kinds, positions in a device's stream, what an event does to a pole state |
| `TelemetryPipeline` | admission, buffer, drain, insert, pole state update, cache, crash and restart |
| `PoleStream` | what the telemetry path promises: record each tuple once, apply at most once, in order |
| `MCTelemetryPipeline` | instances for TLC |
| `TelemetryPipelineProofs` | theorems about `TelemetryPipeline` |
| `TicketWorkflow` | operator commands, restoration handlers, the verifying transaction, published events |
| `FaultResolution` | what ticket management promises: one resolution per fault, by an actor that saw it restored |
| `MCTicketWorkflow` | instances for TLC |
| `TicketWorkflowProofs` | theorems about `TicketWorkflow` |
| `Localization` | which faults the levels of the poles show: graph, filters, boundaries, groups, confidence, candidates (operators only) |
| `LocalizationScan` | every input localization can be given on a small network, and what must be true of its answer |
| `MCLocalization` | instances for TLC |
| `BasicLemmas` | lemmas about numbers, finite sets and flattened sequences that the proofs share |
| `LocalizationProofs` | lemmas about the operators of `Localization` |
| `LocalizationScanProofs` | theorems about `LocalizationScan` |
| `FaultOps` | the localization chain and the table of faults against restoration handlers, outages, failures and crashes; extends `Localization` |
| `FaultRegister` | what fault orchestration promises about the table: entries are opened once per identity, closed, and never rewritten |
| `MCFaultOps` | instances for TLC |
| `FaultOpsProofs` | theorems about `FaultOps` |
| `Simulation` | simulator requests, plans and runs against the admission of telemetry |
| `MCSimulation` | instance for TLC |
| `SimulationProofs` | theorems about `Simulation` |
| `LiveUpdates` | announcements, the connection of one browser, and its queries |
| `MCLiveUpdates` | instance for TLC |
| `LiveUpdatesProofs` | theorems about `LiveUpdates` |

### TelemetryPipeline

State and code: `buffer`, `admittedTuples`, `pendingCursors` and `draining` are the fields of
`EventPipeline`; `cache` is `PoleStateService`'s map; `telemetry` and `poleStates` are the two
tables (of a telemetry row only its unique tuple is kept). A request has the events it has still
to admit (`todo`), the place of its current `admit()` (`stage`) and its last answer; a drain
invocation has its `phase`, `current` event and the `next` state it is persisting.

| Actions | Code |
|---|---|
| `Submit`, `BeginAdmit`, `FindTelemetryEvent`, `AnswerFound`, `AnswerStale`, `Accept`, `Return`, `Throw` | the routes, `ingestBatch` and `admit`, cut at the lookup's `await` |
| `StartDrain`, `ContinueDrain`, `EndDrain`, `InsertTelemetryEvent`, `Abandon`, `Stored` | the timer and `drain`/`process` |
| `BeginApply`, `UpdatePoleState`, `EndApply` | `applyEvent`: compute, persist, then cache and publish |
| `Crash`, `Restart` | the process dies (a shutdown loses the same memory); the cache is rebuilt from `pole_states` |

`Faults` says what the environment may do: `rollback` (a statement fails without effect),
`ackLost` (it takes effect but an error comes back), `crash`.

Abstracted: timestamps, readings and signal strength; the wording of responses; transition
subscribers (they run after the cache is written and change nothing here). `markPresumedDark` and
the debouncer are called by no code path of the running program, so no pole is `PRESUMED_DARK`.

### TicketWorkflow

A ticket is identified with its fault (one transaction creates both rows). The initial state has
the faults just created with their monitored poles dark. `command[c]` is an HTTP request in flight with the row
it read; `handler[h]` is a `handlePoleStateTransition` call with what its loop has left.

| Actions | Code |
|---|---|
| `FindTicket` | `requireTicket` |
| `Refuse`, `Decide` | the lifecycle check and, for a resolve, the verification, on the row that was read and the levels of now |
| `WriteTicket` | `updateTicket`, unconditional; the update is what `TicketLifecycle` computed from the row read |
| `VerifyResolved`, `VerifyTooLate`, `VerifyListed`, `AbandonSweep` | `verifyTicketAndResolveFault`: commit, or throw if the fault is no longer active |
| `Publish`, and the first half of `Sweep`/`EndSweep` | `publishTicketUpdate` after the reply |
| `Restore`, `ListRestorable`, `Sweep`, `EndSweep` | a transition to `LIVE`, the query, and the loop up to the next transaction |
| `Darken`, `Crash`, `CommandFails` | the environment |

Abstracted: notes, timestamps (`verifiedBy` stands for `verifiedAt`, and names the actor so that a
second stamp would show), the rejection's text, the 404 of an unknown ticket. A handler's loop
order is the query's, which has no `ORDER BY`, so `Sweep` may take any record that verifies.
`closed` is a status no code writes. A failed read of a request or handler is `CommandFails` and
`AbandonSweep`.

### Localization

The engine, the filters and the topology resolvers keep no state, so they are operators over the
registry (`Parent`, `Monitored`, `Recorded`) and the levels. `Ancestors` is a recursive function;
`FindBoundary` is the loop of `boundary-finder.ts` as a search in the sequence of ancestors;
`Groups`, `ConfidenceLevel`, `LocalizeDT`, `LocalizeFeeder` are named after the code.
`SuppressionContext` and `Candidates` are the parts of `localize-faults.ts` that prepare the input
and choose between transformer and feeder candidates; what is then done with them is
`FaultOps`. `LocalizationScan` walks through all inputs: its actions are the events that change
a level (`Report`), the age of heartbeats and the outages in force, so every combination that
the program can reach is a state, whatever order led to it.

Abstracted: coordinates, pincodes, names, reasons; the outage window (an asset is out or not); a
registry the recorded resolver refuses, which is an error and no localization. `PRESUMED_DARK` is
in the vocabulary but no running code produces it.

The reference definitions are physical: `Frontier` is stated over all pairs of poles, not by a
walk, and the spans must be exactly it. Limits of the code that the properties state as they are:
a dark region with no live pole above it has no boundary and, unless the whole transformer is
dark, no candidate; a transformer without recorded topology that is dark in part loses its own
candidate to a feeder candidate that does not contain its poles; a heartbeat leaves an `UNKNOWN`
pole `UNKNOWN`.

### FaultOps

`energized` is the cache of pole states (only levels), `pending` the promise chain of
`LocalizeFaults`, `job` the localization that runs, `faults` the table, `handler` the
`handlePoleStateTransition` calls in flight. The candidates are those of `Localization`, so a
fault has the identity and evidence that the engine computes.

| Actions | Code |
|---|---|
| `GoesDark`, `ComesBack`, `FirstReport` | `PoleStateService` sets the cache and calls its listeners: a transition to dark joins the chain, one from dark to live starts a handler, a first report does neither |
| `StartLocalization`, `ReadLevels` | `handleTransition` and `localizeTransition`, cut at the outage feed's `await`: outages are judged by the transition's time, levels are those of the moment the feed answers |
| `FindActiveFault`, `UpdateActiveFault`, `CreateFaultAndTicket` | `persistCandidate`, one statement or transaction each |
| `LocalizationFails`, `Replied` | what throws abandons the other candidates; the chain goes on |
| `ListRestorable`, `Sweep`, `EndSweep`, `VerifyListed`, `AbandonSweep` | the handler, as in `TicketWorkflow`, reduced to the fault |
| `ScheduleMoves`, `Crash` | the environment |

Two history variables serve properties only: `calm` (since the first dark report there were only
dark reports, and nothing failed) and `lapsed` (faults whose restoration no handler will look at,
for a named cause). Abstracted: confidence, counts beyond their size, coordinates and summaries;
tickets, which are created and closed together with their fault; operators.

### Simulation

`activeTargets` and `cursors` are the fields of `RunSimulation` and `TelemetryProducer`; `job[r]`
is a request and then the run it leaves behind, with its plan. `InjectFault` and `InjectNoise`
claim and plan in one piece, because nothing is awaited between `claim` and the microtask; a repair
awaits its fault first (`FindFault`, which may find it active or already resolved), and then
`RepairFault` claims and plans, or `RefuseRepair` answers 409: for a fault that was found resolved,
or because its key is claimed. `Sleep`, `Send`, `Answer`, `Complete` are the loop
of `run()`. The pipeline is reduced to what decides an answer: the queue, the tuples of
`telemetry_events`, the cursors of `pole_states`. `Send` and `Answer` end the process when the
answer is not the expected one, since `run()` is not awaited. `DeviceReports`, `ProcessingFails`, `FaultResolves`,
`Crash` and `Restart` are everything else that can happen.

A claim is of a key (a transformer, a span's parent, a pole, a fault), not of the poles that are
disturbed: noise of a transformer and noise of its default pole may run together on that pole, and
`PlansAreFresh` is about what then keeps them apart.

Abstracted: the power level of an event; clock skew, which moves timestamps that decide no
answer (a skew so large that a timestamp cannot be written throws after some positions were taken,
and leaves a gap in the stream that no later answer depends on); the rates from which `FaultInjector` draws who sends (any subset of the devices); the
checks of request options, which answer 422 and change nothing.

### LiveUpdates

Follows one browser. The page has one query for the pole states of each transformer, of which it
shows the selected fault's, and `Records` for the summary, which stands for the faults and the
tickets too: the page treats the three alike. `version[q]` is what REST would answer to query `q`
now; a response carries the version it was read at, and `view[q]` is what the query has. `batches`,
`scheduled` and `flushes` are the pending pole changes, `poleFlushScheduled` and the microtask
queue; `socket` and `notified` are `useWebSocket`'s; `polling` and `selected` are the page's.

| Actions | Code |
|---|---|
| `PublishPoleStateTransition`, `FlushPoleStateChanges` | the cache is written and the transition published; the microtask sends a message per transformer |
| `Commit`, `PublishRecord`, `CommitUnacknowledged` | a transaction on faults or tickets, and the code after it that publishes, or does not because it sees an error |
| `OutageWindowPasses` | the summary's planned outages change with the clock, which announces nothing |
| `Accept`, `OnOpen`, `OnMessage`, `OnClose`, `Reconnect` | the emitter registers a connection; the callbacks of `useWebSocket` and what the page does on them |
| `Poll`, `Refocus`, `ReadModel`, `Respond`, `FetchFails` | a request, from the interval or the window's focus to its answer |
| `Select`, `RespondRecords` | the operator's selection, and the default one (`faults.data[0]`), which new records may move: the pole states of another transformer are shown, from a query that may have no data |
| `Collect` | the library drops the data of a query that has not been shown for a while |
| `Crash`, `Restart` | connections close and announcements are lost; the cache that is read may be one update ahead of the one that was lost |

How the query library treats an invalidation during a request (it starts again, unless the query
has no data yet, when it lets the request finish), a query that comes back on the screen (it asks, or joins a request
still in flight) and failures is external and modelled from its use. A query that fails gives up
after one retry; the retry is in the model a request that takes longer.

The code leaves some queries on a connected screen behind for good. The history variable
`excused` marks them, each at the one place where it happens, until they ask again: a commit whose
acknowledgement was lost; the clock; a query without data that is invalidated, or one that joins a
request already under way; a query that gave up. `NoSilentGap` and `ViewCatchesUp` say that there is no other
such place, and a first load does recur in them, with every selection of a transformer whose data were not
kept.

Left out: the content of announcements of faults, tickets and simulations, which the browser
does not read; backoff times; the page's own successful requests (`useTicketActions.ts`,
`SimulatorPanel.tsx`), which invalidate once more; a page in the background, which does not poll;
half-open connections; pages of a list read at different moments (a response has its first page's
version).

## 3. Runs

Passing runs:

| Run | Question |
|---|---|
| `telemetry_safety` | Two requests (single events and batches, one with an event of a wrong device), two timer invocations, failing statements, crashes and restarts: is the queue ordered, the filter exact, the overshoot bounded; do cursors, cache and rows agree; do the tables implement `PoleStream`? |
| `telemetry_liveness` | With all three kinds of failure, single events and a batch: is every request answered, the duplicate filter emptied, every accepted event applied unless one of its statements failed? |
| `ticket_faults` | Two commands and two handlers on one ticket, with rollback, lost acknowledgement and crash: do ticket and fault rows agree, does a stale update ever leave a ticket without a crew, is the fault resolved once and only when seen restored? |
| `ticket_liveness` | One fault, two handlers, one operator, no failures: is it resolved when power is back, is every request answered, every resolution published (of two publishes the order is free)? |
| `localization` | Over every tree of five poles, placement of devices, level, heartbeat age and outage: are the spans the live/dark frontier, is every dark pole accounted for, do overlapping faults say so, is confidence earned, would the verifier not close a fault at birth, does a fault keep its identity as it darkens? |
| `fault_ops` | Localizations against two handlers, with outages and every kind of failure: is there one active fault per identity, does a planned outage stay quiet, is evidence never rewritten, and is a restored fault always still to be seen by a handler, but for the named causes? |
| `fault_storm` | Dark reports of two transformers in any order, up to a feeder fault: does the chain always drain, even when localizations fail, and, once it has drained after a storm without failures or outages, is there an active fault of the identity of each candidate that the levels show (its evidence may be older)? |
| `simulation` | Two simulator requests of all kinds: is a claim of a key exactly a run of that key in progress, do overlapping runs plan distinct positions in stream order, and does only a later plan, a device report, a dropped event or a torn restart get a run refused (and the server killed)? |
| `live_updates` | One dashboard that selects faults of two transformers, a connection that breaks any number of times, a server that crashes, requests that fail: is a query on a connected screen that is behind always about to learn of it, but for the named causes; does a cut-off screen poll from every close to the next opening; are pole changes told as a chain; does the screen catch up? |

Runs that end in a counterexample, each of a sentence in the repository's documents (quoted in
`PROJECT.json`, `findings`):

| Run | The sentence, and what happens |
|---|---|
| `ticket_terminal` | verified is terminal: a stale command takes the ticket out of it, and no handler lists it again |
| `ticket_lost_restoration` | a restored fault is verified: a handler that loses one record to another abandons the rest of its loop |
| `fault_arrival` | order of arrival is irrelevant, one physical fault has one ticket: if the lower of two dark poles is localized before the upper one reports, both spans get an active fault and a ticket |

Smaller disagreements of the code with its documents, seen while modelling, that have no run:

* A concurrent second copy of an event can be answered stale (422) instead of duplicate
  (API-SPECIFICATION.md:454).
* State is said to be rebuilt from rows and recent telemetry (ARCHITECTURE.md:766); telemetry is
  not read, so a crash between insert and update loses the event for the state for good. In
  `Simulation` the next plan of that pole is then refused.
* A resolve that loses to a handler is answered 500, not 409 (API-SPECIFICATION.md:1895).
* Poles still dark when an outage window has passed are said to be looked at again
  (LOCALIZATION-SPECIFICATION.md:1091); only a new transition does that.
* `OvershootIsBounded` is the true bound of a buffer that `DECISIONS.md` calls fixed: requests
  that pass the capacity test together all push.
* A 409 of a simulation is said to mean a run in progress (DEPLOYMENT.md:39), but a repair of a
  fault that is already resolved is answered 409 too, as API-SPECIFICATION.md:1887 says.
* With `ackLost` in the telemetry safety run the cache would fall behind the row and an older
  event would overwrite it: cursors can go back.
* Of two concurrent resolves the later write can put the rejection count back by one, and two
  writers of a ticket may publish in the opposite order of their commits.

### Bounds

Telemetry: two poles with one device each; two positions and a reboot on the first, so that
ordering within a boot and across boots, staleness and retries all occur; two requests and two
drain invocations, because every race here is of a pair (two admissions, an admission and a drain,
two drains); capacity 1 or 2, so that a full buffer and the overshoot happen. Batches of two are
among the requests of both runs; in `telemetry_liveness` it is a loss of power followed by a reboot, so that the
second event of a request may be answered otherwise than the first.

Tickets: two monitored poles and one without a device (one of two live is below the threshold of
80%, two of two above it); one fault in the passing runs, two with a common pole in
`ticket_lost_restoration`. `MaxRejections` stops resolves of a ticket rejected that often; it
bounds the counter and hides nothing else, the proofs being for any number of faults and any
value. The number of handlers bounds restorations in progress: a pole comes back when a handler
slot is free. Symmetry is over requests, drain invocations, handlers and crews, in safety runs only.

Localization: one transformer with a recorded tree of five poles (with four no span can lie inside
another), numbered level by level as the seed numbers them, any subset with devices; one with a
single pole and no recorded topology; thresholds 50% for a feeder of two, 30% sensor gaps, 80%
restored; heartbeats all recent or all old, since only the last live pole's is looked at; outages of
nothing, of the first transformer or of the feeder.

Fault orchestration: in `fault_ops` a recorded line of two poles and a transformer of two poles
without recorded topology, one of them silent at first: a span fault, a transformer fault, one
whose evidence would grow, and a first report that makes a fault count as restored; three dark reports, enough
for a fault to be found, resolved and found again; two handlers. The workers are two although the
chain uses one, so that the chain has something to prevent. In `fault_storm` a recorded tree with
two spans and a single pole elsewhere reach all three types; four dark reports, one for each pole.

Simulator: two devices and a pole without one; two requests alive at once, since what they
share is shared by pairs; one reboot, two positions per boot, one repetition of a noise run and
one disturbed pole at a time. Dashboard: two changes of anything, so that one can be missed after
another was announced; two transformers, so that selections move, and one pole, on the first of them. The connection breaks as often as it likes.

`CHECK_DEADLOCK FALSE` stands in `Simulation.cfg` and `LiveUpdates.cfg`, where the bounds on
positions and on changes leave nothing to do in the end, and where a stopped server need not return.

### Fairness

`TelemetryPipeline!FairSpec` has weak fairness of each request's own steps (statements return and
promises settle) and of the drain as a whole (the timer fires again and again; one invocation may
do nothing because another is at work). `TicketWorkflow!FairSpec` has weak fairness of each
request's and each handler's steps, `FaultOps!FairSpec` of the chain, of the running localization
and of each handler. `LiveUpdates!FairSpec` has weak fairness of microtasks, of continuations
after a commit, of the polling timer, of a running server's answers, and of the browser's handling of what reached it.
The polling timer is fair because the page is taken to be visible. `ViewCatchesUp` is of a
connection that in the end stays open or stays away: one that breaks and opens for ever could
replace every request before its answer.
No fairness on clients, operators, poles, schedules, failures or connection attempts: they may
stop or never succeed. No fairness on `Restart` either: a crash empties memory, so what waits for
it does not wait for the restart, and `ViewCatchesUp` speaks of a server that runs. `Simulation` has no liveness property: a run whose answers are as
planned ends because its plan is finite.

`RestorationVerifies` says that after a pole of a fault comes back, the fault is resolved or is at
some moment not restored; it says nothing of a fault whose handlers ran before it existed, nor of
one whose handlers a crash took with it: `RestoredFaultIsSeen` of `FaultOps` names those causes.

## 4. Proofs

All theorems hold for every value of the constants that satisfies the modules' assumptions: any
poles, devices, events, batches, requests, drain invocations, capacity, faults, evidence, crews,
thresholds.

**Telemetry** (`TelemetryPipelineProofs`). Type correctness needs that only events of registered
devices get past validation, so `TypeInv` adds that to `TypeOK`. `DrainInv`: one drain is at work
and memory is empty while the process is down. On these rests `QueueInv`, the heart: for each pole,
the events in flight (in process, then queued) are strictly increasing and newer than the cache;
the pending cursor is the newest of them; the filter is their tuples; the state being persisted is
that of the event in process. None of these is inductive alone: the order of the queue follows
from the pending cursor, whose exactness follows from the filter and the single drain.
`BackedInv` relates states to telemetry rows. `SyncInv` relates cache and table and holds only
without `ackLost` (with it an older event can overwrite a newer row); under that
assumption cursors only advance, and every step is a step of `PoleStream` or a stutter.
The proofs use `DeviceAssumption`, that a device is on one pole: true of the seeded network, not
enforced by the schema.

**Tickets** (`TicketWorkflowProofs`). `WorkflowInv` adds to the checked invariants what a request
in flight carries (`CommandHolds`): its row may be stale, but a crew that row has is a crew the ticket
still has, a resolve about to write was allowed by its row, and its count is below the bound.
That is what makes "no ticket at crew_assigned without a crew" inductive in spite of stale writes.
The refinement maps an actor's voucher to its verifying phase: `Decide` and `Sweep` enter it only
if enough poles are live, and only the transaction resolves.

**Localization** (`LocalizationProofs`, `LocalizationScanProofs`). First what the operators are, for
any registry that `ValidTopology` accepts: the recursion of `Ancestors` is well founded, so it has a
value and unfolds; being above is a strict order, linear above each pole (`TreeOrder`);
`FindBoundary` is the walk it stands for (`BoundaryIsWalk`), so a boundary joins the nearest live pole
above to the highest dark one below that (`BoundaryEnds`), and there is one group for each pair of ends.
Then what localization finds: the groups are the border between live and dark (`GroupsAreTheBorder`);
a span inside another has its live end inside it (`SpansNest`); a fully dark transformer has no live
pole, a dead sensor being dark (`FullyDarkIsDark`); one more dark pole below a border moves neither
end of it, although its own level or its parent's suppression changes (`BorderOutlives`). All six properties
of the run follow, with no invariant but `ScanInv`: poles without a device are UNKNOWN and the
registry is one the seed can write, which `RegistryIsValid` shows to be one the resolver accepts. Assumed:
`ScanAssumption` (a finite registry, a pole on one transformer, thresholds above 0: the defaults
are, and configuration does not check it; a threshold of 0 would verify any fault at once).
The lemmas take registry and devices as constants, `LocalizationScan` has them as variables:
`SameInputs`, `SameCandidates` and the like carry the operators over. For the proofs about faults there are
`CandidateFacts` (a candidate has a place of the registry and no pole under an outage), `SameInput` (it depends on
the levels of its own transformer) and what one more dark pole changes (`DarkenedTransformer`,
`DarkenedFeeder`). The inductions go through least counterexamples in a set of numbers
(`SetOfNaturals`), because the library's induction theorems take an operator that the provers here cannot
instantiate.

**Fault orchestration** (`FaultOpsProofs`). `OneActiveFaultPerIdentity` is not
inductive: find and create are two steps. `OpsInv` adds what a localization carries from one to the
other: one job at a time (`OneJob`, from the chain), the row it is to update has the identity of its
candidate, and when it is about to create there is no active fault of that identity. Handlers run in
between, but only close faults. From it follow `OutagesAreQuiet`, since a candidate keeps the outages it
was found under, and step by step the refinement of `FaultRegister`. `RestoredFaultIsSeen` is
inductive relative to it: a fault can come to be restored only by a pole that comes back, which starts
a handler, by a fault's creation or by a first report, and every way a handler loses the fault
is one that `lapsed` records. `StormInv` strengthens `StormIsCovered` from the drained chain to
all its states: a candidate that the levels show has its active fault in the table, or is at hand in the running job, or a pole that
shows it is waiting on the chain. The core is `StillShown`: what transformers show after a pole went
dark is shown by the pole's own transformer, whose transition is waiting, or was shown before.
Assumed: `RegistryAssumption` (a finite registry that passed the resolver, a pole on one transformer
and that on one feeder) and `OpsAssumption` (ranges; no outage is a possible schedule).

**Live updates** (`LiveUpdatesProofs`). `LiveInv` adds three parts to the types. `ServerHolds`: announcements
are due only of committed changes, a transformer changes no oftener than the summary, and only a running server has the connection. `FlushHolds` ties
the flush flag to the queued flush and to waiting changes (a flag that outlived its flush would
silence the server). `HookHolds` ties polling to the state of the socket and to the notified flag, which is what makes a
second loss call for polling again; from it every step satisfies `PollingWhileDown`, where the page's first
attempt to connect is the exception. `Covered(q)`, that a shown query will show the newest version, has an
announcement on its way, or is excused, is what `NoSilentGap` says while connected, and is kept step by step.
`ChangesChain` is about what the browser will be
told, a flattening of all messages under way: `ChainInv` keeps each batch to the changes of its own
transformer, linked among themselves and to what the channel already holds, so a flush can append
the batches in any order of transformers. Assumed: `LiveAssumption` (finitely many transformers, a
pole on one).

**Simulator** (`SimulationProofs`). That the process is not killed by an unexpected answer
(`RefusalNeedsAnother`) is about the whole way of an event, so `SimInv` describes all of it.
`PlansHold`: every plan lies up to the producer's cursors, plans share no position, and of those of one pole the
run that reached the cursor is beyond all the others; hence `PlansAreFresh`. `QueueHolds`: the queue
of a pole rises from what is applied. `StreamHolds`: as long as nothing else moves the stream of a
pole it is behind the producer. `SentHolds`: what an undisturbed run has had accepted
is in the queue or the table, and what it has still to send is not. Each of these needs the others: a plan is
new because the cursor is ahead of the stream, and the stream stays behind because only plans move it.
Assumed: `SimulationAssumption` (targets and evidence are sets of registered poles; bounds are numbers).

Only model-checked: the liveness properties (liveness under fairness is beyond the prover
here) and the properties of the violation runs.

## 5. Not modelled, and the plan

`PROJECT.json` lists every component with its status. Every safety property of a passing run is
stated by a theorem. What a next step could add is less abstraction, not more proof: the least
covered code is read models, seeding and rendering.

Not modelled, with the reason: migrations and seeding (run once, before anything else);
serializers, pagination, rendering and configuration (no state, no decisions beyond formatting);
the outside services themselves; half-open connections, which no code detects; the summary of a
fault, which nothing else reads; nested or shrinking faults, for which there is nothing to model:
no code merges faults or looks again at a boundary when poles come back; and `PRESUMED_DARK` detection, which no running code performs.
