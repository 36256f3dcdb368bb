# RepoCiv in TLA+

Specifications, model-checking runs and machine-checked proofs for RepoCiv.  A
Python bridge (`server/`) takes commands from a browser dashboard, asks a person
for approval where policy says so, queues the commands and runs them with coding
agents.  The dashboard (`src/`, TypeScript) shows repositories as cities of a
map, agents as units, and the files of a repository as desks of an office.

The bridge promises not to lose, repeat or invent work across threads, failing
writes and restarts.  The dashboard promises that what it shows is so, whatever
answers come late, twice or not at all, and that what a user does acts on what
the user meant.  Both promises are specified here.  Those of the bridge are also
proved, for every number of commands, threads, failures and restarts.

Contents: 1 inventory, 2 modules, 3 runs and bounds, 4 fairness, 5 proofs,
6 what is abstracted, 7 plan, 8 where the code differs from what it says.

Paths are those of the repository; a line such as `game.ts:243` without a
directory is of the file of that name.

## 1. Inventory

`PROJECT.json` lists every component with its files and whether it is modelled.
The parts with state that others rely on are these.

The bridge (Python):

| Component | State it keeps | Operations | What is hard | What makes it correct |
| --- | --- | --- | --- | --- |
| Approval store (`approval_store.py`) | pending approvals in memory and in `approvals.json`, audited set | add, sweep, list, pop, peek, cascade, resolve | deadline against response; audit or rewrite failing half-way; restart | single use, never after the deadline, memory and file agree |
| Durable dispatch (`approval_resolution.py`) | consume lock | intent, consume, claim, audit, enqueue, done | duplicated HTTP and WebSocket responses; a crash between any two steps | delivered at most once, recoverable until queued |
| Dispatch ledger (`dispatch_ledger.py`) | one fsynced record per command | record, claim, done, release, recover | unlocked read-then-unlink; replay after a restart | only a consumed approval is replayed, a claim is never dropped |
| Event store (`event_store.py`) | append-only log | append, read | read errors | terminal events are terminal |
| Scheduler (`scheduler.py`) | queue, its file, slots | enqueue, cancel, dispatch, worker loop, reload | pop against enqueue; unlocked dump; slots and exceptions | bounded concurrency, one runnable copy, nobody held back |
| Command bus (`bridge.py`) | none of its own | submit, approve, reject, cancel, start-up | order of the start-up steps | recovery before new work |
| Task orchestrator (`task_orchestrator.py`) | task registry; `state.json` and sentinel of an issue | run, cancel, gate, resume, circuit breaker | cancel against the run thread; many calls of `run_task` make one task | nothing skipped, repeated or passed unreviewed |
| Recovery (`task_recovery.py`, `checkpoint.py`) | checkpoints, registry | reconcile, resume | a crash between a step and its checkpoint | an interrupted task waits for a person |

The dashboard (TypeScript, `src/src/`):

| Component | State it keeps | What is hard | What makes it correct |
| --- | --- | --- | --- |
| Bridge client (`bridge.ts`, `websocket.ts`) | socket, event stream, timers, online flags | three callers of `connectSSE`; events that are fire and forget | one stream, none after stop, a lost event made good by a snapshot |
| Poll scheduler, status banners | polls, banner, indicator | answers that meet a closed banner or a hidden page | what was dismissed stays away, no burst, the indicator follows |
| Notification banners | queue, active banner, timers | click, auto-dismiss and exit timers on one banner | order kept, one at a time |
| Approval panel and cards | items, cards, settings | poll, event, click and expiry settle one command | a card says what the server decided |
| Chat transcripts | history per unit, one DOM container, storage | chunks for one unit while another is shown | no chunk lost, container and storage agree |
| Units, missions, sub-agents on the map (`game.ts`, `subagentManager.ts`) | units, routes, runs | two transports, snapshots overtaken by events | no ghost, walks end, map comes in line |
| Agents panel and directory | open chat, drafts, lists, attention chips | answers after the user moved on; a list that fails looks empty | only the open session is shown, nothing invented |
| Map and editor (`map.ts`, `ui/mapEditor.ts`) | tiles, cities, saved edits, undo stack | edits replayed at load; undo after redo | what is seen is what a reload rebuilds |
| Pointer and keys (`renderer.ts`, `localRenderer/input.ts`) | gesture, tool, what is held | two views listen on one canvas | one owner; a release acts on what was pressed |
| View switch (`renderer.ts`, `localRenderer/transitions.ts`) | mode, transition, renderers, offices fetched | lazy renderers, overlapping fetches | one scene, of the repository entered |
| Office (`localMap.ts`, `localPathfinding.ts`, `localWorldManager.ts`) | rooms, tiles, desks, missions, rest | seven passes draw on one grid; missions interrupt rest | desks and beds are whose they seem |
| 3D map (`three/`) | signature and picture of 20 layers, figurines | a layer that keeps its picture for too long | after a frame every layer shows the land as it is |
| Office picture (`isoLocalRenderer.ts`, `localStaticLayers.ts`) | kept layer, doors, particles | a thing painted in both layers or in none | each thing once, the office as it is |
| Wonders (`wonders/`, `ui/wonderVignette.ts`) | registry, districts, tabs, window, launch | reloads overlap; windows are closed while awaited | map follows registry, no window shows a dead server |
| Windows (`ui/hudWindow.ts`, `ui/unitPanelDock.ts`) | place, size and saved layout | drag, dock, resize and frame interleave | on the screen, at the nearest free place |

How they interact.  Request threads of the bridge (HTTP, WebSocket) call policy,
then store or queue.  An approve goes store → ledger → store → ledger → event
log → queue → ledger.  The worker thread sweeps the store, pops the queue,
appends `CommandStarted` and starts a run thread, which appends the terminal
event.  The main thread does all recovery before the worker starts.  A
`task_run` command runs `run_task` in its run thread while a request thread may
call `cancel_task`.  All share files under one configuration directory; each
file has a lock of its own and there is no transaction across two of them.

The page gets events over a WebSocket or an event stream (and at times both),
snapshots over HTTP, and sends one request per decision.  Inside the page
everything runs on one thread: what interleaves are handlers, timers, frames
and the continuations of awaited requests, which find the state as others left
it.  Python threads, files and crashes on one side, callbacks on the other: that
is where the hazards in `PROJECT.json` come from, each at the line where it bites.

## 2. Modules

A step of a model is a section under one lock or one durable write (Python), or
a handler up to its next `await` (TypeScript); this is the grain at which the
program interleaves.

The bridge:

| Module | Models | State and code |
| --- | --- | --- |
| `BridgeFiles` | `event_store.py`, the queue as the delivery sees it | `log`: which of the four event types that are read each command has; `queue`, `queueDisk`: `_queue` and its file |
| `ApprovalStore` | `approval_store.py`, `dispatch_ledger.py` | `pending`: `_approvals`; `pendingDisk`: `approvals.json`; `audited`: `_expiry_audited`; `due`: the clock; `ledger`: none, intent or claimed |
| `ApprovalDelivery` | the composition: `approval_resolution.py`, routes of `bridge.py`, recovery | `pc`, `arg`, `batch`: where each thread is; `consumeLock`; `running` |
| `DeliveryContract` | abstract gate: new, waiting, granted, refused, started | what the delivery implements |
| `DeliveryProofs`, `ContractProofs` | proofs, section 5 | |
| `Scheduler`, `SchedulerProofs` | `scheduler.py` in full: lock, sort, slots, worker, run threads | `leases`: `_leases`; `queueLock`: `_queue_lock` |
| `TaskOrchestrator`, `TaskProofs` | `run_task`, `cancel_task`, `task_recovery.py`, the files of one issue | `phase`, `gate`: `state.json`; `sentinel`: `.repociv/status`; `ckpt`: checkpoint file; `reg`: `_registry` |

The labels of `ApprovalDelivery` follow `resolve_approval` and
`dispatch_approved` in order: `peek, record, popNew or popOld, claim, audit,
enqueue, done`; `missing, check, unlink` is the answer to a response without
approval; `cxl…` and `cascade` are the cancel route; `down, hung, reconcile,
scan, replay, up` is `main`.  The sweep treats each expired entry independently
(removed; audited but kept; untouched), which covers a failing audit and a
failing rewrite per entry; a crash between audit and rewrite is that outcome
followed by `Crash`.

`Scheduler` looks at the queue file at a finer grain: taking the lock and
sorting is one step, popping and dumping the next, because CPython empties a
list while it sorts it and `cancel` serialises that list without the lock.  The
priority order is left open: it depends on age, fatigue and reputation, which
change between two sorts.

`run_task` holds the lock of its issue from the first read to the return, so
one call at a time is in progress and a task is a sequence of such calls,
separated by gates, failures and restarts.  `cancel_task` takes no such lock: it
loads, patches and registers in three steps anywhere between those of the call.
Agents and people write the sentinel file directly.  `Restart` is a process
death followed by `reconcile_on_startup`.

The dashboard:

| Module | Models |
| --- | --- |
| `BridgeClient` | `bridge.ts`, `websocket.ts`: socket, streams `c.sse`, timers, `health` requests in flight, snapshot replay |
| `StatusPolling` | `ui/pollScheduler.ts`, `ui/hermesStatusBanner.ts`, the MCP indicator |
| `Notifications` | `ui/notificationBanner.ts`: queue, active banner, `autos` and `exits` are its timers |
| `ApprovalUI` | approval panel, `ui/approvalCards.ts`, the cards in `ui/chat/history.ts`, auto-approval |
| `LinkProofs` | proofs about these four, section 5 |
| `ChatTranscript` | `ui/chat/state.ts`, `ui/chat/history.ts`, `ui/chat/panel.ts`, the local feed |
| `AgentChat`, `SessionDirectory` | `ui/agentsPanel.ts`; `ui/externalSessionDirectory.ts`, `ui/agentAttention.ts` and its strip |
| `Detachments`, `ExternalAgents` | missions and sub-agent runs (`missionLifecycle.ts`, `subagentManager.ts`); units, walks and snapshots (`game.ts`, `externalAgents.ts`, `ownSessions.ts`) |
| `AgentsProofs` | proofs about these five, section 5 |
| `MapEditor`, `EditHistory` | `map.ts` operations with what they save and reload; `mapEditHistory.ts` with strokes and groups |
| `WorldWonders`, `WonderVignette` | `wonders/manifest.ts` against `map.ts`; `ui/wonderVignette.ts` with `wonderLauncher.ts` |
| `WorldProofs` | proofs about these but `EditHistory`, section 5 |
| `MapPointer`, `LocalPointer`, `LocalPanels`, `HudWindows` | gestures on the map; presses in the office; the panels over it; the windows of the page |
| `ViewSwitch` | map and office, flat and in three dimensions, loads, fetches and the frame that switches |
| `ViewsProofs` | proofs about these but `HudWindows`, section 5 |
| `OfficeFloor`, `OfficePaths`, `OfficeLife` | planning and drawing the office; A* and the nearest desk, tile by tile; agents, desks, missions, beds and sub-agents |
| `SceneFrame`, `UnitFigures`, `LocalLayers` | the layers of the 3D map; its figurines, routes and slots; the picture of the office |

`ApprovalDelivery` and `TaskOrchestrator` are checked as they stand
(`MCDelivery_…`, `MCTask_…`).  Every `MC` module but `MCScheduler` holds several
components that do not read each other's variables, or several instances of one
component with constants that let different things happen.  A behaviour picks
one of them (`part`, fixed in the initial state) and the others rest.  Their
states add up instead of multiplying, which loses nothing: a product of
independent machines satisfies a property of one of them exactly when that one
does.  Each property of such a module says, part by part, what holds there.

| Module | Parts |
| --- | --- |
| `MCContract` | approving, mission, posting, expiring, recovering (all `ApprovalDelivery`) |
| `MCLink` | bridge, polling, banners, patient, cards |
| `MCAgents` | transcript, chunks, pair, single, composer, strip, directory, drift, quests, runs, visitor, resident |
| `MCWorld` | paint, district, towns, selection, history, wonders, single, patient, hasty |
| `MCViews` | editor, orders, panning, flat, three, hurried, crossing, clicks, panels, gripped, windows |
| `MCOffice` | team, sleepers, solo, ephemeral, plan, zones, teams, crowded, tight, ways, benches |
| `MCPictures` | land, town, loading, alone, pair, leaving, frames, doors, painted |

In `MCAgents`, `MCWorld` and `MCViews` the constants of a component are one record
(`Chat`, `Pair`, `Founding`, `Drift`, …), so that a part is an instance
`Transcript(Chat)`, `Transcript(Chunks)` and so on of the component under the
record's fields, and `Bounds` assumes of each record what the component assumes
of its constants.

Operators whose comment begins with "Slip of" are plausible mistakes in the
code they stand next to; put in the place of the original, each must break the
property `PROJECT.json` pairs it with.

`map` in `PROJECT.json` gives the source of every definition.  Helpers that only
name a part of a larger operator are covered by the lines of that operator.

## 3. Runs and bounds

| Run | Instance | Shows | Time |
| --- | --- | --- | --- |
| `MCDelivery_one` | one gated command, two handler threads, every request, two failing writes, two crashes | `RunsOnce`, `NothingIsForgotten`, `RefusedStaysRefused` | 24 s |
| `MCContract` | two commands approved under two crashes; a mission with a child under every request, or one that policy lets through, with a crash; one command under two failing writes and a crash, or two crashes | `ImplementsContract`, `WithdrawnNeverRuns`, `Delivers` | 174 s |
| `MCScheduler` | two commands of an agent with one slot, whose runs may hang, and one of an agent with two; cancels, a failing write, a restart | `SlotsHold`, `NoHeadOfLineBlocking` | 61 s |
| `MCTask_safe` | plan of three steps, circuit opens at two failures, two cancelling threads, two failing writes, two restarts, agents that block at any time | `StepsAccounted`, `NothingIsRepeated` | 59 s |
| `MCLink` | a server that goes down or up and a request that fails; polls every two ticks; four notifications; one high-risk command | `OneStream`, `BannersKept`, `CardTruthful`, `NothingTooSoon`, `NothingIsStuck` | 137 s |
| `MCAgents` | two units with two questions each; two sessions; two runs, or one run or mission over two transports; an agent between two cities | `TranscriptsKept`, `ShownIsOurs`, `AttentionHonest`, `NoGhost`, `NothingIsStuck` | 73 s |
| `MCWorld` | three edits on a row of seven or eight hexes; three strokes over a stack of two; three wonders for a ring of two hexes; four wonders, two windows | `EditsAreSaved`, `UndoRestores`, `MapFollowsRegistry`, `NotBlind`, `EveryWindowShows` | 48 s |
| `MCViews` | three hexes, two cities, two tiles, two offices, two windows on a screen of two sizes | `InputHasOneOwner`, `WindowsFit`, `FramesAgree`, `ActsOnWhatWasPressed`, `Leaves` | 131 s |
| `MCOffice` | five folders in a small grid; one folder of every zone; three teams; two folders in a grid so small that rooms overlap, touch and reach below it; six folders of which the last does; every office of 3 × 3 tiles of floor and wall; two agents, a sub-agent, two desks, one bed | `OfficeHolds`, `FloorStands`, `FloorGrows`, `PathIsAWay`, `MissionsEnd` | 93 s |
| `MCPictures` | a row of four hexes under two or three changes; two units on three hexes; two offices of some twenty tiles | `LandShown`, `FiguresFollow`, `NamesFit`, `EachThingOnce`, `Catches` | 112 s |
| `MCDelivery_lost` | finds the counterexample to `NeverSilentlyLost`, section 8 | | 1 s |
| `MCTask_cancel` | finds the counterexample to `CancelledIsTerminal`, section 8 | | 1 s |

The comment before each property says what it promises, part by part.

Why small is enough.  The delivery treats commands independently except for the
shared files and the cascade, so one command shows the protocol, two show the
sharing and the parent relation.  Two handlers are every pair of concurrent
requests, and each repeats any request without limit.  Two crashes allow a
crash during the recovery from a crash; two failing writes a failing retry.
Slots of one and two are both sides of the limit.  Three steps give a plan a
first, a middle and a last one.  The theorems of section 5 need no bounds.

In the page an error takes an answer that comes after another one, so two
requests of a kind in flight, two chats, two transports or two windows are what
it takes; more repeat the same. The map is a row of hexes, long enough for two
cities the minimal distance apart and a third place to move to.  Office floors
are planned in grids of 24 to 40 tiles instead of 60, so that they fill, grow
and run over; the folders of the part `tight` are one list, in which the last
room is higher than what its shelf has left.  The ring of 18 hexes around the
capital is modelled by two, so that it can be full.  `HudWindows` lays its windows on a coarse grid, lets the pointer
do no more than move and come up between two frames, and stops after five acts.
Polls fall due every two ticks, the shortest interval in which a burst differs
from a poll on time.  The bridge of `Detachments` rests while a transport has
`MaxQueued` events to deliver (two, or eight where there is one run), which is
more than it takes for an end to overtake a start on the other one.
`OfficePaths` is checked on every layout of its size.  All bounds are constants
named `Max…`, with what they bound where they are declared.

## 4. Fairness

Threads of the bridge: a request that began continues, the worker goes round
every two seconds, a started process boots.  Nothing is assumed about new
requests, about time, crashes, or the end of an agent's run.  `Scheduler` adds
strong fairness for taking the queue lock (a Python lock is handed over
eventually) and for dispatching each command, which is the ageing term of
`_priority_score`: it grows without bound, so no command that gets a free slot
again and again stays behind for ever.  `HangingSpec` says that the runs of the
agents in `Prompt` end and those of others may not.  `TaskOrchestrator` has
safety properties only: whether a task goes on is decided by people and agents,
of whom the code assumes nothing.

The page: timers fire, requests are answered or fail, queued events are
handled, frames are drawn.  Nobody has to click, no server has to come back and
no event has to arrive.  Two assumptions are stronger and stand in the
properties or the specification where they are needed: some answer to a poll of
an open chat comes in the end (strong fairness on the answers in `MCAgents`,
as the poll repeats for ever), and the directory is fresh only once the
sessions rest.

## 5. Proofs

TLAPS proves what follows for every value of the constants: any set of commands,
handler threads, agents and limits, any parent relation, plans of any length,
any number of failing writes and restarts.  The only assumptions are those
named `…Assumption` in the modules, which say that the constants are of their
kind, `Bounds` in `MCContract`, `MCLink`, `MCAgents`, `MCWorld` and `MCViews`, which
collects those of the parts, and what a theorem states itself.

### Delivery: single use (`DeliveryProofs`)

`DeliveredOnce` (`RunsOnce`) with its parts `TypeCorrect`, `RunAtMostOnce` and
`OneRunnableCopy`.

The property is not inductive: between the pop and `CommandStarted` the worker
holds a command that neither the queue, nor the file, nor the log knows of, so
`enqueue_dict` would accept a second copy.  What excludes it is the single-use
consume: a handler that may enqueue `c` took `c` out of the store
(`CarrierInv`), whatever is claimed, carried, queued or started has no approval
left (`ConsumedInv`), and recovery enqueues only while no worker exists
(`ControlInv`).  `BootInv` says that memory and file agree during recovery, so
"gone from the store" means gone for good.  `RunInv` ties runs to events.
Eight actions move a copy of a command; all others are `Quiet` (`QuietKeeps`).

### Delivery: nothing is forgotten, a refusal is final (`DeliveryProofs`)

`NothingForgotten` (`NothingIsForgotten`) and `RefusalIsFinal`
(`RefusedStaysRefused`), both from `Safety`: `IInv` and `SInv` always hold.
The parts of `SInv`:

* `LedgerInv`: the consume lock makes record, pop and claim one section
  (`HoldsSection`).  `release_intent_if_unclaimed` reads and unlinks outside of
  it.  What protects a claim from that unlink is that whoever may release an
  intent came upon an approval that nobody can take any more, while nobody is
  about to claim it (`ReleasesSafely`); and an intent is released or passed
  over only if its command needs no ledger any more (`LosesNothing`): it has
  been in the queue file, has an outcome in the log, or is overdue.
* `RecoveryInv`: what memory alone knows as queued, recovery does not meet
  again.  Otherwise it would skip the enqueue and delete the intent.
* `ExpiryInv`, `RejectingInv`, `RejectedInv`: an approval that is overdue,
  being rejected or rejected is in nobody's hands who could still run it.
* `RemovalIsDurable`: what is gone from memory is gone from the file, except
  for the children of a cancelled mission (section 8).

`Bystander`, `TurnKeeps`, `AsideKeeps` and `PassingKeeps` say which threads a
step leaves as they were, so that each action argues about one thread only.

### Delivery: the contract (`DeliveryProofs`)

`Refinement`: `ApprovalDelivery` implements `DeliveryContract` under the
mapping `Outcome`, with `MaxFaults = 0` and `Tame` (no crash, or nothing but
approvals is requested).  These are what the code needs, not what the proof
needs: a submission whose write failed is pending in memory only, a crash loses
it, and recovery takes the intent of an approve for a consumed approval; and a
reject or a cancel that a crash interrupts is replayed as if it had been an
approve (section 8, `RunsOnlyIfAuthorised`).  The parts `approving` and
`mission` of `MCContract` satisfy both assumptions, one each.

`WithdrawnStaysOut` (without a restart nothing withdrawn runs) has no such
assumption on writes or requests.  `LifeAlways` is the invariant behind both:

* `FirstBoot`: the first boot finds no file and replays nothing; only after a
  crash does recovery meet an intent.
* `WithdrawnInv`: within one life of the process nothing takes a withdrawn
  command up again.
* `RequestInv`: which request a thread is serving, from where it stands.
* `AccountInv`: the account of the store: what a request has been through
  agrees with where it is kept.

The proof of the step: a command is in a stage (`Stage`), its outcome is the
stage (`OutcomeIsStage`), and every step takes every command along an allowed
change of stage (`StageStep`), of which the contract's next-state relation is
the sum (`ContractStep`).  With the change from granted to refused taken out of
the contract the proof fails, as it should.

### Delivery: the parts of the run (`ContractProofs`)

`ContractKept` (`ImplementsContract`) and `WithdrawnStays`
(`WithdrawnNeverRuns`) are about `MCContract`, whose parts are instances of
`DeliveryProofs`, theorems included: a behaviour of a part is one of
`ApprovalDelivery` under the constants of the part, which meet the assumptions
of `Refinement` and `WithdrawnStaysOut`.  The commands, the parent relation,
the threads and the numbers of crashes and failing writes are constants of
`MCContract`, so both hold for all of them.  What is proved is that what the
contract sees of a part is what the part says (`ContractSees`).

### Scheduler (`SchedulerProofs`)

`SlotsAlwaysHold` (`SlotsHold`): no agent has more runs than its limit, and
nothing that started is in the queue or its file.  The number of runs says
nothing of the slots, so `SlotInv` relates both: the slots of an agent are at
least the runs it has and the one it is about to have, and exactly those until
a write fails (then a slot may leak, section 8, so equality cannot be had).
The file holds nothing started because the command between the pop and its
event is in no list either (`PlaceInv`), and its id cannot be enqueued again
(`KnownInv`).

### Task (`TaskProofs`)

`TaskStepsAccounted` (`StepsAccounted`) and `NothingRunsAgain`
(`NothingIsRepeated`), with their parts as theorems of their own, all from
`TaskInvariance`:

* `SavedInv`: what was checkpointed is below the checkpoint and the loop works
  above it; the checkpoint is deleted only once the task can never run again.
  Both places that delete it can be reached while `cancel_task` writes, so the
  conjunct says which phases that leaves.
* `AttemptInv`: what a checkpoint or a passed gate skips was begun.  The
  induction follows "all steps are done" from the loop through the gate in
  `state.json`, over any number of restarts, to the local of a later call.
* `OrphanInv`: while the task is an interrupted one, the registry says so and
  the call is not past the check.
* `GateInv`: the gate on disk is the one the resuming call read, and while it
  is set the sentinel blocks or a person has cleared it.
* `LocalInv`: which step and outcome a call holds where.

`OnlyExecuteBegins` and `OnlyGatesChangeGate` reduce the action properties to
the one action, or the few, they are about.

### The link (`LinkProofs`)

`StreamsHold` (`OneStream`), `BannersStay` (`BannersKept`), `CardsSpeakTrue`
(`CardTruthful`) and `NothingIsRushed` (`NothingTooSoon`), all from `LinkHolds`.
The constants of `MCLink` are its parts and those of its four components, so
the theorems are about any number of timers, requests, faults, notifications
and commands, and any intervals.  `Linked` has one part for each component:

* `TransportHolds`: no stream but the one `sse` refers to exists (`Held`), and
  none once stopped.  The synchronous calls compose as in the code, so there is
  one lemma per call: what it makes of a client that is `Held` is `Held`, and a
  stopped client opens nothing (`Follows`).  That lets `stop()`, which closes
  the socket first, run the socket's status handler, and a timer whose handle
  was overwritten fire after it.
* `InTurn`: what was shown, followed by what waits, counts from one to `idSeq`;
  two lemmas on sequences (`CountsOn`, `MovesOn`) carry it over a notification
  and a change of banner.  `Alone`, for the patient user: at most one exit
  timer is pending, for the banner shown, and its auto-dismiss timer is not.
* `PollsPaced`: what a poll has waited and has left to wait make its interval
  (`Paced`), and until the one request of the mount is answered there is
  neither a poll nor a banner (`OnceMounted`).  At most one banner exists, so
  closing it leaves none for a late answer to bring back.  That a new banner
  finds a place no refresh in flight is about is the pigeonhole principle on
  the numbers of the requests (`FindsARoot`).
* `CardsHold`: events, answers and cards say what the server decided.  A card
  that says expired stays so because no `waiting` event of its command is left
  behind an `expired` one (`EventsTrue`).  `Confirmed`: a press that awaits a
  second one is the last press of the panel.

`BannersStay` and `NothingIsRushed` assume `Mounts <= 1`: `main.ts:368` is the
only call of `mountHermesStatusBanner`.  A second one can leave two
banners (section 8, `OneBanner`), of which closing one leaves the other.

### The agents (`AgentsProofs`)

`TranscriptsAreKept` (`TranscriptsKept`), `OnlyOursShown` (`ShownIsOurs`),
`AttentionIsHonest` (`AttentionHonest`) and `NoGhostStays` (`NoGhost`), for any
units, sessions, runs, connections, cities and any length of the map.  Each
component has an invariant and three lemmas about it: it holds at the start,
every action keeps it, and so does a step of another part.

* `TranscriptHolds`: two halves that each action keeps on its own.  `Slots`, what
  is kept of a transcript: an answer under way is at its index and consists of
  the chunks in the buffer, which are those that came; what is stored is the
  transcript, or the transcript without the empty answer that was just begun.
  `Screen`, what is shown: the container shows the unit that is bound.
* `DialogHolds`: a request in flight asks for a version of its own session.
* `RosterHolds`: who appears at work in a list, or in the one being read, is at
  work or has ended a turn since; the strip compares each list with what it saw
  last (`previous`).  That is why a late list invents no stop.
* `Ghostless`: the map is right only once everything was delivered, so the
  invariant must say what is still to come: on every connection the last event
  of a run tells whether it runs (`EndsWith`), and what was delivered
  everywhere agrees with the map.  It needs no bound on the connections.
* `Orderly`: over one connection no event registers a run again after its end
  (`InOrder`), and a completion is preceded by the end on the server or by a
  recall that makes it void (`Told`).  The part `runs` assumes one
  connection, in `Bounds`: with two, the second copy of a start may follow the
  first copy of the end, and the run is listed again, as a mission is counted
  again (section 8, `CountedOnce`).
* `AgentsHold`: a walking unit has a target and a path that ends there
  (`PathLeads`).  Snapshots and events are any the bridge can send.

`StepOfPart` brings the components together: a step of `MCAgents` is a step of
one of them under the constants of its part, and the others rest.

### The wonders (`WorldProofs`)

`MapFollowsTheRegistry` (`MapFollowsRegistry`) and `NoWindowIsBlind`
(`NotBlind`), for any wonders, listing, ring, cities and layers, any number of
overlapping requests, faults and files written by hand, of windows and polls.

* `WondersHold`: the lists that requests carry have no wonder twice
  (`Requests`), the districts are those of the wonders of the registry that
  have a hex (`PlacesOfList`), the tabs those of all of it, and no request is
  under way before the page starts.  `SyncFollows` is about `syncWorldWonders`
  alone: the districts after it are those of its list, whatever was on the map.
* `Fresh`, for one request at a time: which of the registry and the list that a
  request carries is that of the disk, from where the request stands.  The
  assumptions of `Alone` in `Bounds` are what it needs: with two requests the
  answers may come in the other order, a failed reload leaves the registry
  (section 8), and a file written by hand is seen at the next load.
* `WindowHolds`: a window has a frame just when its page loads or has loaded,
  and then its last answer was good (`Views`); the awaits of an opening change
  nothing but its window and the mounted one (`Turns`), also when the window
  was closed or replaced long ago.  A closed window listens to nobody.
* `Followed`, for a user who waits: only the window on the screen is at work,
  so the mounted frame is the one on the screen, and was told the city.
  `NotAtWork` is the only place the waiting is used; without it the late answer
  of a closed window is mounted, and the city goes to it instead.

### The editor's undo (`WorldProofs`)

`UndoDoesRestore` (`UndoRestores`) and `EditsStand`, for any repos, row of hexes,
terrains and tools and any number of edits, undos, redos, reloads and
selections: an undo puts back the map and the paint its edit found, and all that
was saved if what was saved was there when the history began; and no edit, undo
or redo puts two cities on a hex, leaves one on a hole or removes the capital.

* The condition is the ghost `fits`, the value of `Accounted` when the page
  loaded: an erased hex is off the map, a repo that was removed too, and a repo
  off the map has no place.  A reload may refuse a saved edit (a hex erased
  under a city that is back, the place of a repo that is not selected); then the
  inverse of a later edit takes the old saved entry along (section 8).  The run
  with three edits is too short for one of the two cases; the proof found it.
* `Reverts`: edit by edit, what the edit and then its inverse make of a world
  and a document (`PaintIsUndone` to `MoveIsUndone`, from what each setter of the
  store changes), whatever else the document holds by then.
* `Behind` and `Ahead`: the two stacks are one path.  Each step was possible
  where it was made, what it left is what the next one found, and what was
  undone waits in front.  So a redo is possible again and meets what its undo
  left (`OnTheMap`: what an edit does to map and paint depends on nothing else),
  and `redoMapEdit` may put the operation's new result on the undo stack.
* The hypothesis `LoadsStand`: a history begins on a well-formed map whose
  cities stand.  That is what the layout and the replay of the saved moves make,
  which are recursive functions, and a row may be too short for the repos; TLC
  checks it, as a part of `EditsAreSaved`.

### The views (`ViewsProofs`)

`InputHasAnOwner` (`InputHasOneOwner`), `FramesDoAgree` (`FramesAgree`) and
`ActsOnThePress` (`ActsOnWhatWasPressed`), for any hexes, units, cities, tools
and keys, any repositories, loads and answers in flight, any floor, zones and
files.  Two invariants, `Owned` and `Pressed`, have one conjunct for each part;
the windows, the remaining part, are placed by folds and stay with TLC.

* `MapHolds`: a stroke is open only while the left button is down and the brush
  is the tool, although the button may come up over a panel, the window lose
  the focus and the unit that was pressed be removed.  `Held`, for the parts
  whose window keeps the focus: the view turns only while the middle button is
  down.  With `away` it does not hold: `blur` ends a stroke, not an orbit.
* `OneOwner`: the office has the mouse only on a marked canvas, its chat comes
  and goes with the class of the body, and only WebGL has a renderer on, one at
  a time.  A frame is several assignments to one record, each of which may
  break that for the next to mend; `FrameShows` follows the record through
  them, for each pair of views and each renderer that may be missing, and says
  what the frame leaves on, painted and given.
* `ZoneOfPress`, `OnePress`, `Begun`, each with what it needs: the rectangle of a
  zone goes from the press to the pointer, always; an agent is in hand and the
  camera panned only during the press that began it, if a press ends in the
  view it began in; and every press has begun one of the three, if no key is
  hit meanwhile.  The three parts of the office in `Bounds` are those cases.
* `PanelsHold`: a panel that is shown has a closer that listens, a timer that
  will arm one, or an answer that will.  `Named`: the repository of a mission is
  that of its desk, if the desk is clicked once its office is drawn (section 8
  for `Late`).

TLC checked each inductive invariant on small instances as well.

### What stays with TLC

* Liveness (`Delivers`, `NoHeadOfLineBlocking`, `NothingIsStuck`,
  `EveryWindowShows`, `Leaves`, `MissionsEnd`, `Catches`): the prover has
  neither fairness nor `ENABLED`.
* What recursive or folded functions compute for every input (office floor,
  paths, saved moves replayed in rounds): induction over data is out of its
  reach, and `OfficePaths` and `OfficeFloor` use recursive operators.
* The invariants and action properties of the reload and of strokes
  (`EditsAreSaved`), of the windows (`WindowsFit`), the office and the pictures
  (`MCOffice`, `MCPictures`).

## 6. What is abstracted

* A command is an id; ids are random and not reused.  Only the four event types
  someone reads are kept, as a set.
* Deadlines: `due` grows; a command may be submitted with a deadline that has
  passed by the time anyone looks.
* Corrupt records, read errors and power loss (files that are not fsynced) are
  left out; see the hazards with a note.
* The run of an agent is its start and its end.
* A call of the sub-agent tracker is one step of `Detachments`: two calls about
  one run do not overlap, although its lock is given up between a call's change
  and its events.
* A command that policy lets through or rejects is one of a fixed set (`Blocked`
  for the rejected): which it is depends on nothing that changes.
* `TaskOrchestrator` is one issue; issues share nothing but the registry
  dictionary.  The plan keeps its length.  The sentinel "ok" blocks nothing and
  counts as none.  Step retries happen inside the step.  A person who clears
  the sentinel file has reviewed: that is the reading of the code.
* Texts, colours, sizes, curves, zoom and camera arithmetic.  A message is its
  number, a picture of a tile the set of things on it, a layer its signature and
  what its input gives.
* A poll that is aborted when its panel closes is one whose answer nobody hears;
  both are an answer that changes nothing.
* Of the wonder window: where it lies and how it is dragged, and the answer
  `already_running` of the launcher, which the page treats as a start.
* Only the isometric office is modelled: nothing calls `setIsometric`, and the
  frame of `tileDrawing.ts` is never reached.  The relocation mode is reached
  from the map editor only.
* Kiosk, bed, heater, cooler, conduit, power source and stockpile tiles have no
  sprite in `drawIsoTile` and show bare floor, in the model too.  A failed load
  of the atlas is never tried again.  How far a door is open is kept by tile and
  survives `setWorld`.  Batteries have no fuel, and the manager's tile is
  reserved.
* Any sequence of folders is planned whose files the repository may have.  A
  folder inside another counts its files twice, in the code too; the sequences
  that makes are among those.
* Units on the map matter to the editor only where one is in the way of a city.
  A move that is refused for it changes nothing, but a redo that is refused
  does: the history is not followed further from there until the page is loaded
  again (`refused`, section 8).
* A press outside of the map's menu closes it once the menu listens, 50 ms after
  it opened: any press may find it listening or not.
* What is not modelled at all is listed in `PROJECT.json` with the reason:
  servers' fan-out, subprocesses, importers and reports on one side; canvas
  drawing, shaders, the 3D office, forms and lists on the other.

## 7. Plan

Done: the bridge (delivery, contract, scheduler, task) with proofs; the page
(link, agents, world, views, office, pictures) with runs, and proofs of the first
four.

Next, in this order:

1. An abstract life of a task (planned, working, waiting for a person, ended)
   that `TaskOrchestrator` implements; the task composed with the delivery
   through a `task_run` command, so that reconciliation and replay meet.
2. Proofs about the figurines and the missions of the office (`FiguresFollow`,
   `OfficeHolds`), whose constants would have to become those of their modules.
3. Power loss as a durable and a buffered half of the files.

## 8. Where the code differs from what it says

Each entry is a claim of a comment, test or document that the model refutes.
The property is defined at the end of the module named, and the properties of
the runs are stated so that they do not claim the contrary.  Two have a run of
their own, `MCDelivery_lost` and `MCTask_cancel`.  To see another one, state it
in the `MC` module that has the component (`part = "…" => Instance!Property`),
name that in the run's configuration and give the constant its value that lets
the occasion happen: `Retry` (`ChatTranscript`), `Reopens` (`AgentChat`),
`Keyboard` (`EditHistory`), `Late` and `Grip` (`LocalPanels`), `Outside`
(`LocalPointer`), `Painting` (`LocalLayers`), larger offices (`OfficeFloor`),
more kinds of `Changes`, `Tools` or `Movable` elsewhere, five edits with `erase`
and `place` (`MapEditor`).  The parts `crowded`, `solo`, `town`, `land` and
`runs` refute `RoomsInGrid`, `WalkingIsDone`, `DecorShown`, `MeshStays` and
`FinishedIsOver` as they stand.

**The bridge**

* `ApprovalDelivery!NeverSilentlyLost` (server/scheduler.py:333):
  docs/DURABLE_APPROVAL_DELIVERY.md:98 says every command is "delivered once,
  explicitly rejected, or reported unresolved" and "never silently lost". The
  worker pops the command and rewrites the queue file durably, and only then
  appends CommandStarted: a crash between the two, after the intent was
  released, leaves an approved command in no file and no log.
* `ApprovalDelivery!RunsOnlyIfAuthorised` (server/dispatch_ledger.py:296): The
  comment at server/dispatch_ledger.py:296-298 says an intent whose approval is
  gone "was already consumed by pop_approval before claim_intent could
  complete". It may also have been consumed by a reject
  (approval_store.py:268-288) or a cancel (bridge.py:959): the rejection takes
  the approval, the process dies before the intent is released and the event
  logged, and recovery enqueues and runs the rejected command.
* `Scheduler!QueuedIsServed` (server/scheduler.py:325): server/scheduler.py:8
  says "Worker loop dispatches when slots are free". The slot is taken before
  the dump and record_started, and only the run thread releases it: when either
  raises, the loop logs it and the slot is never given back, so an agent with
  one slot is not dispatched to again until a restart.
* `TaskOrchestrator!CancelledIsTerminal` (server/task_orchestrator.py:308):
  cancel_task says at server/task_orchestrator.py:870-873 "Cancel a running or
  queued task. Sets phase to 'cancelled'", treats cancelled as "already
  terminal" (:883), and run_task says at :200 "tasks already
  complete/failed/cancelled return immediately". run_task looks for a cancel
  only before a step (:410): its unconditional patches of the phase (:308, :334,
  :367, :716, :746) overwrite a cancel that answered True, so the task goes on
  and may become complete.
* `TaskOrchestrator!BlocksStand` (server/task_orchestrator.py:258):
  src/server/task_orchestrator.py:257 says "Human cleared the sentinel". Between
  the check of a gate (:250) and the unlink, an agent left over from an earlier
  step may write a block, which clear_sentinel erases unseen.

**The link**

* `BridgeClient!HandledOnce` (websocket.ts:158): bridge.ts:2 says the page
  listens "via WebSocket (primary) or SSE (fallback)". A socket that drops
  reports disconnected, which opens the event stream, and then schedules its own
  reconnection; when that succeeds the page is connected over both, nothing
  closes the stream (bridge.ts:155 only clears a flag), and the bridge sends
  every event to both.
* `BridgeClient!HealthyWhenConnected` (bridge.ts:273): bridge.ts:237 says "If WS
  is connected, bridge is healthy". checkHealth looks at wsConnected before it
  awaits /health and not after: a request issued while the socket was down that
  fails after it connected marks the bridge offline.
* `StatusPolling!OneBanner` (ui/hermesStatusBanner.ts:114):
  ui/hermesStatusBanner.ts:111 says "Idempotent: calling twice does nothing the
  second time". The check for an existing banner comes before the awaited probe
  and is not repeated after it: two calls during one probe each prepend a
  banner.
* `Notifications!OneBanner` (ui/notificationBanner.ts:156):
  ui/notificationBanner.ts:3 says "Queue para mostrar de a uno". dismissCurrent
  does not notice that the active banner is already sliding out: a second click
  within 230 ms starts a second exit timer, which clears _active while the next
  banner is on screen. Two banners show, and the first of them has no one left
  to dismiss it.
* `ApprovalUI!ReconcilesTerminal` (ui/approvalCards.ts:43):
  ui/approvalCards.ts:39 says "Reconcile missed terminal events after reconnect
  using the existing poll". The poll takes every card whose command is not in
  the list as settled; a list the server answered before the command was created
  arrives after its waiting_approval event and turns the card of a pending
  command into "Ya no pendiente", without buttons.

**The agents**

* `ChatTranscript!SameTranscript` (ui/chat/history.ts:120):
  ui/localChat/feed.ts:2 says the local feed is "a second presentation of the
  SAME transcript the side panel shows". appendChatChunk makes a bubble for a
  chunk that no user message precedes (after /new, a reload, or an answer nobody
  asked for) and, without a message index, writes it to no transcript: the panel
  shows it, the feed and the next render do not. A chat that is left and entered
  again while it streams shows the reverse, its bubble reference being of the
  old DOM.
* `ChatTranscript!RetryResends` (ui/hudWiring/inputs.ts:172):
  ui/chat/slashCommands.ts:265 says "Reenvía el último mensaje del usuario al
  agente". /retry puts the last message into the input, calls sendMessage
  without awaiting it and clears the input; sendMessage reads the input after
  its first await, sends an empty message and records it as the last one.
* `ExternalAgents!StandsInItsCity` (bridgeMessageHandlers.ts:130):
  bridgeMessageHandlers.ts:124 says of a relocated agent "walk it into that city
  (or put it there when no path leads)". walkUnitTo answers false also when the
  unit is on that hex already (a path of one hex); the handler then sets coord
  and leaves the path, the target and the moving state of the earlier
  relocation, so the unit walks on to the city the agent has left, while cityId
  names the new one and no snapshot finds anything to correct.
* `Detachments!CountedOnce` (missionLifecycle.ts:29): game.ts:673 says "Only
  count a real running→complete transition, so a replayed/duplicate
  mission_complete event from the bridge stream doesn't inflate the metric".
  start() overwrites whatever the mission was with a running one: with both
  transports attached the second copy of mission_start reopens the finished
  mission and the second copy of mission_complete is counted again.
* `Detachments!OpensSelected` (game.ts:118): ui/chat/slashCommands.ts:233
  describes /subagent as "Abre la sesión del subagente seleccionado (Orden de
  batalla)". GameState hands highlightedSubagentId to the registry as a value
  (null at construction); the order of battle writes GameState's field, and
  resolveId reads the registry's copy, after any active run of the unit: the
  selected row is never what opens.
* `Detachments!FinishedIsOver` (server/subagent_tracker.py:435):
  src/server/subagent_tracker.py:485 says of a recall "mark cancelled, emit
  bridge events, despawn ephemeral unit". approve_spawn looks at no status: a
  proposed run that was recalled, or completed by its harness, while it waited
  for its approval is registered again and runs, and the page lists it as over
  and as running.
* `AgentChat!OpenChatIsPolled` (ui/agentsPanel.ts:112):
  docs/EXTERNAL_AGENTS.md:69 says "La respuesta llega al transcript de la
  sesión, que el panel ya sondea". openAgentsPanel ends with _stopTimers and is
  also called while a chat is open (the F8 button of the attention strip): the
  chat stays open without its timer and its transcript no longer moves until the
  user opens it again.
* `AgentChat!SentWhereTyped` (ui/agentsPanel.ts:660): ui/agentsPanel.ts:438 says
  "Send the draft as one turn over this session". _openChat empties _draft, but
  the _renderChat it causes first reads the text box still on screen back into
  _draft: a chat opened over another one (strip, palette) starts with the
  message being written to the other session, and Send hands it to the new one.
* `SessionDirectory!UnreviewedUntilSeen` (ui/agentAttention.ts:46):
  ui/agentAttention.test.ts:37 says "retains an observed completion after
  leaving the active window, until reviewed". fetchExternalSessions answers null
  for any failure and the strip reads null as no sessions: update forgets every
  external session, and its unreviewed end with it; the next good list shows it
  at rest as if it had been reviewed.

**The map and its editor**

* `MapEditor!LiveIsReload` (map.ts:1813): mapEdits.test.ts:853 says "whatever
  the editor does with record: true must be exactly what applyMapEdits rebuilds
  on the next load". generateWorld starts a cycle of saved hexes on them for the
  repos only; the capital is not one of cityRepos, so a city that changed places
  with the capital is refused on reload ("no pude devolver") and both go back.
* `MapEditor!LiveIsReload` (map.ts:1570): mapEdits.test.ts:853 says "whatever
  the editor does with record: true must be exactly what applyMapEdits rebuilds
  on the next load". A generated city taken off the map and founded elsewhere
  stands there without districts; on reload the generated city, with its
  districts, is moved to the saved hex, or is refused and stays on its generated
  one.
* `MapEditor!LiveIsReload` (map.ts:1525): mapEdits.test.ts:853 says "whatever
  the editor does with record: true must be exactly what applyMapEdits rebuilds
  on the next load". The hex under a city can be painted to sea; a move onto a
  painted hex carries the sea there and saves it, and the reload refuses the
  city a sea hex.
* `MapEditor!UndoRestores` (map.ts:1320): map.ts:1378 says of the undos "Each
  one puts back exactly what its operation changed, in the world and in the
  saved store". foundCityOp keeps the saved entry itself as prevPlaced and
  placeCity then overwrites its coord and moved flag: undoing the founding of a
  repo that had been moved before it was deselected saves the new hex, and the
  next reload founds the city there.
* `MapEditor!UndoRestores` (map.ts:1395): map.ts:1378 says of the undos "Each
  one puts back exactly what its operation changed, in the world and in the
  saved store". undoEraseHex takes the hex off the erased ones even if it was
  one before: a city that has districts is removed, its hex erased, and the city
  founded again where its districts have no room, so that the reload leaves it
  on its old hex and cannot erase that; when it is removed and the hex erased
  once more, undoing this erase brings the hex back for good.
* `EditHistory!UndoesToTheBase` (ui/hudWiring/hotkeys.ts:99): map.ts:1378 says
  of an undo "Each one puts back exactly what its operation changed, in the
  world and in the saved store". Ctrl+Z has no guard for an open stroke: pressed
  while the brush is down it undoes the earlier step under the stroke's hexes,
  and undoing the stroke afterwards puts back the colour that was undone.
* `WorldWonders!RegistryFresh` (wonders/manifest.ts:104):
  wonders/manifest.ts:128 says "used after connect/disconnect mutations so the
  UI reflects disk state". Two reloads may be under way; the older answer, if it
  comes last, replaces the newer, and nothing asks again.
* `WorldWonders!OneHexEach` (map.ts:135): map.ts:57 says "wonders take
  successive tiles of an outward spiral in". A wonder that joins gets the hex of
  its place in the registry, which is ordered by file name, while those present
  stay: two of them stand on one hex, and only the later one can be opened
  there.
* `WorldWonders!CityKeepsTile` (map.ts:139): map.ts:1751 says "Reserve capital +
  connected-wonder district hexes so repos don't land on". They are reserved for
  the wonders connected when the world is generated; one connected later
  replaces the tile of the city that stands on its hex.
* `WorldWonders!ConnectedIsShown` (wonders/manifest.ts:118):
  ui/capitalPanel.ts:291 says "aparece en el mapa y como pestaña". A reload that
  fails counts as done: the wonder is neither on the map nor among the tabs, and
  the next load is not asked for.
* `WorldWonders!PalaceShowsDisk` (ui/capitalPanel.ts:74):
  docs/CUSTOM_WONDERS.md:302 says "recargá (o reabrí el Palacio)". Opening the
  palace again shows the panel as it was, and building it does not load the
  registry.
* `WonderVignette!ContextFollows` (ui/wonderVignette.ts:343):
  ui/wonderVignette.ts:121 says "Push the current city context (and focus) into
  whatever wonder is open". The opening of a window that was closed goes on and
  mounts its frame off the screen: the context goes there and the wonder that is
  open hears no more.
* `WonderVignette!KnowsTheSelection` (ui/wonderVignette.ts:148):
  ui/wonderVignette.ts:121 says "Push the current city context (and focus) into
  whatever wonder is open". The context is listened to from the first window on:
  the city selected before is not known to it.
* `WonderVignette!FollowsIntoLocal` (ui/wonderVignette.ts:355): main.ts:907 says
  "Any wonder that is open follows us into the local view". A wonder whose frame
  is still loading misses it; what it is told once loaded names the city in the
  map's mode.
* `WonderVignette!LayersFollow` (ui/wonderVignette.ts:356):
  docs/WONDER_CONTRACT.md:176 says "capa activada/desactivada". Layers are sent
  once, when the frame loads; switching one later sends nothing.
* `WonderVignette!WonderIsHeard` (ui/wonderVignette.ts:259):
  docs/WONDER_CONTRACT.md:182 says "pedir foco en ciudad". Only the address of
  the manifest is registered: a wonder framed from the one its launcher reports
  asks in vain.
* `WonderVignette!RefusalEndsWait` (wonders/wonderLauncher.ts:220):
  wonders/wonderLauncher.ts:229 says "or a real 4xx (unknown_wonder,
  remote_rejected) ends the wait". A refusal is looked for in the answer to the
  launch alone; while polling it is waited on to the deadline.
* `WonderVignette!BlipIsWaitedOut` (wonders/wonderLauncher.ts:119):
  wonders/wonderLauncher.ts:10 says "rather than thrown". The status request
  throws when the bridge cannot be reached, and one such poll ends the wait for
  a server that is starting.
* `WonderVignette!DegradedIsShown` (ui/wonderVignette.ts:272):
  docs/WONDER_CONTRACT.md:111 says "se muestra con warning en vez de error
  cuando el health falla". A degraded wonder is replaced by the empty state and
  neither framed nor launched.

**Pointer, views and panels**

* `MapPointer!MovesWhatWasPressed` (renderer.ts:803): ui/mapEditor.ts:37 says
  "Arrastra una ciudad a otra casilla del mapa". Only the canvas mouseup of the
  same gesture drops draggedCity: when the left button comes up over a panel, or
  the middle button turned the press into an orbit, the city stays in hand and
  the release of a later press, a pan included, moves it.
* `MapPointer!ClearsSelection` (renderer.ts:946): renderer.ts:943 says "Priority
  3: empty hex → clear selection." Only the renderer's selectedUnit is cleared:
  state.selectedUnit stays, so Enter still opens its panel and Escape still has
  it to clear.
* `MapPointer!HeldKeysOnly` (renderer.ts:1062): renderer.ts:109 says panDirs
  holds the "Pan keys currently held (RTS-style continuous scroll)". panKey
  answers null while Control, Alt or Meta is down (yawKey with Shift too), on
  keyup as well: a key released under a modifier is never removed and the map
  keeps scrolling until the key is pressed again or the window loses the focus.
* `ViewSwitch!ChatInTheOffice` (renderer.ts:1555): renderer.ts:215 says "Fires
  once per local-view entry". When the 3D scene is loaded already, render
  returns before the class of the body is set: onEnterLocalView is not called,
  there is no chat, and the canvas is not marked.
* `ViewSwitch!DrawsTheWorld` (renderer.ts:1576): renderer.ts:218 tells of an id
  that "already matches, so its setWorld() is never called". It still does when
  an office is fetched twice (a double click on the city while it loads): the
  second world has the same repoId, and the renderer keeps drawing the first,
  which the game no longer changes.
* `ViewSwitch!ShowsTheAsked` (localWorldManager.ts:37):
  docs/GETTING_STARTED.md:238 says "The view zooms into the city interior".
  enterLocalView stores the office of whichever fetch ends last: with two
  entries in flight the city shown may be the one entered first.
* `ViewSwitch!InsideNeverFades` (renderer.ts:1503): local-transition.test.ts:44
  says "null → entering → active → exiting → null". While the office fades out
  _previousViewMode is still "local": an entry in that time is no change of
  view, and the office goes on fading out with the user in it.
* `LocalPointer!AssignsWhatIsHeld` (localRenderer.ts:379):
  local-drag-assign.test.ts:34 says "mouseup on empty tile transitions dragging
  → cancelled". The release is heard by the canvas only: over a panel, or after
  the office has faded out, the agent stays in hand, and the release of a later
  press on a desk assigns it.
* `LocalPointer!EscapeCancels` (localRenderer.ts:403):
  local-drag-assign.test.ts:47 says "ESC cancels drag without firing callback".
  After Escape the release is taken for a click if the pointer is where the
  camera was last taken: dragStart is the one of an earlier press, and the menu
  of a desk opens (and Escape has left the office too, by the handler of
  renderer.ts:1043).
* `LocalPointer!DroppedOnTheDesk` (localWorldManager.ts:460): main.ts:1263 says
  "Also update tile types visually". Every tile of the rectangle becomes
  stockpile, desks too: the mission looks for its desk among tiles of type
  workbench, does not find it, and the agent is sent to another desk.
* `LocalPointer!TooltipInTheOffice` (localRenderer/input.ts:51):
  ui/localSpatialPreview.ts:2 says "Floating DOM panels for the local (RimWorld)
  view." setInputActive(false) forgets the hovered agent without calling
  onLocalUnitHover: the tooltip stays on the map, and in the next office until
  an agent is hovered.
* `LocalPanels!MissionInItsRepo` (main.ts:1115): main.ts:1147 says "Dispatch the
  real agent command to the bridge with full repo context". The desk comes from
  the office that is drawn, the repository from state.localWorld: after a fetch
  and before the next frame these are two offices, and the command names a file
  of one in the other.
* `LocalPanels!ClickOutsideCloses` (localRenderer.ts:317):
  ui/localSpatialPreview.ts:224 says "Close on click outside". The closers
  listen to the document, and LocalRenderer stops every mousedown of the canvas
  at the canvas: a click in the office closes neither the menu, the whiteboard
  nor the git panel.
* `LocalPanels!GitOfTheFile` (ui/localSpatialPreview.ts:307):
  ui/localSpatialPreview.ts:271 says "Git panel for a single file". The panel is
  one element for every file: the answer for a file asked before fills the body
  under the name of the file asked last.
* `LocalPanels!WalksWhereItWorks` (main.ts:1146): main.ts:1145 says "Animate the
  unit walking to the workbench locally". The panel stays open when the office
  is left: confirmed in another office, the agent walks to some desk there, and
  works in the first repository.
* `LocalPanels!ResizesWhileHeld` (main.ts:482): main.ts:454 says "Add resize
  handle for dragging". The release is listened for on the document, and once an
  office has been visited LocalRenderer stops the mouseups of the canvas, on the
  map too: the panel follows the pointer with no button down, until a click
  elsewhere. The drag of the city panel (ui/city.ts:316) is alike.
* `HudWindows!DockedNeverSaved` (ui/hudWindow.ts:270): ui/hudWindow.ts:24 says a
  docked header "must not start a drag nor persist that slot as the floating
  position". A drag of the floating card that is under way when the side panel
  opens persists the slot when the button comes up.

**The office**

* `OfficeLife!TakenIsNotQueued` (localWorldManager.ts:625):
  localWorldManager.ts:200 says "Dispatch idle unit → next queued mission".
  peekNextMission returns copies (prioritizeMission spreads the mission), and
  the assignment writes unit and status on the copy: the mission stays "queued"
  in the queue, is never completed, and is dispatched again to the next idle
  unit, for ever.
* `OfficeLife!ListedRest` (localWorldManager.ts:483): types.ts:264 says of
  unitsInside "unit ids currently resting". Only _exitRest takes a unit off the
  list; a mission that interrupts the rest, or the end of a sub-agent, leaves it
  on: its bed is lost and the unit itself can never rest again.
* `OfficeLife!OwnBeds` (localWorldManager.ts:288): localWorldManager.ts:287 says
  "Pick a free bed". The test does not look at the bed: every unit is sent to
  the first one of the area.
* `OfficeLife!DesksAreOwn` (localWorldManager.ts:36):
  localPathfinding.test.ts:322 says "two units do not share the same desk".
  Units keep assignedDesk when another office is entered, whose deskAssignments
  are empty: the next unit is given the desk the first one believes its own.
* `OfficeLife!WalkingIsDone` (localWorldManager.ts:264): types.ts:610 tells a
  mission that is "walking" from one that "failed". A unit that grows too tired
  on its way to a desk or at it goes to bed and wakes without a mission; the
  mission stays "walking" for ever. A mission given to the unit by name then
  (dispatchMissionById, from hudWiring/hotkeys.ts:337) makes it the second one
  of the unit.
* `OfficeFloor!RoomsApart` (localMap.ts:486): localMap.test.ts:17 says "rooms do
  not overlap". A shelf is tried for its width only: a room higher than those of
  a shelf is put at its end although another shelf begins below, and reaches
  into the rooms of that one.
* `OfficeFloor!PlanCountsDesks` (officeLayout.ts:216): officeLayout.ts:215 says
  that reserved cells are left out so that the plan does not count desks "making
  pathfinding aim units at non-existent desk cells". The chair of the first desk
  is not among them: the desk laid out there is counted and never placed.
* `OfficeFloor!DesksReachable` (localMap.ts:608): localMap.ts:602 says
  "Corridors: connect adjacent rooms". A corridor goes straight at the mean
  height of two rooms: rooms of different shelves, a room alone on its shelf, or
  a small room next to a large one have no door that leads in.
* `OfficeFloor!RestReachable` (localMap.ts:1235): localMap.ts:1234 says "Use
  phone_booth tiles as rest areas (focus pods)". localPathfinding.ts gives phone
  booths an infinite cost: no agent ever gets there to rest.
* `OfficeFloor!RoomsInGrid` (localMap.ts:486): localMap.test.ts:34 says "all
  rooms are within world bounds". A room is put on a shelf for its width only:
  on the last shelf, opened by a low room, a higher one reaches below the grid,
  which then no longer grows. Its desks below the edge are lost, and a focus
  room there makes furnishRooms throw at the corners (localMap.ts:763-775), so
  that the office shown is the mock one (:218).
* `OfficePaths!CostIsThePaths` (localPathfinding.ts:140): localPathfinding.ts:36
  says "total path cost". When a tile on the open list is found again on a
  cheaper way only gScore and cameFrom are updated; the entry keeps the old g,
  and what is returned and built on it is more than the path costs.
* `OfficePaths!PathIsCheapest` (localPathfinding.ts:163):
  localPathfinding.ts:162 says "admissible heuristic for 4-dir". A path tile
  costs 0.6 and the heuristic takes every tile for 1: it overestimates along
  corridors, and closed tiles are not opened again.

**The pictures**

* `SceneFrame!CityModelsMove` (three/CityProps3D.ts:258):
  three/ThreeMapRenderer.ts:431 says "A moved city can keep its terrain and
  territory size: only its coordinate tells the scene to rebuild." The world
  signature then differs, but the signatures of the city models
  (CityProps3D.ts:258) and of the labels (MapLabels3D.ts:103) hold no
  coordinate: moved to a hex of its own terrain, the city keeps its models, its
  banner and its name on the hex it left.
* `SceneFrame!CapitalRing` (three/CityCluster3D.ts:514): three/CityWalls3D.ts:8
  says the walls "Loads independently of the building GLBs so walls can
  ship/settle even if the building pack fails (and vice versa)" and that they
  replace the procedural ring. The ring of the capital is drawn with its
  compound, which asks for the building models and not for the walls: with the
  walls alone the capital has two rings, with the models alone it has none.
* `SceneFrame!CloudsLieOnTheLand` (three/HexWorldScene.ts:804):
  three/terrainRevision.ts:11 says "each layer mixes `terrainRevision()` into
  its own signature". The fog cover does not, nor does the foam look at the
  land: a hex painted while unrevealed keeps its cloud at the old height, and a
  shore that appears next to a known sea has no foam.
* `SceneFrame!WonderShown` (three/WonderProps3D.ts:302): map.ts:85 says
  syncWorldWonders "reverts tiles for disconnected ones". The loaded models
  reset the signature to the empty string, which is also the signature of a map
  without wonders: if the last wonder is disconnected before the next frame, the
  drawing is skipped and its model stays.
* `SceneFrame!OneModelPerHex` (three/TileDecor3D.ts:33):
  three/TileDecor3D.ts:449 says of wonder tiles "Skip them here so we don't
  double-stack geometry on the same hex." decorSignature holds terrain and
  revealed only: a wonder that takes a hex which was already sacred, as the
  capital leaves one, keeps the stones under it.
* `SceneFrame!DecorShown` (three/TileDecor3D.ts:33): three/TileDecor3D.ts:465
  says of the stones of sacred hexes that at a keep "the 0.3·HEX stone ring
  would stand inside the keep". Stones, ice shards and cones read the city and
  the wonder of a hex, which are not in the signature: when the capital moves
  between two sacred hexes, a city onto ice or beside a mountain, or a wonder
  comes to a sacred hex, the decor stays as it was until the land changes.
* `SceneFrame!MeshStays` (three/HexWorldScene.ts:1240):
  three/TerrainTextureAtlas.ts:95 says of a failed atlas "3D map uses flat
  vertex colors until fixed". The load resolves to null all the same, and its
  continuation drops the mesh; a frame rebuilds only when a tile changed or a
  model or the atlas was loaded, so the land is gone until one does.
* `UnitFigures!OneFigurePerUnit` (three/UnitMesh3D.ts:494):
  three/UnitMesh3D.ts:377 says of removed units "they finish their tween in
  tickUnits". A unit that is back before the 0.2 s are over gets a new figurine
  whose entry replaces the old one: the old figurine is in no entry, no tick
  removes it, and it stays half shrunk on the map.
* `UnitFigures!HiddenIsDismissed` (three/UnitMesh3D.ts:351): game.ts:251 says
  "Hide/unhide (visual dismiss from macro map; agent keeps running)". The 2D map
  and the ribbons skip hidden units, the figurines filter by revealed hexes
  only: a dismissed unit stays in the 3D map.
* `UnitFigures!WalksItsRoute` (three/ThreeMapRenderer.ts:439):
  three/ThreeMapRenderer.ts:381 says the signature "must cover every world input
  the gated rebuilds read, not just entity counts". It holds the length of a
  route and not the route: a unit on its first hex sent the other way by as many
  hexes keeps the figurine walking, and the ribbon showing, the old route.
* `UnitFigures!SlotsAgree` (three/UnitMesh3D.ts:367): unitStack.ts:8 says "Both
  renderers read the same offsets". Hidden units take no slot, but neither
  signature holds `hidden`: after one of two units of a hex is hidden the
  figurine of the other stays on the old slot, and a click on it is answered for
  the new one.
* `LocalLayers!EveryDeskNamed` (isoLocalRenderer.ts:240):
  isoLocalRenderer.ts:238 says "Skip high-density rooms (cluster pills handle
  those)". The labels are skipped from three files on, the pills are drawn only
  when there are more files than desks: in a room of three files with a desk for
  each nothing names them.
* `LocalLayers!AislesCarpeted` (isoLocalRenderer.ts:147):
  isoOfficeSprites.ts:225 says "Carpet overlay for aisle tiles (static layer)".
  Aisles are not among the tiles a frame leaves to the static layer: each frame
  paints their opaque floor over the carpet and the ceiling light.
* `LocalLayers!ShowsTheOffice` (main.ts:1266): main.ts:1263 says "Also update
  tile types visually". The static layer is not dropped: a wall painted over
  stays in the picture until the office is given again, and is gone then.
* `LocalLayers!ZzzFloat` (localRenderer.ts:688):
  docs/archive/local_view_beautification_plan.md:81 says "flotarán letras "Z"".
  The isometric frame spawns the particles and returns before they are moved or
  drawn: the pool of 64 fills once and nothing floats.
* `LocalLayers!DragShown` (localRenderer.ts:803): local-drag-assign.test.ts:90
  says "drag line: drawn from unit position to cursor in unit color". The line
  and the lit desks are drawn after the isometric frame has returned: an agent
  is dragged with nothing to see.

Met while modelling, without a property:

* Recovery drops an authorised command whose old deadline has passed
  (`dispatch_ledger.py:304`); `docs/APPROVAL_EXPIRY.md:8` says an authorised
  command is not cancelled because its TTL has passed.
* `cancel` appends its event before it rewrites the queue file
  (`scheduler.py:236`): a crash between the two brings the command back.
* `cancel_mission` takes the children out of memory and has no rollback when
  the file cannot be written (`approval_store.py:226`).  `RemovalIsDurable`
  therefore excepts the children of a mission that was cancelled.
* `main` reconciles tasks before it replays intents (`bridge.py:1298`, as its
  comment says); `docs/DURABLE_APPROVAL_DELIVERY.md:86` says the replay comes
  first.
* `cancel` serialises the queue while another thread may be sorting it
  (`scheduler.py:237`), which can write an empty file.  Nothing started is in
  it all the same; that the file holds the whole queue does not hold.
* A write that fails after a slot was taken leaves the slot taken
  (`QueuedIsServed` above is its consequence), so the slots equal the runs only
  while no write failed.
* The post-validation gate is recorded before its sentinel
  (`task_orchestrator.py:701`), the other gates after it: a crash between the
  two lets the next call pass the gate unreviewed.  `GatesAreReviewed` exempts
  that gate.
* A redo of a city's move that is refused, because a unit stands where the city
  would go, keeps the result of the first time (`renderer.ts:820`, `?? current`).
  To undo that puts copies of tiles back which may have changed since, although
  `map.ts:1378` says that an undo puts back exactly what its operation changed.
