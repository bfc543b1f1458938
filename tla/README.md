# ion-agent: a TLA+ verification project

ion-agent is an agent daemon written in Go with a web interface, a terminal
client and a shared client library in TypeScript. This directory models the
parts of it that keep state and are used by more than one process, goroutine,
tab or callback at a time, checks them with TLC on small instances, and proves
the most important results with TLAPS for every value of the constants.

All paths below are relative to `src/`. `PROJECT.json` maps every definition to
the lines it models, names the runs, the theorems, the hazards they are about,
and for each property mutations of the code's definitions that break it.

## The system and its parts

```
 browser tabs ── HTTP/WebSocket ──┐                    ┌── work supervisor, portfolio
 (ui/web, ui/shared)              ├── control plane ───┼── turn coordinator, sub-agents
 terminal ────── Unix socket ─────┘   dispatcher,      ├── scheduler, background proposals
 (ui/tui)                             journal,         ├── projects: editing, runtime,
                                      approvals        │   terminals, Git, delivery
                                                       ├── media, office
                                                       └── browser, desktop: takeover leases
```

Every mutation is a command of the control plane: the dispatcher serialises it,
compares the revision the client expected, runs a handler and stores the answer
under the client's idempotency key. What happens is appended to an event
journal, which is streamed to the clients; they fold it into what they show.
The clients act on copies: a page sends a command built from what it last read,
and the answer comes back after the operator may have moved on. Most of the
services keep one document or row per object, written under an in-process
mutex, and run goroutines that a restart of the daemon kills between any two of
their steps.

## Modules

A module models one component; its header says which files. Its state is the
component's durable rows, in-process maps and goroutine positions, and each
action is a whole handler, or, where the code releases its mutex or awaits, one
of the handler's critical sections. Definitions keep the names of the code.

### Control plane and conversations

| Module | Code | What is in it |
|---|---|---|
| `CommandDispatcher` | `internal/controlplane/dispatcher.go` | commands under `commandMu`: replayed answer, revision check, handler, transaction, audit event; queries beside them; lost connections, a crash |
| `CommandRecord` | | what the dispatcher promises: a command takes place at one moment, as the next revision of its scope |
| `EventJournal` | `controlplane/journal.go`, both transports, `ui/shared/src` | append, retention, replay pages, live subscription and overflow, acknowledgement, the client's cursor and fold |
| `ApprovalBroker` | `controlplane/approval.go` | Request, Respond and expire as the durable, event and in-process steps they are |
| `TurnCoordinator` | `controlplane/adapters/turn.go` | submit, steer, retry, cancel; the goroutine of a turn with its watchdog and continuation; shutdown, crash, resumption at boot |
| `ComputerEvents` | `ui/shared/src/generated/protocol.ts`, `state/events.ts` | which tool events the client accepts and what its store keeps of them |
| `ChatHost` | `ui/web/src/features/chat/ChatHost.tsx` | composer, queue, transcript, send, fork, edit, steer, retry |
| `Conversations`, `Surfaces` | `ui/web/src/routes/CriticalRoutes.tsx`, `SubsystemRoutes.tsx`, `internal/session/store.go` | the list of conversations; pages that refetch, poll and steer a run |
| `TerminalSession` | `ui/tui/src` | the terminal client's connection, queue and slash commands; its keys and cursors |
| `OperatorShell`, `OperatorFrame` | `ui/web/src/app`, `components` | when the Computer stage opens and stays closed; panel widths; signing in and out in several tabs |

### Authority over a browser, desktop or terminal

| Module | Code | What is in it |
|---|---|---|
| `ControlLease` | `internal/controllease/service.go` | the durable lease, its mutex, and the action boundary that `BeginAutomation` and `BeginOperator` hand to the caller with the mutex held |
| `DesktopTakeover` | `internal/operatorapp/private_desktop.go` | extends `ControlLease` with input tickets and input in flight |
| `ControlClient` | `ComputerStage.tsx`, `PrivateDesktop.tsx`, `StudioRoutes.tsx` | tabs that act on a cached lease and ticket |
| `DesktopFrames` | `PrivateDesktop.tsx` | the frame loop |
| `ComputerStage` | `ComputerStage.tsx` | the timeline: selection, window, following |
| `BrowserWorkflow` | `internal/browser/workflows.go`, `ComputerStage.tsx` | pause, resume, hand-off, cancel and restart of a supervised workflow |

### Work

| Module | Code | What is in it |
|---|---|---|
| `WorkSupervisor` | `internal/work/supervisor.go`, `supervisor_reconcile.go` | runs, tasks, attempts, scope leases that are held, dropped and run out, budgets, reconciliation, failing saves |
| `WorkPortfolio` | `internal/work/service.go`, `project_turn_tools.go` | contracts, items, artifacts, workflow runs; the plan that is written and compensated |
| `Scheduler` | `internal/scheduler` | claim, wake and finish of alarms over durable documents |
| `SwarmRegistry` | `internal/swarm/registry.go`, `internal/security/coordination` | sub-agents under lanes, completions, verbs, aborts, the orphan scan |
| `Autonomy` | `internal/presence/automatrix`, `operatorapp/presence.go`, `SubsystemRoutes.tsx` | background proposals: capture, approval, cycle, guard, saving, restart |

### Projects and studios

| Module | Code | What is in it |
|---|---|---|
| `ProjectEditing` | `internal/project/editing.go` | journalled patches of several files, undoing, rollback, reconciliation at start |
| `ProjectRuntime` | `internal/project/runtime.go` | start, readiness, wait, stop and adoption of a local service |
| `ProjectTerminal` | `internal/project/terminal.go` | one-shot and interactive processes with the children they leave, signals to the group, the output ring and its replay, the end and its saving, reconciliation at start |
| `StudioEntry` | `StudioRoutes.tsx` | starting a project from a prompt, panels, asking for a repair |
| `StudioPlan` | `internal/studio/service.go`, `StudioRoutes.tsx`, `SubsystemRoutes.tsx`, `ui/tui/src/App.tsx` | proposals decided by three kinds of client |
| `StudioChanges` | `internal/project/git_mutation.go`, `git_remote.go`, `StudioRoutes.tsx` | reading, staging, committing, merging: comparison, journal, Git command, saving as the steps they are; other writers, a crash, reconciliation at start |
| `StudioVerification` | `internal/project/verification.go`, `StudioRoutes.tsx` | manifests, runs, waivers; deriving as its check and its write |
| `StudioDelivery` | `internal/project/delivery.go`, `delivery_deploy.go`, `StudioRoutes.tsx` | resources, migrations, deployments: plan, apply, reconcile, roll back; the servers that run, saves that fail after they were started, a restart |
| `MediaStudio` | `internal/media`, `MediaStudio.tsx` | paid generations from the form to their outputs: repeated requests, failing writes, restarts |
| `OfficeStudio`, `OfficeEditor` | `internal/office`, `OfficeStudio.tsx` | documents, versions, editor sessions, save callbacks; the mounting of the editor |

### Composition

`DesktopTakeover` composes with `ControlLease` by extension: both work on the
same lease and the same mutex. `BrowserWorkflow`, `ControlClient`,
`StudioPlan`, `StudioChanges`, `StudioVerification`, `StudioDelivery`,
`Autonomy`, `MediaStudio`, `OfficeStudio` and `Conversations` each hold both
sides of a protocol, the page with its stale copy and the service with its
rows. `WorkPortfolio` holds the portfolio and the planners that write it.

`CommandDispatcher` is shown to implement the abstract `CommandRecord` under the
mapping of its tables, effects and answers (`Record` in `CommandDispatcher`):
the promise has no connections, lock, lookups or crashes. TLC checks it as the
property `CommandsAreAtomic`, TLAPS proves it.

The MC modules put several components into one model: a variable (`part`, or
`kind` in `MCLeases`) is chosen in the initial state and only that component
moves. Components that do not share state are not interleaved, which would
multiply their states and show nothing. A component whose invariant is proved is
extended by its MC module and gets its constants in the cfg, so that the run
checks the very definition the theorem is about; the others are instances.

## What the runs check

Seven runs pass, with 40 properties; most properties are conjunctions, named
for the question they answer, and the comment above each names the handlers it
is about. Five runs show a property violated (see *Findings*).

**`dispatcher`** (`CommandDispatcher`). Repeated, conflicting and concurrent
commands over two connections, two keys and one scope, with failing database
steps and a crash. `DispatchInv`: one answer per key, which is the stored one;
no revision is handed out twice; an expected revision is honoured; the revision
in a query's answer is not ahead of its contents. `CommandsAreAtomic`: the
dispatcher implements `CommandRecord`, in which a command takes place at one
moment. `CommandsSettleOnce`: no effect after an acknowledged success, and
every request is answered.

**`journal`** (`MCEventJournal`). One client, two approvals of either of two
actors, a retention of two events, a channel of one, pages of one, a broken
connection. `JournalInv` and `StreamSteps`: events are delivered once and in
order, a loss is always announced as a gap, a gap is announced only after
trimming, only processed events are acknowledged, and the client's view agrees
with the database. `EveryEventArrives`: the view converges. `CallsEndOnce`: from
one snapshot to the next, a tool call ends once in the operator's view, as first
reported, and a running one is not evicted. `PagesSafe`: the pages built on it show what they asked for
and a conversation with a running turn is not deleted.

**`turn`** (`TurnCoordinator`). The turn of an alarm and the turn of a client,
one restart, one failing write. `TurnInv`: a completed turn has its answer in
the conversation, one answer per life of the daemon, and a turn is left without
a goroutine only in the ways listed in `OnlyKnownStrands`. `TurnsEndForGood`:
final states are final; a shutdown completes; the occurrence of an alarm
settles.

**`leases`** (`MCLeases`). `LeaseInv`, `TakeoverSteps`, `TakeoversEnd`: takeover
and automation exclude each other; an operator acts under the exact durable
lease; each change of the lease is fenced by a new revision; input tickets die
with the lease; authority returns by expiry. `FramesResume`, `RequestsReturn`,
`QueueDrains`: the three other things an operator or an agent waits for.

**`work`** (`MCWork`). `RunInv`, `RunSteps`: tasks that hold leases do not
conflict, a dependency comes first, a completed run is verified, an ended run is not
touched, lost external effects are not repeated, and a running task keeps its lease
until it runs out or an attempt of its run was lost, whichever saves fail.
`AlarmsSafe`: occurrences advance, retries are bounded, finished alarms stay finished. `PortfolioSafe`:
nothing is complete without evidence, and a compensated plan does not take
another caller's write with it. `OneProcessPerName`, `PatchInv`: one process per
service; no half-applied patch. `StudioSafe`: what is decided, staged and committed
is what the operator had before them, but for a file that another writer overwrites
after it was compared; and no mutation of Git is forgotten while the daemon lives, nor
at its restart once the journal says that it was applied. `DeliverySafe`: runs and
waivers are recorded for the current manifest, what is applied follows a plan that is
still current, and a receipt is marked healthy only for the server that runs its own
artifact.

**`background`** (`MCBackground`). `OneLiveRunPerContract`, `RunsProgress`,
`AlarmsDoNotWedge`, `SwarmInv`, `ChildrenReport`, `ReplayInv`, `ProcessesEnd`:
runs progress or stop openly, alarms settle although a sweep was lost, lanes of
sub-agents are exact and each child is reported once, terminal output is
replayed without silent gaps, the end that is saved of a one-shot process covers all
of its output, a timeout leaves nothing of its process group, and processes end.

**`operator`** (`MCOperator`). `BrokerInv`, `ChatInv`, `TerminalSafe`,
`ControlInv`, `StageSafe`, `ShellSafe`, `AutonomySafe`, `MediaSafe`,
`OfficeSafe`. Approvals and takeovers from stale tabs are honoured only as they were
shown. Transcript, queue and draft of the browser are those of what the operator sees
and typed; the terminal sends its messages to each conversation in the order they were
written, within its bound. A timeline at rest stays where it is, a stage that
was closed stays closed, a saved cancellation of a browser workflow stands. Background
initiative acts once on what was allowed. A generation is paid for at most once each
time it is asked for. A document has only its own versions, and a save comes a second
time only when the row of the first was lost.

### Bounds

Every bound is a named constant and stands in a guard or in the instance of an MC
module. They are small; what each one lets happen, and what it leaves out:

- a retention, ring, window or queue is one or two shorter than what is sent
  (`Retention` 2 for 4 events, `OutputBytes` 2 for 4 bytes, `QueueLimit` 2 for 3
  messages, `MaxOrder` 2 for 3 calls, `Window` 3 and `Retained` 3 for 4 events), so
  that it overflows;
- two actors of each kind that race: two connections, tabs, planners, starts, alarms,
  sub-agents. Three to five requests where the third meets what the first two left;
- times to live of 1 and 2 with a clock that runs past both, so that a lease or
  request expires before, at and after each step;
- one crash or restart, one failing write where it is counted (`MaxFaults`), one
  broken connection, each at any step. A crash during the recovery from another is left
  to the proofs, which are about any number of them;
- revisions up to 2–5: a change, one after it, and a stale copy of both;
- in `work`, three items: `a` writes `f` and may have external effects, `b` depends on
  `a`, `c` writes `f`; two of them may run at a time, two retries. The save of a
  handler's own change, the one that dispatches `a` and the last one of scheduling may
  each fail as often as they are made until a task has had a second attempt
  (`FailUntil` 1). `background`, which is about progress, uses the two items that
  conflict, two runs, no retries and no failing save;
- Git: one file, changed before and once more by another writer, one command on the way
  while another is carried out, two mutations, a crash between any two steps. A tab sees
  two revisions and a stale copy, a merge and a commit can follow each other, and a
  journal can meet a second mutation and a restart. Selections of several files are not
  reached (the module allows them);
- delivery: nothing delivered, or one deployment already; then five requests of one tab
  in the first case and four in the second, three plans, four receipts, a restart, and
  any save after a server was started or stopped may fail. This is enough to deploy,
  replace, roll back, and reconcile what was replaced;
- the terminal client is run twice: three lines that overflow its queue with one key of
  any kind, and two messages with three verifications, whose answers free the composer
  while a conversation is being created;
- a generation is run as two that poll, as one of either kind through a restart, and as
  one whose request comes again; documents as two that are opened and restored, and as
  one with four versions that is saved while the callback's row may be lost;
- the Computer timeline is run with two agents in one conversation and with one agent
  in two; a browser workflow with three commands and a restart, so that a pause, a Resume
  that looks at the page and a cancellation meanwhile are one behaviour;
- the panel of the Studio is checked at real widths, 700 to 1400 pixels.

Approvals are symmetric in `operator` (no liveness is checked there). Deadlock
is checked in `leases`; in the other runs a behaviour may end when its bounded
inputs are used up.

### Fairness

Only what the Go runtime, the browser and timers provide is assumed:

- a goroutine that can take a step takes it (`TurnStep`, `HandlerStep`,
  `Goroutine`, `Settle`, `finish`, `Work`) and handlers return; a waiter of a
  `sync.Mutex` is not starved (strong fairness of `Lock`);
- clocks and timers advance (`Tick`, `TimerFires`, `Interval`);
- the daemon is started again after a crash (`Boot`, `Restart`, `ReconcileAll(TRUE)`),
  and a reconciliation that could not save is made again by a later start;
- a worker attempt ends, because it has a wall-clock limit;
- a client that shows the supervisor's runs keeps polling them (`Inspect`);
- a connected or reconnecting client continues its stream (`StreamStep`), and the
  daemon answers the chat's requests and ends its turns.

Nothing is assumed of people: no operator has to answer, release, retry or
click.

## What is proved

TLAPS proves the following for every value of the constants (sets of any size,
any bounds), with no other assumption than the named `ASSUME`s of the modules:
bounds and limits are natural numbers, durations, the journal's retention, buffer
and page size are positive, every client of the journal is some actor, executors
and operators are different agents, instances of a service are numbered from 1,
what a worker reports to have used is a natural number,
and a recipe has stages.

| Theorem | Statement | Inductive invariant |
|---|---|---|
| `EventJournalProofs!JournalSafety` | `Spec => []JournalInv` | `JournalIInv`, see below |
| `EventJournalProofs!StreamStepsHold` | `Spec => StreamSteps`: no retained event is skipped; the durable acknowledgement neither moves back nor passes what was processed | `JournalIInv` |
| `TurnCoordinatorProofs!TurnSafety` | `Spec => []TurnInv` | `TurnIInv`: the maps and the goroutines say the same of a turn; a goroutine past the answer has one; a turn that is still to be resumed has used up no answer of this life; a turn that ended has no goroutine but one that reports it |
| `TurnCoordinatorProofs!EndedTurnsStay` | `Spec => TerminalIsFinal`: the conjunct of `TurnsEndForGood` that is not liveness | `TurnIInv` |
| `ControlLease!TakeoverSafety` | `Spec => []LeaseInv` | `IInv`: whoever acts holds the resource mutex. The exclusions alone are not inductive, since a handler would have to know that nobody is acting |
| `ControlLease!LeaseChanges` | every lease change takes a higher revision; a running lease keeps its identifier | `IInv` |
| `CommandDispatcherProofs!DispatchSafety` | `Spec => []DispatchInv` | `Ordered`: only the holder of the lock is between its checks and its answer; what it checked still holds; effects come before rows; a query's revision is not ahead of the table |
| `CommandDispatcherProofs!NoSecondEffect` | no effect after an acknowledged success | `Ordered` |
| `CommandDispatcherProofs!Atomicity` | `Spec => CommandsAreAtomic`: the dispatcher implements `CommandRecord` | `Ordered`; the transaction maps to `Accept`, a handler's effect to `Attempt`, an answer to `Acknowledge`, all else to stuttering |
| `BackgroundProofs!SwarmSafety` | `SwarmSpec => []SwarmInv` | `SwarmIInv`: the counters are the cardinalities of what they count; an accepted message has no fresh nonce; the orphan scan marks only agents that have ended |
| `BackgroundProofs!ReplaySafety` | `TerminalInit /\ [][TerminalNext]_terminalVars => []ReplayInv`, its replay about the time before a daemon dies, its ends about any time | `TerminalIInv`: the client is not ahead of the ring, and until a daemon dies a session that is not in the map was never started; `EndIInv`: where the goroutine that waits stands agrees with the session and its row, a one-shot process that ended has no output on its way, a timeout was preceded by the kill of the group |
| `WorkspaceProofs!RuntimeSafety` | `RuntimeSpec => []OneProcessPerName`, about the time before a daemon dies | `RuntimeIInv`: whoever holds the name is in the map, a process is a holder's, and the wait goroutine gives the name back only after the process is dead |
| `WorkspaceProofs!PatchSafety` | `PatchInv`: no half-applied patch without a pending journal; acknowledged receipts are recorded, under revisions of their own | `Editing`: what files, journal and history say about each other at every step of applying and undoing |
| `WorkspaceProofs!PlanSafety` | a proposal is decided once, only the newest awaits a decision, only accepted ones are applied | `PlanIInv`: decisions recorded agree with statuses; copies and requests are about proposals that exist |
| `WorkspaceProofs!PortfolioIsSafe` | `PortfolioSpec => []PortfolioSafe` | `PortfolioIInv`, see below |
| `SupervisorProofs!OneLiveRun` | `Spec => []OneLiveRunPerContract` | `SupervisorIInv`, see below |
| `SupervisorProofs!RunInvariance` | `Spec => []RunInv` | `SupervisorIInv` |
| `SupervisorProofs!RunStepsHold` | `Spec => RunSteps` | `SupervisorIInv` |
| `OperatorProofs!BrokerSafety` | `Spec => []BrokerInv` | `Broker`: a response in progress and a buffered waiter hold the decision the row records |
| `OperatorProofs!Finality` | a resolved or expired row is not updated again | `Broker` |
| `OperatorProofs!ControlSafety` | `ControlSpec => []ControlInv`: an operator action reaches the resource only under the lease that was shown when it was sent | `ControlIInv`: nothing is automated under an active lease, an input of the desktop carries the ticket of the lease it names, and a tab's copy is of this lease or of an earlier revision |
| `OperatorProofs!WorkflowSafety` | a question is on record while the workflow waits for a human; changes between restarts take the next revision; after a restart nothing works on the emptied browser; a cancellation saved while no Resume is under way stands | `WorkflowInv` |
| `OperatorProofs!EditorSafety` | one editor at most, that of the session shown | `EditorInv`: as long as the script is not there no editor lives and every mount under way is cancelled |

Each inductive invariant is preserved action by action: one step of the proof
per action, one below it per conjunct that the action can disturb. The
invariants were checked with TLC, as invariants of small instances, before they
were proved.

**The journal.** `JournalInv` is far from inductive: that a client is handed every
event once says nothing of what is still on its way. `JournalIInv` follows an
actor's events from the log to the client. The frames on the wire cover the events
after the client's cursor one after the other (`Wired`, `Covers`); the page to be
written next continues where they end, or the event that was taken from the channel
is the next one there (`Phase`); and the channel has exactly what follows that, up to
the end of the log or to the event at which the subscriber was dropped (`Queued`,
`Follows`). What the client has been handed or has passed over under a gap marker is
everything up to its cursor (`Handed`). For the view, an event is emitted only after
its row has changed (`RowsFirst`), so an item of which the journal has no more to say
is shown as the database has it, already by the snapshot that is on the wire
(`Agrees`). The invariant is a predicate on the log and one client's part of the
state (`Part`), and a step of a stream is a lemma about two such parts; appending
an event, and changing a row, are lemmas about all parts at once. That a page read
from the table is the ascending sequence of the actor's rows rests on a least
element of a set of numbers (`Least`, `Greatest`, `Sorted`), for which the library's
theorem on well-founded sets is enough.

**The supervisor.** `SupervisorIInv` is about the durable document, the attempts
this process can cancel (`running`), those that execute, and the artifacts. For each
run (`RunOk`): an attempt that counts as running is the last one of a task that runs;
a task is completed, and a dependency of a running task is met, only where an attempt
verified artifacts; a run that has ended has no running task; and leases are of tasks
that run, with scopes that do not conflict (`Leased`). The last is said of leases and
not of running tasks: a lease runs out by the clock, and reconciliation drops all leases
of a run when an attempt of it was lost, also those of tasks whose workers go on. What a
step may do with leases is the subject of `RunSteps`.

Scheduling is a loop over tasks inside a loop over runs, whose every save may fail, so
its outcome is a set of pairs of the document in memory and on disk. `AccOk` says that
both are sound and follow from the document the handler began with (`Follows`: only
tasks that were ready get new attempts, and under leases); it is kept by one round
(`DispatchRoundKeeps`), hence by all of them (`ScheduleKeeps`, `VisitsKeep`), because a
first round that broke it would be the least number of a set (`Least`). Every handler
then is its own change, shown sound field by field, and a commit of what scheduling made
of it (`Committed`). For `RunStepsHold`, `Onward` says of each run what `RunSteps` says of
the step: every handler's change has it (`Kept`), scheduling adds nothing that would
break it (`OnwardFollows`), and no assumption on which saves fail is needed.

**The portfolio.** `PortfolioSafe` speaks of the saved document, but a planner that
fails saves its snapshot over it. `PortfolioIInv` therefore says of every snapshot what
`EvidenceInv` says of the document (`Sound`), and follows the writes: every acknowledged
write that is not newer than a snapshot is in it (`SnapshotsHold`), and so is every write
whose planner has not answered yet; each of those is newer than its planner's own
snapshot, unlike every other pending one and told to nobody (`WritesPending`). When
`RestorePortfolio` finds the revision one after its snapshot, the planner's own write is
the only one the snapshot lacks. The lemmas about `refreshReady`, `syncWorkItems`,
`ensureCriterionWorkItems` and `reconcileVerifiedWorkItems` say that each leaves completed
items covered and no item waiting for completed ones, for any items.

Only model-checked:

- every liveness property, since fairness and `ENABLED` are outside the prover's
  reach: `TakeoversEnd`, `FramesResume`, `RequestsReturn`, `QueueDrains`,
  `AlarmsDoNotWedge`, `RunsProgress`, `ChildrenReport`, `ProcessesEnd`,
  `EveryEventArrives`, and the liveness conjuncts of `CommandsSettleOnce` and
  `TurnsEndForGood`;
- `AlarmsSafe`, `ChatInv`, `TerminalSafe`, `ShellSafe`, `StageSafe` but for its browser
  workflow, `AutonomySafe`, `MediaSafe`, `OfficeSafe` but for its editor, `StudioSafe`
  but for its plan, `DeliverySafe`, `CallsEndOnce`, `PagesSafe` and the ticket half of `TakeoverSteps`: within reach and not yet proved.

## Findings

Five runs show what the code does against what its documents or comments say.

- **`desktop_input_race`** (`InputExcludesAutomation`).
  `internal/operatorapp/private_desktop.go:516` checks the lease and sends the
  input after the mutex is free again; automation can act while input is in
  flight. `spec/ion_spec/requirements.md:816` has "a stale or lost lease SHALL
  reconcile before either executor acts".
- **`supervisor_retry_stall`** (`WorkingMeansProgress`). Dispatch stops when the
  retries *reach* the budget (`internal/work/supervisor.go:783`), the run pauses
  only when they *exceed* it: in between the run says `working` and nothing
  happens any more (`requirements.md:605`).
- **`approval_timer`** (`DeniedWasNotApproved`). When the timer fires between
  the durable approval and the wake-up of the waiter, `Request` returns
  `ErrApprovalDenied` (`internal/controlplane/approval.go:165`, against `:81`).
- **`runtime_crash`** (`CrashIsReported`). A service that exits between its
  readiness answer and the status written because of it is reported as running
  until the daemon restarts (`internal/project/runtime.go:337`,
  `requirements.md:554`).
- **`workspace_restart`** (`RestartReconciles`). A revision raised by somebody
  else while a patch is applied and not committed leaves a journal that no
  restart can finish, and the daemon does not start
  (`internal/project/editing.go:186`, `requirements.md:525`).

## Known behaviours the properties leave room for

Modelling showed these; the models contain them, and the properties are stated
so that they are allowed. They are recorded because a reader may expect
otherwise.

*Control plane.* A command whose handler succeeded but whose transaction failed
or was lost with the daemon has its effect again when repeated
(`dispatcher.go:205`); the promise starts with the acknowledged answer. A
client gives up its stream after five failed connections. `approval.requested`
is appended after the row is visible. After a restart, pending approvals have
no requester. A turn whose failure could not be stored is resumed at boot; a
crash between the answer and the status repeats the answer; a cancellation
after the agent returned has no effect; a stall during recovery is recorded as
cancelled; steering cancels the old turn before the new one has started. Turns may run
in archived conversations. A snapshot empties the operator's view of the tools, whose
calls then come back only with their later events.

*Work.* Two runs of different contracts may write the same scope
(`supervisor.go:1081`), and so may two tasks of one run: a lease runs out by the clock
while the worker goes on (`:1103`), and a reconciliation that finds one attempt lost drops
the leases of the whole run (`:756`). `finishAttempt` forgets the attempt before it saves
(`:841`); when that save fails, the document says that the task runs and the next `Get` or
`List` takes it for lost. A `Cancel` whose save fails has likewise forgotten workers that
go on. Replanning a completed item leaves its dependents
running; a draft or cancelled contract can be completed; a plan compensated
after another caller wrote and reverted the same revision takes that revert for
its own state (`service.go:527`). The orphan scan may overwrite `completed`. An
evicted alarm's key can be scheduled again.

*Autonomy.* The cycle stops at the first unapproved proposal, so an older one
holds up approved work (`runner.go:101`); a crash between executing and saving
runs an approved plan again; a proposal the runner holds can be neither approved
nor dismissed, and is lost with the daemon. A Pause or Resume pressed on a stale
page sets the mode it shows.

*Projects.* An adopted runtime can never be stopped; of two overlapping starts
the second deletes the first's row. A terminal's failed last save leaves the row
running until the restart; after a crash a replay reports no gap. Processes that a
terminal's process left behind are not always cleaned up (`requirements.md:526`): they
survive a leader that exits by itself or that exits as it is cancelled; at start the group
is killed only while the leader is still the process the row names; a child outside the
group that holds the pipes keeps a one-shot session running, and output of an interactive
one may come after its end was saved. Edits from
outside between the check and the write of a patch are lost
(`requirements.md:528`); a committed patch whose record failed is missing from
the history.

*Git.* Files are compared with what was reviewed before the Git command runs
(`git_mutation.go:171`, `:189`), and writers that do not take the mutex can change one in
between, which is then staged or committed unseen. A save that fails after the command
leaves a journal that blocks later mutations until the restart, except a merge, which does
not look at it. A restart that finds the repository as it was forgets a prepared mutation;
one that finds a state the journal does not explain does not start the daemon.

*Verification and delivery.* Of two manifests derived at once the older may be written
last; a verification run does not look again at the revision when it ends
(`requirements.md:564`). A save that fails after a server was started or stopped leaves a
server without a receipt, or a receipt without its server; a rollback whose health check
fails leaves the predecessor running unrecorded; reconciling after a restart starts the
artifact of that receipt, even an older one; a rollback may be repeated from a stale list.
A resource plan of an older workspace revision is accepted, unlike migrations and
deployments; rolling back an older migration drops the later ones; a receipt stays
`healthy` across a restart.

*Media and office.* A repeated media request runs the existing job again: it pays again and
may turn a job that succeeded into a failed one. A write that fails leaves a job without a
goroutine until the restart; a crash between storing outputs and marking success makes the
rerun fail. A save of a document is committed twice when the row of its first callback was
lost. Late answers can put one document's editor under another's title; a save from a
session on an older version becomes the current one after a restore.

*Clients.* A queued message names no conversation and goes to the one shown when
it is sent; text typed while a send or a steer is out is cleared by its answer;
pressing Enter twice queues a draft twice; a queued item whose send fails is
lost. Identical messages collapse in the merged transcript. In the terminal, the answer of
a verification frees the composer while a message is still out, so messages to different
conversations may be accepted in another order than they were written. The terminal applies
the first accepted proposal, without decisions on assumptions. An event that
fails validation is replayed by every recovery, until the stream goes offline.
Only the last dismissed turn is remembered. A panel is not clamped again when
the window shrinks, and the layout stays marked as being resized when the handle goes away
during a drag. Frames of the desktop may stand still for up to twenty
seconds after the stage is shown again. A `Resume` of a browser workflow that
had passed its check overwrites a cancellation, and a change whose save failed is undone by
a restart.

## Not modelled

- The agent loop, tools and model providers: calls whose results are arbitrary.
  The coordinator, the approvals and the leases around them are modelled, and
  take any result.
- Authentication, framing, redaction, policies, sandboxes and vaults: data, or
  judged per call.
- Memory, vector search, intent, belief, reflection and the cognition loops:
  numerical or textual results; what acts on them is modelled.
- Mailbox, channels and agent accounts; plugins and skills; the project registry,
  indexing and Git providers: left out for size.
- On the client: the code, terminal, preview and security panels of the Studio
  (their services are modelled), the read-only pages, rendering, icons, the
  generated type declarations, the keyboard translation of the desktop, and the
  argument parsing of the command line.
- Inside modelled components: texts, formats, digests, cron expressions, HMACs
  and provider settings are abstracted to what the properties tell apart. The
  `components` of `PROJECT.json` say for each part what is left out.

## Running

In this directory, `tlc -config <cfg> <module>` with the pairs listed under
`runs` in `PROJECT.json`, and `tlapm <module>.tla` for the modules that hold
theorems. Every passing run finishes within five minutes on two workers.
