# A TLA+ development for Kodepoia

Kodepoia is a local-first studio for AI-assisted game and application
development, written in Python (`src/kodepoia`). Most of its 160,000 lines are
validation of records, user interface, catalogues and reports. What is hard in
it is smaller: objects shared by threads, asynchronous operations that are
cancelled or expire, services that must apply a command once, changes to files
that a crash can cut in two, and pipelines whose steps can fail half-way. This
directory models those parts in TLA+, checks the models with TLC on small
instances, and proves the most important facts with TLAPS for all instances.

Paths below are relative to `src/kodepoia` unless they start with `docs/` or
`tests/`.

## 1. Inventory

For each part: the state it keeps, its operations, whom it talks to, what is
hard about it, and what makes it correct.

| Part | State | Operations | Hard behaviour | Correct when |
|---|---|---|---|---|
| Emergency stop, process sandbox (`core/kill_switch.py`, `core/sandbox.py`) | a flag set without the lock, a set of registered processes under the lock | register, unregister, trigger, reset; run, spawn, close | registration, sweep and reset race; processes ignore SIGTERM; signals fail | nothing registered escapes a trigger; no child is forgotten; a reset finds nothing running |
| Recovery and safe change (`core/recovery.py`, `core/safe_change.py`, `core/fault_recovery.py`) | the target file, a snapshot, a journal written atomically | mutate (prepare, write, commit, verify, clean up), recover | a crash or an emergency stop between any two steps | the file is always the old one or the new one while anything is pending; recovery restores the old one and may itself be cut and repeated |
| Audit log, backup, secrets, trust, guards (`core/*`) | an append-only hash chain; backup sets; in-memory policies | append, verify; create, restore; classify | two writers on one chain | the chain verifies |
| Governed orchestration (`orchestrator/execution.py`, `plan.py`) | a semaphore of slots, workspace locks, evidence by task, cancelled plans | execute, recover, cancel_plan; plan validation and ordering | concurrent executions, cancellation while waiting or running, evidence written outside the lock | two tasks never work on one workspace; a task runs only after its dependencies; while a cancellation is in force nothing is cleared to start and nothing completes |
| Workspace registry, handoffs, history (`orchestrator/workspaces.py`, `handoff.py`, `history.py`, `runtime.py`) | registered workspaces, immutable handoffs, history records | register, assert_current, create, replay | identity drift between plan and execution | a stale plan does not run |
| Desktop asynchronous runtime (`desktop/async_runtime.py`) | owners with generations, handles, cancellation tokens, a concurrency semaphore, a bounded queue | start, cancel, open_owner, close_owner, shutdown, UI dispatch | queue and operation timeouts, cancellation before the first step, callbacks into a closed view | a closed owner receives no callback; every operation ends; capacity is given back |
| Desktop persistence and IPC (`desktop/persistence.py`, `desktop/ipc.py`) | a versioned document with a migration journal; a replay window | save, migrate, recover_interrupted_migration; accept | a crash inside a migration; replayed and reordered messages | the document is at the old or the new version; no message is accepted twice |
| Authoritative backend (`backend/authority.py`) | object states with revisions, session sequences, results by idempotency key, a bounded event log, authority leases, a pending counter | process, issue/validate/revoke lease, publish, acknowledge, resume | retries, reordering, concurrent clients on one object, backpressure, retention | a command takes effect at most once and only on the revision its sender saw |
| Cloud save (`backend/cloud_save.py`) | per slot: a chain of revisions, a current revision, open conflicts, results by idempotency key, quotas | upload, migrate, resolve_conflict, rollback, download | two devices upload from one base; retries; quotas reached | a write never silently replaces one its author had not seen |
| Event pipeline (`backend/event_pipeline.py`) | an event log with sequences under a lock; consumer checkpoints, attempts, dead letters and replays, mostly without one | register, append, acknowledge, record_delivery_failure, replay, prune | two workers for one consumer, poison events, pruning against slow consumers, a restart that forgets | a checkpoint never passes an unhandled event, nothing is given up early or pruned under a consumer, a consumer is never stuck |
| Matchmaking (`backend/matchmaking.py`) | lobbies, tickets, reservations, presence, reconnect grants | create, join, leave, ticket, run_matchmaking, expire | a run that fails between two reservations; expiry; capacity | a ticket has one reservation exactly when it is matched; the older ticket first; bounds hold |
| Resilience primitives (`backend/resilience.py`) | circuit breaker, token bucket, bulkhead, drain | run, before_call, success, failure, drain | late answers, half-open probes, retries holding capacity | bounds hold; drained means idle |
| Live operations (`backend/liveops.py`) | approvals, activations, a runtime record per campaign, an audit | approve, activate, advance, pause, resume, roll back, kill | every operation decides on a record it read without the lock and writes it later | a window that is over is closed; what was killed stays killed |
| Authentication, entitlements, progression, remote configuration, content delivery, PostgreSQL (`backend/*`) | in-memory ledgers and registries under one lock each | issue, rotate, grant, consume, publish, activate, roll back | a step failing after an earlier one took effect; idempotency | ledgers balance; a failed operation leaves nothing behind |
| Updates (`update/*`) | TUF metadata, download cache, pending install, seamless restart | check, refresh, download, install, resume | rollback, freeze, crash between download and install | only verified bytes run; versions never go back |
| Releases (`release/*`) | bundle, provenance, promotion ledger, incidents | stage, promote, revoke | partial promotion, revocation racing promotion | a channel only serves a complete promoted bundle |
| Tuning and model registry (`tuning/*`) | training runs, checkpoints, registry of models with active pointer | train, checkpoint, resume, promote, rollback | worker loss, resume from a checkpoint, crash between two writes | the active model is a promoted one; a resume continues a consistent checkpoint |
| ComfyUI service (`comfyui/*`) | for each run a current manifest and a chain of immutable revisions | submit, reconcile_once, wait, observe_event, save, recover; cancel, free memory | a POST without an answer, queue and history read one after the other, crashes between two files | one POST a run; the manifest never says more than the server; a verdict that was read is recorded, and no revision follows it |
| Blender service (`blender3d/*`) | generated scripts and validators | probe, export, validate | none of its own: sequential runs in the sandbox | — |
| Assets vault, intelligence memory, research (`assets/*`, `intelligence/*`, `experience/*`) | content-addressed files and indexes, caches | put, get, link, prune | index and blob written in two steps | an index entry has its blob |
| KodeCode and KodeGodot tools (`kodecode/*`, `kodegodot/*`) | LSP/DAP request tables, quarantined patches, worktrees | request, reply, patch, run | replies after timeouts | a reply reaches the request it answers |
| KodeStudio (`kodestudio/*`), CLI, mobile, media, quality, project wizard, catalogues | widgets, forms, generated projects, reports | user interface, generation, scanning | none of its own: it calls the parts above | — |

The parts interact by calls and shared objects. The sandbox registers every
child with the emergency stop; the orchestrator, the recovery drill and the
desktop runtime read its flag before they start and between steps, and
`cancel_plan` triggers it. The desktop runtime runs the studio's work. The
backend services are called by concurrent clients and protect themselves with
one re-entrant lock per object, so their critical sections are single steps;
what interleaves is the order in which clients' commands, retries and answers
arrive.


The hazards, one line each with its place in the code and the properties aimed
at it, are listed in `PROJECT.json` under `hazards`.

## 2. Modules

| Module | Stands for | Kind |
|---|---|---|
| `EmergencyStop` | what the emergency stop promises: processes are admitted only while it is off, and it is reset only when none is admitted | abstract |
| `KillSwitch` | `KillSwitch` and the launch, timeout and close paths of the sandbox | detailed, implements `EmergencyStop` |
| `GovernedExecution` | `GovernedExecutionCoordinator` | detailed |
| `AsyncRuntime` | `AsyncOperationRuntime` and its handles | detailed |
| `AtomicChange` | a file changes as a whole or not at all | abstract |
| `RecoveryDrill` | `fault_recovery.py` over the journal and the snapshots | detailed, implements `AtomicChange` |
| `CommandLedger` | one log of commands without gaps, repeats or lost updates | abstract |
| `Authority` | `AuthoritativeCommandProcessor` and `InMemoryAuthorityStore` | detailed, implements `CommandLedger` |
| `RealtimeBuffer` | `RealtimeAuthorityBuffer` between the store and its subscribers | composed with `Authority` |
| `EventPipeline` | `LocalEventStore` and `InMemoryEventPipelineService`, its consumers' workers, a restart | detailed |
| `ComfyExecution` | `ComfyExecutionService`, `ComfyRunStore` and the server they talk to | detailed |
| `LiveOps` | one campaign of `InMemoryLiveOpsService` | detailed |
| `Matchmaking` | tickets and reservations of `InMemoryMatchmakingService` | detailed |
| `MC...` | values of the constants for TLC | instances |
| `...Proofs` | theorems about the module they are named after | proofs |

Operators that follow a comment `Mutant:` are no part of a specification.
Each is a plausible mistake in the operator below it; put in its place, it
makes TLC report the property that `PROJECT.json` names with it.

### KillSwitch

`register`, `unregister` and `reset` hold one lock; `trigger` sets the flag
*without* it, takes the lock for a copy of the registry and sweeps the copy
with the lock released. So the module gives every critical section two steps
where the flag can change between them (`RegisterCheck`/`RegisterAdd`,
`ResetCheck`/`ResetClear`), and one to each stop signal of `_stop_process`
(terminate, wait, kill), whoever sends it: the sweep, a refused registration,
a timeout in `run`, `ManagedProcess.close`. A launcher thread is a program
counter over `_validate_launch`, `Popen`, `register`, the run, and
`unregister`. The operating system is `os[p]`: unborn, alive, exited. A process
may exit at any moment, may survive SIGTERM for ever, and the processes of
`Unsignalable` make both signals raise `OSError`, as the code provides for.
A process may also leave a child that keeps its pipes open (`held`):
`communicate()` then waits on, without a timeout after a stop, although the
process is dead (`Communicated`, `sandbox.py:271-275, 312-316`).
`swept` is a history variable: who was signalled while the flag was up.

### GovernedExecution

A thread is a program counter over `execute`: the preflight (`_preflight_error`
with identity, plan and approval digests as one outcome), the gate on the stop
and on cancelled plans, the dependencies, read one by one from a dictionary
that others write, the approval, the slot, the workspace lock, the second look
at the stop, the service, and the recording of evidence *after* slot and
workspace have been given back. Services return, raise, or return an output
that cannot be recorded, in which case `execute` itself raises. `recover` reads
the earlier evidence once and then is `execute`; `cancel_plan` notes the plan
and only then triggers the stop. Every read or write of shared state is a step;
so each gate is two, the cancelled plans and the stop, and a call that passed
the last one is `cleared` before its service begins: `cancel_plan` may return in
between, and the service begins all the same.

### AsyncRuntime

One asyncio loop: a step is what runs between two awaits. `stage` is where the
task of an operation is, `state` what its handle says; the two differ, and most
of what is hard lies in between. A cancellation is requested in one step
(`killed`) and delivered in a later one, which for a task that has not run yet
comes before the first line of `_run` (`NeverEntered`). An operation may catch a
cancellation, its own timeout's included, and work on (`Resist`,
`CheckpointIgnored`), and then succeed, fail or never end: `cancel`, the
timeout and `close_owner` only ask. `docs/roadmap/R12_11_ACCEPTANCE.md:14` calls
the execution timeout bounded; that holds of operations that let themselves be
cancelled. The semaphore hands a freed slot to a waiter; both timeouts and the
stop may strike at every wait.
`open_owner` and `close_owner` move the generation that leases are compared
with.

### RecoveryDrill

`file`, `journal` and `snapshot` are on the disk and survive the death of the
process, which `Die` allows between any two steps; `pc` and `change` are in
memory. The journal is replaced as a whole. `StageFails` is the error the code
can meet (and its own fault injection provokes) at each stage: it is recorded
in the journal, which may fail as well. `recover` checks the journal's and the
snapshot's digests, restores, verifies, and only then forgets the checkpoint.
`DamageJournal` and `DamageSnapshot` are the disk's doing, at any time, also
between the check of the snapshot and its use.

### Authority and RealtimeBuffer

`process` counts the call (or refuses it), tests actor, permission and
handler, has the store decide under its lock, and takes the count back in a
`finally`. The store's decision is one step: replay, idempotency conflict, out
of order, stale revision, handler failure, or the commit of five tables at
once; the clock, read first, may raise as well (`ClockFails`). Clients are
threads that send any command at any time, again and again, concurrently:
retries, duplicates and reordering need no further action.
Payloads are left out, so "the same digest" is "the same command".

`RealtimeBuffer` extends that module with the bounded buffer and subscribers.
Nothing under `src/kodepoia` publishes or acknowledges, so the model leaves both
open: any event of the log is published at any time, in any order and again,
as threads that publish what they committed would, and any number is
acknowledged. The buffer is in the order of its numbers, so `acknowledge` drops
its head (`Drop`). `accepted` is a history variable: the numbers `publish` took
that were above the floor.

### EventPipeline

The store is one step a call, since it holds its lock. The service holds a
lock in `register_consumer` only. So `acknowledge` is a read and check of the
checkpoint (`AckBegin`), its write (`Move`) and the note in `_acked_ids`
(`Note`); `record_delivery_failure` reads the count of attempts (`FailBegin`),
writes it and perhaps a dead letter (`CountFailure`), and goes on like an
acknowledgement; `prune_retention` compares checkpoints (`PruneBegin`) and
prunes later (`PruneStore`). `call` is what each worker holds in its local
variables. A worker acknowledges what it has handled; an event of `Poison`
nobody can handle. `Restart` is a new service over the old store: it forgets
everything the store does not keep, and a consumer may bring back the
checkpoint it saved, or an older one, or none. `handled` and `failures` are
history variables.

### ComfyExecution

A manifest holds the digest of its predecessor, so it is modelled as the
sequence of contents that leads to it: equal digests are equal sequences.
`save` has two steps, the revision file and the current pointer; a crash can
come between them and can leave the file torn. A caller is a program counter
and what its call has read; each manifest the code writes on the way
(`recovered`, `queued`, `running`, ...) is a save of its own, in the code's
order (`Reconciled`, `Observed`), also for a history entry that says the prompt
is running or says nothing of its end; `Due` is which of them are still to be
made, and `Apply` makes the first. The server receives, loses, starts, finishes
or cancels the prompt; queue and history are read one after the other.
`Recover` is `ComfyRunStore.recover`, which does not ask whether the pointer is
lost; only `comfyui/lifecycle.py:354-358` calls it, which nothing in the service,
the panel or the CLI does.

### LiveOps

Activation looks its id up under the lock, validates the approval it was
called with outside, and commits inside (`LookUp`, `Validate`, `ReadClock`,
`Commit`). Every other operation reads the runtime record,
decides with the clock, reads the record again for its activation, and
replaces it, all without the lock: `Look`, `Decide`, `Read`, `Write`. The clock
has three values: before the window, in it, after it.

### Matchmaking

Every operation holds the lock and first ends what the clock has ended, so
each is one step with its sweep in it. Only `run_matchmaking` takes several:
`Begin` sweeps, `Reserve` gives the next group its reservation, and the run ends
with `Return`, when no queue is long enough or no room is left, or with
`Refuse`, the exception at two tickets of one account, which keeps what the
run has made so far. `run` is not 0 while it holds the lock, and keeps every
other step out. The first criterion in the order of the digests that still has
a whole group is served (`Turn`), which is the order of the code's two loops,
since serving one criterion leaves the others as they are. The exception
`run_matchmaking` raises at its start when there is no room is a `Begin` and a
`Return`.

## 3. What TLC checks

| Run | Instance | Shows |
|---|---|---|
| `kill_switch` | one runner, one manager, one stopper, one resetter, two processes of which one cannot be signalled | no registered process slips past a sweep (`NoProcessSlipsThrough`), none is forgotten (`NoForgottenProcess`), a run that was stopped is not reported as failed (`SweptRunIsNotAFailure`), the lock-level code implements `EmergencyStop`; every process ends after a trigger (`NothingSurvivesTheStop`) and `run` comes back (`RunComesBack`) |
| `governed` | two threads, two slots, three tasks, one depending on another in the same workspace, one of them a mutation | exclusive workspaces (`WorkspaceExclusion`), no slot or lock lost (`ResourcesAreConserved`), dependencies done first (`DependenciesCompletedFirst`), completions earned (`CompletionIsEarned`) |
| `governed_live` | two threads for one slot, two tasks, cancellations and resets | while a cancellation is in force nothing is cleared to start and nothing completes (`CancellationIsFinal`), a reset revives no cancelled plan (`ResetRevivesNothing`), every call returns (`CallsReturn`) |
| `async` | three operations for one slot and one place in the queue, one owner opened twice | slots conserved (`SlotsAreConserved`), no task in a closed owner, and what is left active there was told to cancel (`ClosedOwnerHasNoTask`), no success after a cancellation was asked for (`CancelledNeverSucceeds`), stale leases stay stale (`StaleLeasesStayStale`); closing completes (`CloseCompletes`) and entered operations end (`EnteredOperationsEnd`), unless an operation holds out against its cancellation for ever |
| `recovery` | two tasks, two files, two payloads, three deaths or errors | every change is covered by a checkpoint, damage is never taken for contents, `AtomicChange` is implemented, an intact checkpoint is resolved |
| `authority` | two threads for one pending place, six commands of two sessions on two objects, a buffer of two events or two bytes, two subscribers | calls are counted, answers are true, revisions form chains, `CommandLedger` is implemented, and whatever is published or acknowledged in whatever order, a subscriber has every event accepted above the floor up to its cursor (`NothingMissed`) |
| `events` | two events of one source, the second one poison, one consumer, two workers, one replay, one restart, two attempts, one dead letter | no checkpoint passes an event its consumer has not handled (`NoEventIsSkipped`) although workers overwrite each other's, nothing is given up before its attempts (`NoEarlyDeadLetter`), pruning drops nothing a registered consumer needs (`PruneKeepsUnhandled`), a consumer moves on, unless it is at one of two dead ends of the code (`ConsumersProgress`) |
| `comfy` | one caller, one crash or lost pointer, a history that says succeeded, running or nothing of the end | one POST whatever is lost or called again (`AtMostOnePost`), the manifest is never ahead of the server (`NeverAheadOfTheServer`), no revision follows a terminal one (`NothingFollowsAVerdict`), a verdict that was read is recorded, also after a poll that was cut between two files (`VerdictIsRecorded`) |
| `liveops` | two threads, two activation ids, an audit of five records | a campaign whose window is over is closed for good, although every thread may write what it decided earlier (`WindowCloses`) |
| `matchmaking` | six tickets of three accounts and two criteria, groups of two, a queue of four, room for two reservations, one tick of the clock | tickets and reservations agree after runs that failed half-way (`AssignmentsAgree`), the older ticket is served first (`OldestFirst`), capacities hold (`WithinCapacity`) |

Two runs show that the code does not do what a document or a test of the
repository says (`findings` in `PROJECT.json`):

| Run | The code | The text |
|---|---|---|
| `comfy_overwritten` | of two callers the one that is slower to replace the current manifest puts its own, still active, in the place of the verdict the other recorded | `docs/roadmap/R9_1_DESIGN.md:29` |
| `liveops_kill` | a resume (or advance, pause, rollback) that read the record before a kill writes it after; a duplicate activation validated before the kill replaces the killed record | `tests/test_r14_14_liveops.py:477`, `docs/roadmap/R14_14_ACCEPTANCE.md:40` |

Other things seen while modelling, which the models contain and no property
forbids; most are hazards with a note in `PROJECT.json`:

- evidence is looked up by task id alone, so evidence of another plan lets a
  task run (`orchestrator/execution.py:276`), and a reset of the stop during a
  run lets a cancelled plan's task be recorded as completed (313);
- a call that passed its last look at the stop starts its service although
  `cancel_plan` has returned meanwhile (`orchestrator/execution.py:298-302`);
- an operation cancelled before its task first ran stays CANCELLING, and
  shutdown complains of it (`desktop/async_runtime.py:383, 569`);
- with an empty buffer `publish` accepts an event it had before, or an older
  one (`backend/authority.py:645`), although `docs/roadmap/R14_6_DESIGN.md:76-78`
  says that sequences increase; an event larger than `max_bytes` is refused
  every time (640-648);
- an acknowledgement that was slow moves a checkpoint back below an event that
  was given up; the event's next failure finds the dead letter and leaves the
  checkpoint there (`backend/event_pipeline.py:778, 802-806`), at any
  `max_dead_letters`: one of the two dead ends `ConsumersProgress` excepts, the
  other being dead letters that are full (825);
- a checkpoint of any age is restored when everything retained was pruned
  (`backend/event_pipeline.py:713`); a consumer registered with an old one after
  a prune finds its next event gone and never moves (716);
- a `submit` with a set cancel event turns a run whose POST may have arrived
  into a cancelled one (`comfyui/execution.py:389`); a crash between a revision
  and the pointer can be followed by another revision with the same number, and
  when the pointer is lost later it cannot be rebuilt (210), although
  `docs/roadmap/R9_5_DESIGN.md:48` says so; two calls of `submit` for one run at
  once both post, which only direct use of `ComfyExecutionService` can bring
  about, since `ComfyService.run` prepares a fresh run id;
- a full audit of the live operations refuses kills as well
  (`backend/liveops.py:1084`);
- two neighbouring tickets of one account stop every later run of the
  matchmaker until one of them ends (`backend/matchmaking.py:606`).

### Bounds

- `kill_switch`: two launchers are enough for a registration to race another
  launch, and one stopper, which may trigger again and again, for a sweep to
  race a registration, a reset and a timeout. The theorems of
  `KillSwitchProofs` cover any number of threads and processes for the safety
  properties; several stoppers under liveness are not checked.
- `governed`: exclusion needs two threads in one workspace and a third task
  elsewhere to take the other slot; a dependency chain of length one, since
  each look-up is independent. More is proved for any number.
- `async`: opening and closing each raise the generation, so `MaxGeneration = 3`
  lets an owner be opened twice, and a lease of its first life meet its second.
  One slot and one place in the queue make the third operation meet a full
  queue.
- `recovery`: `MaxFailures = 3` allows a death in the change, one in the
  recovery and one in the recovery of the recovery. Errors and deaths share it.
- `authority`: the six commands are chosen so that two compete for a revision,
  one is sent by the loser, one re-uses a key, one is refused. The log grows to
  at most three events through a buffer of two; one event fills the buffer
  alone. Threads and subscribers are interchangeable (`SYMMETRY`); the run has
  no liveness property.
- `events`: two workers are enough for one to overwrite what the other wrote,
  or to write after a pruning or a registration. Two events let a checkpoint
  fall behind, be passed and be pruned; streams and consumers share nothing but
  capacities. The count of failures stops at `MaxAttempts`.
- `comfy`: one caller, as KodeStudio's panel starts one operation at a time
  (`kodestudio/comfy_panel.py:304-306`), and one fault: a crash, or the loss of
  the pointer. With one caller a save never finds its own manifest in place
  already, so that branch of `WriteNothing` stays idle. `MaxPosts = 2` is one
  more than the code should send. What several callers may not do
  (`NeverAheadOfTheServer`, `NothingFollowsAVerdict`) is proved for any number;
  what two of them do wrong is `comfy_overwritten`, in which nobody recovers or
  crashes.
- `liveops`: two ids let an activation follow a closed one; an audit of five
  lets a campaign be approved, activated and changed three times, and be full
  before its end.
- `matchmaking`: one tick separates tickets and reservations that end at once
  from those that do not; three accounts over four tickets with one criterion
  give good, refused and left-over groups.

Deadlock is checked in every run. It says nothing in `liveops`, whose clock
always ticks, and in `matchmaking`, whose queries are always possible.

### Fairness

- `KillSwitch`: a thread inside a call keeps running (weak fairness of what it
  does next), and Python's lock does not starve a waiter for ever (strong
  fairness of taking it). Nothing makes a caller launch, trigger or reset, a
  timeout expire, or a process exit by itself.
- `GovernedExecution`: threads inside a call run on, a service returns or
  raises, and the semaphore's waiters are woken in turn (strong fairness of
  `AcquireSlot`); `threading.Semaphore` gives no order, so this is an
  assumption about the scheduler, and `CallsReturn` rests on it.
- `AsyncRuntime`: the loop runs every task that is ready and the timers fire,
  as asyncio's timeouts do. Nothing is assumed of the operations: they may wait
  for ever and catch every cancellation, and both properties except an operation
  that does (`HoldsOut`).
- `RecoveryDrill`: the process that has begun goes on, and somebody calls
  `recover` while a checkpoint exists. Deaths and errors are bounded.
- `RealtimeBuffer`: none; nobody has to publish, resume or acknowledge.
- `EventPipeline`: a worker inside a call goes on, and a consumer that can be
  served is served by somebody again and again (strong fairness of `Deliver`,
  since other calls may make it wait). Whether an attempt succeeds is open.
- `ComfyExecution`: a call that was begun goes on where nothing outside it is
  waited for (`Proceed`). Nobody has to poll, submit or recover, and the server
  need not answer a read or finish a prompt.
- `LiveOps`: time passes, calls go on, and an external scheduler keeps calling
  `advance_campaign`; nothing in the repository does, and without it a campaign
  that is never looked at stays active.
- `Matchmaking`: none; it has safety properties only.

## 4. What TLAPS proves

All theorems hold for any value of the constants under the named `ASSUME`s of
the modules (finite sets of threads, positive capacities, model values that
differ from the data). No theorem says anything about fairness.

`KillSwitchProofs`. `IInv` strengthens `NoProcessSlipsThrough` by two facts
the code relies on silently: the lock has one holder, whose label shows it, and
while a launcher that saw the flag clear has not registered its process yet, a
flag set meanwhile belongs to a stopper whose snapshot is still to come
(`AdmittedBeforeSnapshot`), because both need the lock. `OwnInv` adds who is
responsible for each live process, from which follow `NoForgottenProcess` and
`SweptRunIsNotAFailure`. `ResetIdle` and `SwitchKeepsPromise` are step properties
under `IInv`: each step is a step of `EmergencyStop` with the processes being
admitted counted as admitted, or a stutter.

`GovernedExecutionProofs`. `Basics` types, `Locks` says whose label holds which
workspace, `Slots` counts labels with `Cardinality`, `Earned` relates evidence
and the dependencies already looked up to the history of completions. Exclusion
and conservation follow directly. `StopHolds` says that a cancellation in force
keeps the stop up and that a plan whose cancellation was acknowledged is
remembered. `CancellationHolds` is a step property under it, with resets: no
step clears an execution while the stop is up, and none turns a service that
ends then into a completion. `ResetsReviveNothing` says that a call begun after
its plan was cancelled is never cleared, since the first look at every gate is
at the plans.

`RecoveryDrillProofs`. `Remembered` and `BaselineIsSettled` say that the change
in memory, the one in the journal, and the last settled contents agree;
`Restoring` that an undamaged snapshot holds the baseline when `recover`
writes it back. They make `OldOrNew` inductive, and with it the refinement of `AtomicChange`.

`AuthorityProofs`. `StoreAgrees` relates the five tables to the log: the number
of events, the stored results, which point into it. `CallsHold` says
that an admitted call is about a command. `AnswersHold` adds that the log only
grows. `ChainsHold` needs in addition that a target's
revision is the greatest in the log; `AuthorityIsLedger` that the counters of
sessions and targets are the cardinalities `CommandLedger` counts, which is
proved by adding one element at a time.

`AuthorityProofs` is also about the buffer. `BufferHolds`: whoever publishes
what, the buffer is in increasing order, and a number that was accepted above
the floor is in it or at or below the floor by now. `CursorsHold`: what a
subscriber lacks below its cursor is at or below the floor or the last event of
the buffer (`Covered`), where nothing that counts is accepted any more. A
resume returns all of the buffer above the cursor, a cursor below the floor is
refused, and `NothingMissed` follows (`NobodyMissesAnEvent`) for any sizes,
capacities, publishers and acknowledgements.

`AsyncRuntimeProofs`. `Handles` says what the stage of a task and the state
of its handle, token and pending cancellation have to do with each other;
`LeasesAreOld` that no lease is ahead of its owner's generation; `CloseWaits`
that a close in progress waits for every task its owner has left.
`ClosedIsQuiet` and `SlotsAreConserved` are inductive together with these, and
`ClosedOwnerHasNoTask` follows from `ClosedIsQuiet` and `Handles`. The seven
ways a task can end are one step to them (`Ends`, `TasksEnd`): a slot that is held comes back once, and nothing succeeds that is being
cancelled. `CancelledStaysCancelled` and `StaleLeasesNeverCurrent` are step
properties under the same invariant.

`EventPipelineProofs`. The service's calls are cut where they write, so what is
at stake is what a call still holds of what it read. `CallsAreInTurn` says it:
an acknowledgement or a dead letter that is under way comes after everything
up to it was dealt with, a failure that is being counted after everything
before it, and a pruning after everything before its mark at each consumer it
asked. All of that stays true however late the call goes on, because what was
handled stays handled; hence `NoEventIsSkipped` with any number of workers, and
`PruneKeepsUnhandled`. `AttemptsHappened` bounds the counts, also the one in a
worker's hand, by the failures that happened; counts are lost, never invented,
so no dead letter comes early. `AppendedOnce` bounds the stream.

`ComfyExecutionProofs`. `Sound` holds for any number of callers: everything
written, held by a caller or read from the server is backed by what the server
has done (`Backed`, `SeenBacked`, `QueueBacked`), and server states only move
on, so it stays backed; every manifest keeps an attempt it once had
(`Chained`); every file is readable. `NeverAhead` follows. `WorkEnds` is what
`NothingFollowsAVerdict` needs (`EndsAreFinal`, any number of callers): a caller
works on a terminal manifest only when nothing more is due, because a verdict
is the last change of a poll and once it is written the others have been
(`NothingAfterTheVerdict`). `PostedAtMostOnce` is a theorem about one caller
(`OneCaller`); two callers can both post. With one, the current manifest is the
one in the caller's hands or lost (`InHand`), and before the POST the attempt is
on the disk, where no crash and no recovery can take it back (`PostedOnce`).

`MatchmakingProofs`. `HeldOnce` is `AssignmentsAgree` without counting,
`PlacesAreGiven` that the next ticket is the youngest. That the oldest are
selected needs `Selected` to be closed under `Ahead` (`OlderIsSelected`): who is
older has fewer ahead of it. `TicketsAgree` needs that no selected ticket is in a
reservation already, which `HeldOnce` gives since it is still queued. Both
bounds are inductive by adding one element.

Type correctness of the eight modules, `OldOrNew` (`FilesAreOldOrNew`) and `OnlyApplyingChanges` (`OnlyApplyingChangesHolds`) are
proved for every instance and no part of a run.

Only model-checked: the liveness properties, which the prover cannot reach
(`NothingSurvivesTheStop`, `RunComesBack`, `CallsReturn`, `CloseCompletes`,
`EnteredOperationsEnd`, `RecoveryEnds`,
`ConsumersProgress`, `VerdictIsRecorded`, `WindowCloses`), and with the last
everything about `LiveOps`. Every safety property of a passing run is stated by
a theorem.

## 5. Not modelled

- Contents. Digests are equality of what they digest; payloads, paths,
  identifiers, messages and times are left out. The paths through the code that
  only validate them are one refusal without effect.
- Leases of `authority.py`: a lease is one comparison with one clock, and
  nothing in the repository uses it.
- `SafeChangeManager.restore` of several files, and
  `RecoveryJournal.resume` (`core/recovery.py:157-174`): `RecoveryDrill` has the
  path through `fault_recovery.py`, which changes one file.
- Two callers inside `mutate_file` at once: the test of `journal.path.exists()`
  is not atomic, and the code states no protection (see the hazards).
- Progress snapshots, the completion gate and the user-interface dispatcher of
  `async_runtime.py`.
- `comfyui/lifecycle.py`: cancelling, interrupting and freeing memory. Apart
  from its `recover` it goes through the run store only to read, and its requests are the server's
  `Finish` with a cancellation as far as `execution.py` can see.
- The capacities of the event pipeline for consumers, replay records, bytes and
  trace records: each is a refusal; the trace's comes after the change it
  should have recorded.
- Registration, rotations and audiences of live operations; lobbies, presence
  and reconnect grants of matchmaking.
- `desktop/persistence.py` was read for the next step of the plan. A migration
  is a backup, a journal, and one replacement; `import_database` (966-996)
  removes the database outside the journal, and recovery after a committed
  migration (941-964) discards what was written since.
- The parts with status `not_modelled` in `PROJECT.json`, each with its reason.

## 6. Plan

In this order; each part gets its abstract promise, one module, one instance
and, where it says so, its proofs.

1. `CloudSave` (`backend/cloud_save.py`): devices that read, edit, upload with
   the base they know, lose answers and retry; `upload`, `migrate`,
   `resolve_conflict` and `rollback` as single steps under the service's lock.
   Promise: a slot is a chain; every edit acknowledged is a revision or a
   conflict; one key has one effect; schemas change only by migration or
   rollback although a conflict stores a proposal for later. To be examined:
   `rollback` has no base, and a conflict whose server revision was overtaken
   can neither be resolved nor stops counting against its quota
   (`docs/roadmap/R14_PLAN.md:665`). Proofs: the chain and one effect for each
   key.
2. `DesktopMigration` (`desktop/persistence.py:874-996`): a migration or an
   import cut at any step and recovered.
3. `OrchestrationPlan` (`orchestrator/plan.py:274-290`): the deterministic
   topological order against its definition, over all small graphs.
4. `Resilience`, `ModelRegistry`: breaker, bulkhead and drain together;
   promotion and rollback of the active model.

The runs stay few: a new component takes one run for its safety and liveness
together, and one for a disagreement if it has one. A property that a
refinement or a theorem already implies gives its place to a deeper one, as
the type invariants did to those of the event pipeline.
