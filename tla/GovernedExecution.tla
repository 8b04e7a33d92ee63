------------------------- MODULE GovernedExecution -------------------------
(***************************************************************************)
(* src/kodepoia/orchestrator/execution.py: threads that execute, recover   *)
(* and cancel tasks of orchestration plans through one                     *)
(* GovernedExecutionCoordinator.  The slots are a semaphore; the workspace *)
(* locks and the cancelled plans are sets under _lock, whose critical      *)
(* sections are single steps; the evidence is a dictionary read and        *)
(* written without any lock, one step for each access.                     *)
(***************************************************************************)
EXTENDS Naturals, FiniteSets

CONSTANTS
    Threads,         \* callers of the coordinator
    Plans,           \* plan digests
    TaskIds,         \* task identifiers; plans may use the same ones
    Workspaces,
    workspace,       \* the workspace of each task
    dependencies,    \* the dependencies of each task
    Mutations,       \* the tasks whose effect is MUTATION_PROPOSED
    MaxConcurrency,  \* slots of the coordinator
    CanReset,        \* somebody resets the emergency stop
    None             \* no evidence, no job

ASSUME TasksAssumption ==
    /\ workspace \in [TaskIds -> Workspaces]
    /\ dependencies \in [TaskIds -> SUBSET TaskIds]
    /\ Mutations \subseteq TaskIds

ASSUME ConcurrencyAssumption ==
    /\ IsFiniteSet(Threads)
    /\ MaxConcurrency \in Nat \ {0}
    /\ CanReset \in BOOLEAN

VARIABLES
    stop,          \* kill_switch.triggered
    cancelled,     \* _cancelled_plans
    slots,         \* the value of _slots
    locks,         \* _workspace_locks
    evidence,      \* _evidence: what is recorded under each task id
    pc,            \* where each thread is
    job,           \* the arguments of its call
    todo,          \* dependencies still to look up
    verdict,       \* the state of the evidence it is going to record
    completed,     \* history: tasks of plans whose evidence was COMPLETED
    acknowledged,  \* history: plans whose cancel_plan has set the stop
    inForce,       \* history: those of them set since the last reset
    late           \* history: threads whose call began after its plan's stop

vars == <<stop, cancelled, slots, locks, evidence, pc, job, todo, verdict,
          completed, acknowledged, inForce, late>>

Jobs == [plan : Plans, task : TaskIds, approved : BOOLEAN, recovery : BOOLEAN]

\* What a call of cancel_plan is given.
Cancellations == [plan : Plans]

States == {"awaiting_approval", "blocked", "cancelled", "failed", "completed"}

Evidence == [plan : Plans, state : States]

Init ==
    /\ stop = FALSE
    /\ cancelled = {}
    /\ slots = MaxConcurrency
    /\ locks = {}
    /\ evidence = [i \in TaskIds |-> None]
    /\ pc = [t \in Threads |-> "idle"]
    /\ job = [t \in Threads |-> None]
    /\ todo = [t \in Threads |-> {}]
    /\ verdict = [t \in Threads |-> "none"]
    /\ completed = {}
    /\ acknowledged = {} /\ inForce = {} /\ late = {}

Task(t) == job[t].task
Workspace(t) == workspace[Task(t)]

Step(t, from, to) ==
    /\ pc[t] = from
    /\ pc' = [pc EXCEPT ![t] = to]

\* The call ends: its frame is gone.
Return(t, from) ==
    /\ Step(t, from, "idle")
    /\ job' = [job EXCEPT ![t] = None]
    /\ verdict' = [verdict EXCEPT ![t] = "none"]
    /\ late' = late \ {t}
    /\ UNCHANGED todo

Decide(t, state) == verdict' = [verdict EXCEPT ![t] = state]

\* The evidence found under task id i says COMPLETED, whoever wrote it.
Completed(i) == evidence[i] # None /\ evidence[i].state = "completed"

\* The test of "cancelled or triggered" reads one, then the other.
Cancelled(t) == job[t].plan \in cancelled

shared == <<stop, cancelled, slots, locks, evidence>>
history == <<completed, acknowledged, inForce, late>>
stops == <<completed, acknowledged, inForce>>

(***************************************************************************)
(* The calls.                                                              *)
(***************************************************************************)
Begin(t, p) ==
    /\ late' = IF p \in acknowledged THEN late \cup {t} ELSE late
    /\ UNCHANGED stops

Execute(t, p, i, approved) ==
    /\ Step(t, "idle", "preflight")
    /\ job' = [job EXCEPT ![t] = [plan |-> p, task |-> i, approved |-> approved,
                                  recovery |-> FALSE]]
    /\ Begin(t, p)
    /\ UNCHANGED <<shared, todo, verdict>>

\* recover looks at the prior evidence, then is an execute like any other.
Recover(t, p, i, approved) ==
    /\ ~Completed(i)
    /\ Step(t, "idle", "preflight")
    /\ job' = [job EXCEPT ![t] = [plan |-> p, task |-> i, approved |-> approved,
                                  recovery |-> TRUE]]
    /\ Begin(t, p)
    /\ UNCHANGED <<shared, todo, verdict>>

(***************************************************************************)
(* execute, before it waits for a slot.                                    *)
(***************************************************************************)
\* Identity drift or unusable handoff evidence (_preflight_error).
PreflightFails(t) ==
    /\ Step(t, "preflight", "record")
    /\ Decide(t, "blocked")
    /\ UNCHANGED <<shared, history, job, todo>>

PreflightPasses(t) ==
    /\ Step(t, "preflight", "gate")
    /\ UNCHANGED <<shared, history, job, todo, verdict>>

PassCancelled(t) ==
    /\ Step(t, "gate", "gate_stop")
    /\ ~Cancelled(t)
    /\ UNCHANGED <<shared, history, job, todo, verdict>>

PassGate(t) ==
    /\ Step(t, "gate_stop", "dependencies")
    /\ ~stop
    /\ todo' = [todo EXCEPT ![t] = dependencies[Task(t)]]
    /\ UNCHANGED <<shared, history, job, verdict>>

Refuse(t) ==
    /\ \/ Step(t, "gate", "record") /\ Cancelled(t)
       \/ Step(t, "gate_stop", "record") /\ stop
    /\ Decide(t, "cancelled")
    /\ UNCHANGED <<shared, history, job, todo>>

\* Mutant: a dependency is looked up, whatever its evidence says.
DependencySeen(t, d) ==
    /\ d \in todo[t]
    /\ evidence[d] # None
    /\ Step(t, "dependencies", "dependencies")
    /\ todo' = [todo EXCEPT ![t] = @ \ {d}]
    /\ UNCHANGED <<shared, history, job, verdict>>

DependencyDone(t, d) ==
    /\ d \in todo[t]
    /\ Completed(d)
    /\ Step(t, "dependencies", "dependencies")
    /\ todo' = [todo EXCEPT ![t] = @ \ {d}]
    /\ UNCHANGED <<shared, history, job, verdict>>

DependencyMissing(t, d) ==
    /\ d \in todo[t]
    /\ ~Completed(d)
    /\ Step(t, "dependencies", "record")
    /\ todo' = [todo EXCEPT ![t] = {}]
    /\ Decide(t, "blocked")
    /\ UNCHANGED <<shared, history, job>>

NeedsApproval(t) == Task(t) \in Mutations /\ ~job[t].approved

AwaitApproval(t) ==
    /\ Step(t, "dependencies", "record")
    /\ todo[t] = {}
    /\ NeedsApproval(t)
    /\ Decide(t, "awaiting_approval")
    /\ UNCHANGED <<shared, history, job, todo>>

Authorised(t) ==
    /\ Step(t, "dependencies", "slot")
    /\ todo[t] = {}
    /\ ~NeedsApproval(t)
    /\ UNCHANGED <<shared, history, job, todo, verdict>>

(***************************************************************************)
(* execute, inside "with self._slots".                                     *)
(***************************************************************************)
AcquireSlot(t) ==
    /\ slots > 0
    /\ Step(t, "slot", "lock")
    /\ slots' = slots - 1
    /\ UNCHANGED <<stop, cancelled, locks, evidence, history, job, todo, verdict>>

WorkspaceBusy(t) ==
    /\ Return(t, "lock")
    /\ Workspace(t) \in locks
    /\ evidence' = [evidence EXCEPT ![Task(t)] =
                      [plan |-> job[t].plan, state |-> "blocked"]]
    /\ slots' = slots + 1
    /\ UNCHANGED <<stop, cancelled, locks, stops>>

LockWorkspace(t) ==
    /\ Step(t, "lock", "recheck")
    /\ Workspace(t) \notin locks
    /\ locks' = locks \cup {Workspace(t)}
    /\ UNCHANGED <<stop, cancelled, slots, evidence, history, job, todo, verdict>>

PassCancelledAgain(t) ==
    /\ Step(t, "recheck", "recheck_stop")
    /\ ~Cancelled(t)
    /\ UNCHANGED <<shared, history, job, todo, verdict>>

\* The last look at the stop: cancel_plan may run and return after it.
ClearToStart(t) ==
    /\ Step(t, "recheck_stop", "cleared")
    /\ ~stop
    /\ UNCHANGED <<shared, history, job, todo, verdict>>

StoppedWhileWaiting(t) ==
    /\ \/ Step(t, "recheck", "release") /\ Cancelled(t)
       \/ Step(t, "recheck_stop", "release") /\ stop
    /\ Decide(t, "cancelled")
    /\ UNCHANGED <<shared, history, job, todo>>

\* Mutant: the workspace is given up as soon as the service starts.
ReleaseEarly(t) ==
    /\ Step(t, "cleared", "running")
    /\ locks' = locks \ {Workspace(t)}
    /\ UNCHANGED <<stop, cancelled, slots, evidence, history, job, todo, verdict>>

StartService(t) ==
    /\ Step(t, "cleared", "running")
    /\ UNCHANGED <<shared, history, job, todo, verdict>>

\* Mutant: the flag is not read after the service has returned.
ReturnCompleted(t) ==
    /\ Step(t, "running", "release")
    /\ Decide(t, "completed")
    /\ completed' = completed \cup {<<job[t].plan, Task(t)>>}
    /\ UNCHANGED <<shared, acknowledged, inForce, late, job, todo>>

ServiceReturns(t) ==
    /\ Step(t, "running", "release")
    /\ Decide(t, IF stop THEN "cancelled" ELSE "completed")
    /\ completed' = IF stop THEN completed
                            ELSE completed \cup {<<job[t].plan, Task(t)>>}
    /\ UNCHANGED <<shared, acknowledged, inForce, late, job, todo>>

\* Mutant: an exception of the service is taken for a result.
FailureAsCompletion(t) ==
    /\ Step(t, "running", "release")
    /\ Decide(t, "completed")
    /\ UNCHANGED <<shared, history, job, todo>>

ServiceFails(t) ==
    /\ Step(t, "running", "release")
    /\ Decide(t, "failed")
    /\ UNCHANGED <<shared, history, job, todo>>

\* The output cannot be put in canonical JSON (a NaN): execute itself raises.
OutputUnrecordable(t) ==
    /\ Step(t, "running", "release")
    /\ Decide(t, "none")
    /\ UNCHANGED <<shared, history, job, todo>>

\* Mutants: the slot, or the workspace, is kept when execute raises.
KeepWorkspaceOnRaise(t) ==
    /\ \/ verdict[t] = "none" /\ Return(t, "release") /\ UNCHANGED locks
       \/ /\ verdict[t] # "none"
          /\ Step(t, "release", "record")
          /\ locks' = locks \ {Workspace(t)}
          /\ UNCHANGED <<job, todo, verdict, late>>
    /\ slots' = slots + 1
    /\ UNCHANGED <<stop, cancelled, evidence, stops>>

ReleaseSlotOnSuccess(t) ==
    /\ \/ verdict[t] = "none" /\ Return(t, "release")
       \/ verdict[t] # "none" /\ Step(t, "release", "record") /\ UNCHANGED <<job, todo, verdict, late>>
    /\ locks' = locks \ {Workspace(t)}
    /\ slots' = IF verdict[t] = "none" THEN slots ELSE slots + 1
    /\ UNCHANGED <<stop, cancelled, evidence, stops>>

\* The finally clause, then the end of "with self._slots".
Release(t) ==
    /\ \/ verdict[t] = "none" /\ Return(t, "release")
       \/ verdict[t] # "none" /\ Step(t, "release", "record") /\ UNCHANGED <<job, todo, verdict, late>>
    /\ locks' = locks \ {Workspace(t)}
    /\ slots' = slots + 1
    /\ UNCHANGED <<stop, cancelled, evidence, stops>>

\* self._evidence[task.task_id] = evidence, whatever was there.
Record(t) ==
    /\ Return(t, "record")
    /\ evidence' = [evidence EXCEPT ![Task(t)] =
                      [plan |-> job[t].plan, state |-> verdict[t]]]
    /\ UNCHANGED <<stop, cancelled, slots, locks, stops>>

(***************************************************************************)
(* cancel_plan, and the reset of the emergency stop by its operator.       *)
(***************************************************************************)
\* Mutant: cancel_plan triggers the stop and does not remember the plan.
CancelUnremembered(t, p) ==
    /\ Step(t, "idle", "cancelling")
    /\ job' = [job EXCEPT ![t] = [plan |-> p]]
    /\ UNCHANGED <<shared, history, todo, verdict>>

CancelPlan(t, p) ==
    /\ Step(t, "idle", "cancelling")
    /\ cancelled' = cancelled \cup {p}
    /\ job' = [job EXCEPT ![t] = [plan |-> p]]
    /\ UNCHANGED <<stop, slots, locks, evidence, history, todo, verdict>>

TriggerStop(t) ==
    /\ Return(t, "cancelling")
    /\ stop' = TRUE
    /\ acknowledged' = acknowledged \cup {job[t].plan}
    /\ inForce' = inForce \cup {job[t].plan}
    /\ UNCHANGED <<cancelled, slots, locks, evidence, completed>>

ResetStop ==
    /\ CanReset
    /\ stop
    /\ stop' = FALSE
    /\ inForce' = {}
    /\ UNCHANGED <<cancelled, slots, locks, evidence, pc, job, todo, verdict,
                   completed, acknowledged, late>>

\* A matching approval is or is not supplied; read-only tasks ignore it.
Approvals(i) == IF i \in Mutations THEN BOOLEAN ELSE {FALSE}

Call(t) ==
    \/ \E p \in Plans, i \in TaskIds : \E a \in Approvals(i) :
         Execute(t, p, i, a) \/ Recover(t, p, i, a)
    \/ \E p \in Plans : CancelPlan(t, p)

Prepare(t) ==
    \/ PreflightFails(t) \/ PreflightPasses(t)
    \/ PassCancelled(t) \/ PassGate(t) \/ Refuse(t)
    \/ \E d \in TaskIds : DependencyDone(t, d) \/ DependencyMissing(t, d)
    \/ AwaitApproval(t) \/ Authorised(t)

Work(t) ==
    \/ WorkspaceBusy(t) \/ LockWorkspace(t)
    \/ PassCancelledAgain(t) \/ ClearToStart(t) \/ StoppedWhileWaiting(t)
    \/ StartService(t)
    \/ ServiceReturns(t) \/ ServiceFails(t) \/ OutputUnrecordable(t)
    \/ Release(t) \/ Record(t)

Next ==
    \/ \E t \in Threads : Call(t) \/ Prepare(t) \/ AcquireSlot(t) \/ Work(t) \/ TriggerStop(t)
    \/ ResetStop

Spec == Init /\ [][Next]_vars

(***************************************************************************)
(* Fairness: a thread inside a call goes on, services return or raise, and *)
(* the semaphore wakes its waiters in turn.                                *)
(***************************************************************************)
FairSpec ==
    /\ Spec
    /\ \A t \in Threads :
         /\ WF_vars(Prepare(t) \/ Work(t) \/ TriggerStop(t))
         /\ SF_vars(AcquireSlot(t))

-----------------------------------------------------------------------------
PCs == {"idle", "preflight", "gate", "gate_stop", "dependencies", "slot", "lock",
        "recheck", "recheck_stop", "cleared", "running", "release", "record", "cancelling"}

TypeOK ==
    /\ stop \in BOOLEAN
    /\ cancelled \subseteq Plans
    /\ slots \in 0 .. MaxConcurrency
    /\ locks \subseteq Workspaces
    /\ evidence \in [TaskIds -> Evidence \cup {None}]
    /\ pc \in [Threads -> PCs]
    /\ job \in [Threads -> Jobs \cup Cancellations \cup {None}]
    /\ \A t \in Threads : pc[t] \notin {"idle", "cancelling"} => job[t] \in Jobs
    /\ \A t \in Threads : pc[t] = "cancelling" => job[t] \in Cancellations
    /\ todo \in [Threads -> SUBSET TaskIds]
    /\ verdict \in [Threads -> States \cup {"none"}]
    /\ completed \subseteq Plans \X TaskIds
    /\ acknowledged \subseteq Plans /\ inForce \subseteq Plans
    /\ late \subseteq Threads

\* The threads that hold a slot, and those that hold a workspace.
LockPC == {"recheck", "recheck_stop", "cleared", "running", "release"}
SlotHolders == {t \in Threads : pc[t] \in LockPC \cup {"lock"}}
LockHolders == {t \in Threads : pc[t] \in LockPC}

(* Two executions never work in one workspace at the same time             *)
(* (execution.py:290-324).                                                 *)
WorkspaceExclusion ==
    \A t, u \in LockHolders : t # u => Workspace(t) # Workspace(u)

LocksAreHeld == locks = {Workspace(t) : t \in LockHolders}
SlotsAreConserved == slots + Cardinality(SlotHolders) = MaxConcurrency

(* No path out of execute, raising included, leaves a workspace locked for *)
(* good, loses a slot or gives one back twice: a workspace is locked       *)
(* exactly while an execution works in it, and the free slots and their    *)
(* holders add up to the semaphore's capacity (execution.py:290-324).      *)
ResourcesAreConserved == LocksAreHeld /\ SlotsAreConserved

(* A service runs a task only when each of its dependencies has been       *)
(* completed by some execution, however evidence was overwritten since     *)
(* (execution.py:275-280).                                                 *)
DependenciesCompletedFirst ==
    \A t \in Threads : pc[t] \in LockPC \ {"release"} =>
        \A d \in dependencies[Task(t)] : \E p \in Plans : <<p, d>> \in completed

(* Evidence that says COMPLETED was earned: the service of that very plan  *)
(* and task returned with no stop in force (execution.py:311-327).         *)
CompletionIsEarned ==
    \A i \in TaskIds : Completed(i) => <<evidence[i].plan, i>> \in completed

(* While a stop set by a cancel_plan is in force, no execution is cleared  *)
(* to start its service and no service already running ends in a           *)
(* completion, of any plan.  An execution cleared just before may still    *)
(* call its service: nothing is read between the two                       *)
(* (execution.py:245-248, 298-302, 311-315).                               *)
CancellationIsFinal ==
    [][inForce # {} =>
         \A t \in Threads :
            /\ pc'[t] = "cleared" => pc[t] = "cleared"
            /\ pc[t] \in {"cleared", "running"} => verdict'[t] # "completed"]_vars

(* A reset of the emergency stop revives no cancelled plan: a call that    *)
(* begins after cancel_plan never reaches a service, whatever is reset     *)
(* between its two looks at the stop (execution.py:247, 270, 298).         *)
ResetRevivesNothing ==
    \A t \in late : pc[t] \notin {"cleared", "running"}

(* Every call comes back: nobody waits for ever for a slot.                *)
CallsReturn == \A t \in Threads : pc[t] # "idle" ~> pc[t] = "idle"
=============================================================================
