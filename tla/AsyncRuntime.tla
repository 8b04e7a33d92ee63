---------------------------- MODULE AsyncRuntime ----------------------------
(***************************************************************************)
(* src/kodepoia/desktop/async_runtime.py: operations of owners (views) run *)
(* as tasks of one asyncio loop.  A step is what runs between two awaits.  *)
(* A cancellation requested by handle.cancel() is delivered to the task    *)
(* at its next step, which for a task that never ran is before the first   *)
(* line of _run.  An operation may catch the CancelledError and go on: the *)
(* runtime cancels its tasks and waits for them, it cannot end them.       *)
(***************************************************************************)
EXTENDS Naturals, FiniteSets

CONSTANTS
    Ops,             \* operation ids, each started at most once
    Owners,
    Governed,        \* operations of a governed kind (build, test, package)
    MaxConcurrency,  \* policy.max_concurrency
    QueueCapacity,   \* policy.queue_capacity
    MaxGeneration,   \* bound: no owner is opened again past this generation
    None

ASSUME PolicyAssumption ==
    /\ IsFiniteSet(Ops)
    /\ Governed \subseteq Ops
    /\ MaxConcurrency \in Nat \ {0}
    /\ QueueCapacity \in Nat
    /\ MaxGeneration \in Nat \ {0}
    /\ None \notin [owner : Owners, generation : Nat]

VARIABLES
    stop,        \* kill_switch.triggered
    owner,       \* _owners: state and generation
    waiting,     \* the tasks a close_owner in progress gathers
    state,       \* the state of each handle; "NONE" before start
    lease,       \* the owner and generation each operation was started with
    token,       \* cancellation tokens that are set
    stage,       \* where the task of each operation is
    killed,      \* tasks with a cancellation still to be delivered
    expired,     \* running operations whose timer has fired
    resisted,    \* history: those that caught a cancellation and went on
    slots        \* the free slots of _semaphore, a slot handed to a waiter that
                 \* has not resumed yet counted as free

vars == <<stop, owner, waiting, state, lease, token, stage, killed, expired, resisted, slots>>

Terminal == {"CANCELLED", "SUCCEEDED", "FAILED", "TIMED_OUT"}
Stages == {"none", "created", "queued", "operating", "settling", "over"}

Done(op) == state[op] \in Terminal
Active == {op \in Ops : state[op] # "NONE" /\ ~Done(op)}
Queued == {op \in Ops : stage[op] = "queued"}
Current(l) == owner[l.owner].state = "OPEN" /\ owner[l.owner].generation = l.generation

Init ==
    /\ stop = FALSE
    /\ owner = [o \in Owners |-> [state |-> "CLOSED", generation |-> 0]]
    /\ waiting = [o \in Owners |-> {}]
    /\ state = [op \in Ops |-> "NONE"]
    /\ lease = [op \in Ops |-> None]
    /\ token = {}
    /\ stage = [op \in Ops |-> "none"]
    /\ killed = {} /\ expired = {} /\ resisted = {}
    /\ slots = MaxConcurrency

(***************************************************************************)
(* Owners.                                                                 *)
(***************************************************************************)
\* Mutant: a new owner record starts again at generation 1.
OpenAfresh(o) ==
    /\ owner[o].state = "CLOSED"
    /\ owner[o].generation < MaxGeneration
    /\ owner' = [owner EXCEPT ![o] = [state |-> "OPEN", generation |-> 1]]
    /\ UNCHANGED <<stop, waiting, state, lease, token, stage, killed, expired, resisted, slots>>

OpenOwner(o) ==
    /\ owner[o].state = "CLOSED"
    /\ owner[o].generation < MaxGeneration
    /\ owner' = [owner EXCEPT ![o] = [state |-> "OPEN", generation |-> @.generation + 1]]
    /\ UNCHANGED <<stop, waiting, state, lease, token, stage, killed, expired, resisted, slots>>

\* handle.cancel() on every operation of ops that is not done.
CancelAll(ops) ==
    LET live == ops \cap Active IN
    /\ token' = token \cup live
    /\ state' = [op \in Ops |-> IF op \in live THEN "CANCELLING" ELSE state[op]]
    /\ killed' = killed \cup {op \in live : stage[op] # "over"}

OwnedBy(o) == {op \in Ops : lease[op] # None /\ lease[op].owner = o}

\* close_owner up to its gather.  It may be called again while it waits: the
\* first gather that ends closes the record, and both wait for the same tasks.
CloseOwner(o) ==
    /\ owner[o].state # "CLOSED"
    /\ owner[o].generation <= MaxGeneration
    /\ owner' = [owner EXCEPT ![o] = [state |-> "CLOSING", generation |-> @.generation + 1]]
    /\ waiting' = [waiting EXCEPT ![o] = {op \in OwnedBy(o) : stage[op] # "over"}]
    /\ CancelAll(OwnedBy(o))
    /\ UNCHANGED <<stop, lease, stage, expired, resisted, slots>>

\* Mutants: close_owner waits for the handles, or for nothing.
ClosedWhenHandlesDone(o) ==
    /\ owner[o].state = "CLOSING"
    /\ OwnedBy(o) \cap Active = {}
    /\ owner' = [owner EXCEPT ![o].state = "CLOSED"]
    /\ waiting' = [waiting EXCEPT ![o] = {}]
    /\ UNCHANGED <<stop, state, lease, token, stage, killed, expired, resisted, slots>>

ClosedAtOnce(o) ==
    /\ owner[o].state = "CLOSING"
    /\ owner' = [owner EXCEPT ![o].state = "CLOSED"]
    /\ waiting' = [waiting EXCEPT ![o] = {}]
    /\ UNCHANGED <<stop, state, lease, token, stage, killed, expired, resisted, slots>>

\* The gather returns when every task it was given is over.
OwnerClosed(o) ==
    /\ owner[o].state = "CLOSING"
    /\ \A op \in waiting[o] : stage[op] = "over"
    /\ owner' = [owner EXCEPT ![o].state = "CLOSED"]
    /\ waiting' = [waiting EXCEPT ![o] = {}]
    /\ UNCHANGED <<stop, state, lease, token, stage, killed, expired, resisted, slots>>

(***************************************************************************)
(* Handles.                                                                *)
(***************************************************************************)
Refused(op) == op \in Governed /\ stop

Start(op, o) ==
    /\ state[op] = "NONE"
    /\ owner[o].state = "OPEN"
    /\ Cardinality(Active) < MaxConcurrency + QueueCapacity
    /\ ~Refused(op)
    /\ state' = [state EXCEPT ![op] = "PENDING"]
    /\ lease' = [lease EXCEPT ![op] = [owner |-> o, generation |-> owner[o].generation]]
    /\ stage' = [stage EXCEPT ![op] = "created"]
    /\ UNCHANGED <<stop, owner, waiting, token, killed, expired, resisted, slots>>

Cancel(op) ==
    /\ op \in Active
    /\ CancelAll({op})
    /\ UNCHANGED <<stop, owner, waiting, lease, stage, expired, resisted, slots>>

(***************************************************************************)
(* The task of an operation: _run.                                         *)
(***************************************************************************)
\* _run ends; free says whether it held a slot.
End(op, final, free) ==
    /\ state' = [state EXCEPT ![op] = final]
    /\ stage' = [stage EXCEPT ![op] = "over"]
    /\ killed' = killed \ {op}
    /\ expired' = expired \ {op} /\ resisted' = resisted \ {op}
    /\ slots' = slots + free
    /\ UNCHANGED <<stop, owner, waiting, lease>>

\* asyncio throws the cancellation into a coroutine that has not started:
\* none of _run's handlers sees it and the handle keeps its state.
NeverEntered(op) ==
    /\ stage[op] = "created"
    /\ op \in killed
    /\ End(op, state[op], 0)
    /\ UNCHANGED token

EnterQueue(op) ==
    /\ stage[op] = "created"
    /\ op \notin killed
    /\ slots = 0 \/ Queued # {}
    /\ stage' = [stage EXCEPT ![op] = "queued"]
    /\ UNCHANGED <<stop, owner, waiting, state, lease, token, killed, expired, resisted, slots>>

\* A slot is free for op, at once or after a wait.
SlotGranted(op) ==
    /\ slots > 0
    /\ op \notin killed
    /\ \/ stage[op] = "created" /\ Queued = {}
       \/ stage[op] = "queued"

Unwanted(op) == ~Current(lease[op]) \/ op \in token \/ Refused(op)

Begin(op) ==
    /\ SlotGranted(op)
    /\ ~Unwanted(op)
    /\ state' = [state EXCEPT ![op] = "RUNNING"]
    /\ stage' = [stage EXCEPT ![op] = "operating"]
    /\ slots' = slots - 1
    /\ UNCHANGED <<stop, owner, waiting, lease, token, killed, expired, resisted>>

BeginRefused(op) ==
    /\ SlotGranted(op)
    /\ Unwanted(op)
    /\ token' = token \cup {op}
    /\ End(op, "CANCELLED", 0)

QueueTimeout(op) ==
    /\ stage[op] = "queued"
    /\ op \notin killed
    /\ End(op, "TIMED_OUT", 0)
    /\ UNCHANGED token

\* Mutant: the slot is not released when a cancellation arrives.
CancelKeepsSlot(op) ==
    /\ op \in killed
    /\ stage[op] \in {"queued", "operating", "settling"}
    /\ token' = token \cup {op}
    /\ End(op, "CANCELLED", 0)

\* What a CancelledError that leaves the operation becomes: the timeout block
\* turns its own into a TimeoutError, unless handle.cancel() asked for one too.
Interrupted(op) ==
    IF op \in expired /\ state[op] # "CANCELLING" THEN "TIMED_OUT" ELSE "CANCELLED"

CancelDelivered(op) ==
    /\ op \in killed
    /\ token' = token \cup {op}
    /\ \/ stage[op] = "queued" /\ End(op, "CANCELLED", 0)
       \/ stage[op] \in {"operating", "settling"} /\ End(op, Interrupted(op), 1)

\* The operation catches the CancelledError, or awaits in a finally clause.
Resist(op) ==
    /\ op \in killed
    /\ stage[op] = "operating"
    /\ killed' = killed \ {op}
    /\ resisted' = resisted \cup {op}
    /\ UNCHANGED <<stop, owner, waiting, state, lease, token, stage, expired, slots>>

\* An exception of its own; a TimeoutError of its own is taken for the timer's.
OperationRaises(op) ==
    /\ stage[op] = "operating"
    /\ op \notin killed
    /\ \/ End(op, "FAILED", 1) /\ UNCHANGED token
       \/ End(op, "TIMED_OUT", 1) /\ token' = token \cup {op}

\* A checkpoint of the operation, or the last one, sees the token or the stop.
CheckpointStops(op) ==
    /\ stage[op] = "operating"
    /\ op \notin killed
    /\ op \in token \/ Refused(op)
    /\ token' = token \cup {op}
    /\ End(op, Interrupted(op), 1)

CheckpointIgnored(op) ==
    /\ stage[op] = "operating"
    /\ op \notin killed
    /\ Refused(op)
    /\ token' = token \cup {op}
    /\ UNCHANGED <<stop, owner, waiting, state, lease, stage, killed, expired, resisted, slots>>

\* The operation returned; the last checkpoint yields to the loop.
OperationReturns(op) ==
    /\ stage[op] = "operating"
    /\ op \notin killed \cup token
    /\ ~Refused(op)
    /\ stage' = [stage EXCEPT ![op] = "settling"]
    /\ UNCHANGED <<stop, owner, waiting, state, lease, token, killed, expired, resisted, slots>>

\* Mutant: nothing looks at the token after the last yield.
SucceedUnchecked(op) ==
    /\ stage[op] = "settling"
    /\ End(op, "SUCCEEDED", 1)
    /\ UNCHANGED token

Succeed(op) ==
    /\ stage[op] = "settling"
    /\ op \notin killed \cup token
    /\ End(op, "SUCCEEDED", 1)
    /\ UNCHANGED token

\* Mutant: the timer fires and cancels nothing.
TimerCancelsNothing(op) ==
    /\ stage[op] \in {"operating", "settling"}
    /\ op \notin expired
    /\ expired' = expired \cup {op}
    /\ UNCHANGED <<stop, owner, waiting, state, lease, token, stage, killed, resisted, slots>>

\* The timer of the timeout block fires once: it cancels the task.
OperationTimeout(op) ==
    /\ stage[op] \in {"operating", "settling"}
    /\ op \notin expired
    /\ expired' = expired \cup {op}
    /\ killed' = killed \cup {op}
    /\ UNCHANGED <<stop, owner, waiting, state, lease, token, stage, resisted, slots>>

handles == <<owner, waiting, state, lease, token, stage, killed, expired, resisted, slots>>

TriggerStop == stop' = TRUE /\ UNCHANGED handles
ResetStop == stop' = FALSE /\ UNCHANGED handles

\* What the loop does with the task of op, whatever the operation is.
TaskStep(op) ==
    \/ NeverEntered(op) \/ EnterQueue(op)
    \/ Begin(op) \/ BeginRefused(op)
    \/ CancelDelivered(op) \/ Resist(op)
    \/ Succeed(op)

Timeout(op) == QueueTimeout(op) \/ OperationTimeout(op)

Operation(op) ==
    \/ OperationRaises(op) \/ OperationReturns(op)
    \/ CheckpointStops(op) \/ CheckpointIgnored(op)

Next ==
    \/ \E o \in Owners : OpenOwner(o) \/ CloseOwner(o) \/ OwnerClosed(o)
    \/ \E op \in Ops :
         \/ \E o \in Owners : Start(op, o)
         \/ Cancel(op)
         \/ TaskStep(op) \/ Timeout(op) \/ Operation(op)
    \/ TriggerStop \/ ResetStop

Spec == Init /\ [][Next]_vars

(***************************************************************************)
(* Fairness: the loop runs its ready tasks and its timers fire.  Nothing   *)
(* is assumed of the operations themselves, which may never return and may *)
(* catch every cancellation.                                               *)
(***************************************************************************)
FairSpec ==
    /\ Spec
    /\ \A op \in Ops : WF_vars(TaskStep(op)) /\ WF_vars(Timeout(op))
    /\ \A o \in Owners : WF_vars(OwnerClosed(o))

-----------------------------------------------------------------------------
InSlot == {op \in Ops : stage[op] \in {"operating", "settling"}}

(* Whatever ends an operation, its slot of the semaphore is given back     *)
(* once and only once (async_runtime.py:494-531).                          *)
SlotsAreConserved == slots + Cardinality(InSlot) = MaxConcurrency

(* A closed owner has no task left, so none of its code runs after         *)
(* close_owner has returned.  An operation it leaves active for shutdown   *)
(* to complain of was told to cancel and will never begin                  *)
(* (async_runtime.py:375-383, 550-569).                                    *)
ClosedOwnerHasNoTask ==
    \A op \in Ops :
        lease[op] # None /\ owner[lease[op].owner].state = "CLOSED" =>
            /\ stage[op] = "over"
            /\ op \in Active => state[op] = "CANCELLING" /\ op \in token

(* A cancelled operation does not report success, even when cancel() comes *)
(* after the operation returned and before its last checkpoint             *)
(* (async_runtime.py:324-330, 517-528).                                    *)
CancelledNeverSucceeds ==
    [][\A op \in token : state'[op] = "SUCCEEDED" => state[op] = "SUCCEEDED"]_vars

(* A lease that is stale stays stale when its owner is opened again, so a  *)
(* callback of a closed view is never run in the next one                  *)
(* (async_runtime.py:421-443, 555).                                        *)
StaleLeasesStayStale ==
    [][\A op \in Ops : lease[op] # None /\ ~Current(lease[op])
                          => ~Current(lease[op])']_vars

\* The operation was told to stop, caught that, and never ends.
HoldsOut(op) == [](stage[op] = "operating" /\ op \in resisted)

(* Closing an owner completes although its operations may never return, as *)
(* long as none of them catches its cancellation and works on for ever:    *)
(* the gather of close_owner has no timeout (async_runtime.py:550-563).    *)
CloseCompletes ==
    \A o \in Owners : owner[o].state = "CLOSING" ~>
        \/ owner[o].state = "CLOSED"
        \/ \E op \in Ops : op \in OwnedBy(o) /\ HoldsOut(op)

(* An operation that was entered ends, by itself or by its timer, unless   *)
(* it holds out against the cancellation: asyncio.timeout only cancels and *)
(* waits (async_runtime.py:494-526).                                       *)
EnteredOperationsEnd ==
    \A op \in Ops : stage[op] \in {"queued", "operating"} ~> Done(op) \/ HoldsOut(op)
=============================================================================
