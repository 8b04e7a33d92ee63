------------------------- MODULE AsyncRuntimeProofs -------------------------
(***************************************************************************)
(* Proofs about AsyncRuntime for any number of operations and owners, any  *)
(* capacities and generations: slots are conserved, a closed owner has no  *)
(* task, a cancelled operation never succeeds, a stale lease stays stale.  *)
(***************************************************************************)
EXTENDS AsyncRuntime, FiniteSetTheorems, TLAPS

-----------------------------------------------------------------------------
(* Types, and what the stage of a task says of its handle.                 *)

HandleStates == Terminal \cup {"NONE", "PENDING", "RUNNING", "CANCELLING"}
Leases == [owner : Owners, generation : Nat]

TypeOK ==
    /\ stop \in BOOLEAN
    /\ owner \in [Owners -> [state : {"OPEN", "CLOSING", "CLOSED"}, generation : Nat]]
    /\ waiting \in [Owners -> SUBSET Ops]
    /\ state \in [Ops -> HandleStates]
    /\ lease \in [Ops -> Leases \cup {None}]
    /\ token \subseteq Ops
    /\ stage \in [Ops -> Stages]
    /\ killed \subseteq Ops /\ expired \subseteq Ops /\ resisted \subseteq Ops
    /\ slots \in Nat

InHand == {"created", "queued", "operating", "settling"}

(* A handle has a task and a lease from its start on, and the task that is *)
(* not over has a handle that is not done.  A task that ends before it has *)
(* run was cancelled, and leaves its handle CANCELLING.                    *)
Handles ==
    \A op \in Ops :
        /\ stage[op] = "none" <=> state[op] = "NONE"
        /\ stage[op] = "none" <=> lease[op] = None
        /\ stage[op] \in InHand => ~Done(op)
        /\ op \in killed => stage[op] \in InHand
        /\ \/ stage[op] = "created" /\ op \in killed
           \/ stage[op] = "over" /\ ~Done(op)
           => state[op] = "CANCELLING" /\ op \in token

(* Every lease was given by a generation its owner had.                    *)
LeasesAreOld ==
    \A op \in Ops : lease[op] # None => lease[op].generation <= owner[lease[op].owner].generation

(* A close in progress waits for every task of its owner.                  *)
CloseWaits ==
    \A op \in Ops :
        lease[op] # None /\ owner[lease[op].owner].state = "CLOSING" /\ stage[op] # "over"
            => op \in waiting[lease[op].owner]

(* A closed owner has no task left.                                        *)
ClosedIsQuiet ==
    \A op \in Ops :
        lease[op] # None /\ owner[lease[op].owner].state = "CLOSED" => stage[op] = "over"

Basics == TypeOK /\ Handles

IInv == Basics /\ LeasesAreOld /\ CloseWaits /\ ClosedIsQuiet /\ SlotsAreConserved

-----------------------------------------------------------------------------
(* Seven actions end a task; to the invariants they are one: a task that   *)
(* is not over is, a slot it held is given back, and it succeeds only when *)
(* its token is not set.                                                   *)
EndsAs(op) ==
    \E final \in HandleStates \ {"NONE"} :
        /\ stage[op] \in InHand
        /\ End(op, final, IF op \in InSlot THEN 1 ELSE 0)
        /\ token' = token \/ token' = token \cup {op}
        /\ final = "SUCCEEDED" => op \notin token

Ends(op) ==
    /\ EndsAs(op)
    /\ \/ state'[op] \in Terminal
       \/ state'[op] = "CANCELLING" /\ op \in token

LEMMA TasksEnd ==
  ASSUME Basics, NEW op \in Ops,
         \/ NeverEntered(op) \/ BeginRefused(op) \/ QueueTimeout(op) \/ CancelDelivered(op)
         \/ OperationRaises(op) \/ CheckpointStops(op) \/ Succeed(op)
  PROVE  Ends(op)
<1> USE DEF Basics, TypeOK, Handles, InHand, InSlot, HandleStates, Terminal
<1>1. CASE NeverEntered(op)
  <2>1. EndsAs(op)
    BY <1>1 DEF NeverEntered, EndsAs, Done
  <2>2. state'[op] = "CANCELLING" /\ op \in token
    BY <1>1 DEF NeverEntered, End
  <2>3. QED
    BY <2>1, <2>2 DEF Ends
<1>2. ASSUME \/ BeginRefused(op) \/ QueueTimeout(op) \/ CancelDelivered(op)
             \/ OperationRaises(op) \/ CheckpointStops(op) \/ Succeed(op)
      PROVE  EndsAs(op) /\ state'[op] \in Terminal
  <2>1. CASE BeginRefused(op)
    <3>1. EndsAs(op)
      BY <2>1 DEF BeginRefused, SlotGranted, EndsAs
    <3>2. state'[op] \in Terminal
      BY <2>1 DEF BeginRefused, End
    <3>3. QED
      BY <3>1, <3>2
  <2>2. CASE QueueTimeout(op)
    <3>1. EndsAs(op)
      BY <2>2 DEF QueueTimeout, EndsAs
    <3>2. state'[op] \in Terminal
      BY <2>2 DEF QueueTimeout, End
    <3>3. QED
      BY <3>1, <3>2
  <2>3. CASE CancelDelivered(op)
    <3>1. EndsAs(op)
      BY <2>3 DEF CancelDelivered, Interrupted, EndsAs
    <3>2. state'[op] \in Terminal
      BY <2>3 DEF CancelDelivered, Interrupted, End
    <3>3. QED
      BY <3>1, <3>2
  <2>4. CASE OperationRaises(op)
    <3>1. EndsAs(op)
      BY <2>4 DEF OperationRaises, EndsAs
    <3>2. state'[op] \in Terminal
      BY <2>4 DEF OperationRaises, End
    <3>3. QED
      BY <3>1, <3>2
  <2>5. CASE CheckpointStops(op)
    <3>1. EndsAs(op)
      BY <2>5 DEF CheckpointStops, Interrupted, EndsAs
    <3>2. state'[op] \in Terminal
      BY <2>5 DEF CheckpointStops, Interrupted, End
    <3>3. QED
      BY <3>1, <3>2
  <2>6. CASE Succeed(op)
    <3>1. EndsAs(op)
      BY <2>6 DEF Succeed, EndsAs
    <3>2. state'[op] \in Terminal
      BY <2>6 DEF Succeed, End
    <3>3. QED
      BY <3>1, <3>2
  <2>7. QED
    BY <1>2, <2>1, <2>2, <2>3, <2>4, <2>5, <2>6
<1>3. ASSUME EndsAs(op), state'[op] \in Terminal PROVE Ends(op)
  BY <1>3 DEF Ends
<1> HIDE DEF Basics, TypeOK, Handles, InHand, InSlot, HandleStates, Terminal
<1>4. QED
  BY <1>1, <1>2, <1>3, Zenon

(* Three leave the stage of the task, its handle and its slot alone.       *)
GoesOn(op) ==
    /\ op \in killed' => op \in killed \/ stage[op] \in InHand \ {"created"}
    /\ killed' \subseteq killed \cup {op} /\ token \subseteq token' /\ token' \subseteq token \cup {op}
    /\ expired' \subseteq expired \cup {op} /\ resisted' \subseteq resisted \cup {op}
    /\ UNCHANGED <<stop, owner, waiting, state, lease, stage, slots>>

LEMMA TasksGoOn ==
  ASSUME NEW op \in Ops, Resist(op) \/ OperationTimeout(op) \/ CheckpointIgnored(op)
  PROVE  GoesOn(op)
  BY DEF Resist, OperationTimeout, CheckpointIgnored, GoesOn, InHand

(* Every step is one of these.                                             *)
LEMMA NextCases ==
  ASSUME Basics, [Next]_vars
  PROVE  \/ \E o \in Owners : OpenOwner(o) \/ CloseOwner(o) \/ OwnerClosed(o)
         \/ \E op \in Ops : \E o \in Owners : Start(op, o)
         \/ \E op \in Ops : Cancel(op) \/ EnterQueue(op) \/ Begin(op)
                          \/ OperationReturns(op) \/ Ends(op) \/ GoesOn(op)
         \/ TriggerStop \/ ResetStop \/ UNCHANGED vars
<1>1. ASSUME NEW op \in Ops, TaskStep(op) \/ Timeout(op) \/ Operation(op)
      PROVE  EnterQueue(op) \/ Begin(op) \/ OperationReturns(op) \/ Ends(op) \/ GoesOn(op)
  BY <1>1, TasksEnd, TasksGoOn, Zenon DEF TaskStep, Timeout, Operation
<1>2. QED
  BY <1>1, Zenon DEF Next

-----------------------------------------------------------------------------
(* Types and handles.                                                      *)

LEMMA CancelAllBasics ==
  ASSUME Basics, NEW ops, CancelAll(ops), UNCHANGED <<stage, lease>>
  PROVE  /\ state' \in [Ops -> HandleStates] /\ token' \subseteq Ops /\ killed' \subseteq Ops
         /\ Handles'
<1> USE DEF Basics, TypeOK, HandleStates, Terminal
<1> DEFINE live == ops \cap Active
<1>1. /\ token' = token \cup live
      /\ state' = [op \in Ops |-> IF op \in live THEN "CANCELLING" ELSE state[op]]
      /\ killed' = killed \cup {op \in live : stage[op] # "over"}
      /\ live \subseteq Ops
      /\ \A op \in live : state[op] # "NONE" /\ ~Done(op)
  BY DEF CancelAll, Active
<1>2. state' \in [Ops -> HandleStates] /\ token' \subseteq Ops /\ killed' \subseteq Ops
  BY <1>1
<1>3. ASSUME NEW op \in Ops
      PROVE  /\ stage'[op] = "none" <=> state'[op] = "NONE"
             /\ stage'[op] = "none" <=> lease'[op] = None
             /\ stage'[op] \in InHand => ~Done(op)'
             /\ op \in killed' => stage'[op] \in InHand
             /\ \/ stage'[op] = "created" /\ op \in killed'
                \/ stage'[op] = "over" /\ ~Done(op)'
                => state'[op] = "CANCELLING" /\ op \in token'
  BY <1>1 DEF Handles, InHand, Done, Stages
<1>4. QED
  BY <1>2, <1>3 DEF Handles

LEMMA BasicsStep ==
  ASSUME Basics, [Next]_vars
  PROVE  Basics'
<1> USE DEF Basics, TypeOK, HandleStates, Terminal, Stages
<1>1. ASSUME NEW o \in Owners, OpenOwner(o) PROVE Basics'
  BY <1>1 DEF OpenOwner, Handles, Done
<1>2. ASSUME NEW o \in Owners, CloseOwner(o) PROVE Basics'
  <2>1. CancelAll(OwnedBy(o)) /\ UNCHANGED <<stop, lease, stage, expired, resisted, slots>>
    BY <1>2 DEF CloseOwner
  <2>2. /\ state' \in [Ops -> HandleStates] /\ token' \subseteq Ops /\ killed' \subseteq Ops
        /\ Handles'
    BY <2>1, CancelAllBasics
  <2>3. /\ owner' \in [Owners -> [state : {"OPEN", "CLOSING", "CLOSED"}, generation : Nat]]
        /\ waiting' \in [Owners -> SUBSET Ops]
    BY <1>2 DEF CloseOwner, OwnedBy
  <2>4. stage' \in [Ops -> Stages] /\ slots' \in Nat /\ stop' \in BOOLEAN
        /\ expired' \subseteq Ops /\ resisted' \subseteq Ops /\ lease' \in [Ops -> Leases \cup {None}]
    BY <2>1
  <2>5. QED
    BY <2>2, <2>3, <2>4
<1>3. ASSUME NEW o \in Owners, OwnerClosed(o) PROVE Basics'
  BY <1>3 DEF OwnerClosed, Handles, Done
<1>4. ASSUME NEW op \in Ops, NEW o \in Owners, Start(op, o) PROVE Basics'
  <2>1. [owner |-> o, generation |-> owner[o].generation] \in Leases \ {None}
    BY PolicyAssumption DEF Leases
  <2>2. TypeOK'
    BY <1>4, <2>1 DEF Start
  <2>3. Handles'
    BY <1>4, <2>1 DEF Start, Handles, InHand, Done
  <2>4. QED
    BY <2>2, <2>3
<1>5. ASSUME NEW op \in Ops, Cancel(op) PROVE Basics'
  BY <1>5, CancelAllBasics DEF Cancel
<1>6. ASSUME NEW op \in Ops, EnterQueue(op) PROVE Basics'
  BY <1>6 DEF EnterQueue, Handles, InHand, Done
<1>7. ASSUME NEW op \in Ops, Begin(op) PROVE Basics'
  BY <1>7 DEF Begin, SlotGranted, Unwanted, Handles, InHand, Done
<1>8. ASSUME NEW op \in Ops, OperationReturns(op) PROVE Basics'
  BY <1>8 DEF OperationReturns, Handles, InHand, Done
<1>9. ASSUME NEW op \in Ops, Ends(op) PROVE Basics'
  BY <1>9 DEF Ends, EndsAs, End, Handles, InHand, Done
<1>10. ASSUME NEW op \in Ops, GoesOn(op) PROVE Basics'
  BY <1>10 DEF GoesOn, Handles, InHand, Done
<1>11. CASE TriggerStop \/ ResetStop
  BY <1>11 DEF TriggerStop, ResetStop, handles, Handles, Done
<1>12. CASE UNCHANGED vars
  BY <1>12 DEF vars, Handles, Done
<1> HIDE DEF Basics, TypeOK
<1>13. QED
  BY <1>1, <1>2, <1>3, <1>4, <1>5, <1>6, <1>7, <1>8, <1>9, <1>10, <1>11, <1>12, NextCases, Zenon

-----------------------------------------------------------------------------
(* Owners: generations only grow, and a close waits for what is in hand.   *)

OwnerInv == LeasesAreOld /\ CloseWaits /\ ClosedIsQuiet

LEMMA OwnerStep ==
  ASSUME Basics, OwnerInv, [Next]_vars
  PROVE  OwnerInv'
<1> USE DEF Basics, TypeOK, OwnerInv, LeasesAreOld, CloseWaits, ClosedIsQuiet,
            Leases, Stages
<1>1. ASSUME NEW o \in Owners, OpenOwner(o) PROVE OwnerInv'
  BY <1>1 DEF OpenOwner
<1>2. ASSUME NEW o \in Owners, CloseOwner(o) PROVE OwnerInv'
  <2>1. /\ owner' = [owner EXCEPT ![o] = [state |-> "CLOSING", generation |-> @.generation + 1]]
        /\ waiting' = [waiting EXCEPT ![o] = {op \in OwnedBy(o) : stage[op] # "over"}]
        /\ UNCHANGED <<lease, stage>>
    BY <1>2 DEF CloseOwner
  <2>2. QED
    BY <2>1, PolicyAssumption DEF OwnedBy
<1>3. ASSUME NEW o \in Owners, OwnerClosed(o) PROVE OwnerInv'
  BY <1>3 DEF OwnerClosed
<1>4. ASSUME NEW op \in Ops, NEW o \in Owners, Start(op, o) PROVE OwnerInv'
  BY <1>4 DEF Start
<1>5. ASSUME NEW op \in Ops, Cancel(op) PROVE OwnerInv'
  BY <1>5 DEF Cancel
<1>6. ASSUME NEW op \in Ops, EnterQueue(op) \/ Begin(op) \/ OperationReturns(op)
      PROVE  OwnerInv'
  BY <1>6 DEF EnterQueue, Begin, SlotGranted, OperationReturns
<1>7. ASSUME NEW op \in Ops, Ends(op) PROVE OwnerInv'
  BY <1>7 DEF Ends, EndsAs, End
<1>8. CASE UNCHANGED <<owner, waiting, lease, stage>>
  BY <1>8
<1>9. CASE TriggerStop \/ ResetStop \/ UNCHANGED vars
  BY <1>8, <1>9 DEF TriggerStop, ResetStop, handles, vars
<1>10. ASSUME NEW op \in Ops, GoesOn(op) PROVE OwnerInv'
  BY <1>8, <1>10 DEF GoesOn
<1> HIDE DEF Basics, OwnerInv
<1>11. QED
  BY <1>1, <1>2, <1>3, <1>4, <1>5, <1>6, <1>7, <1>9, <1>10, NextCases, Zenon

-----------------------------------------------------------------------------
(* The semaphore. *)

LEMMA InSlotFinite ==
  IsFiniteSet(InSlot) /\ Cardinality(InSlot) \in Nat
  BY PolicyAssumption, FS_Subset, FS_CardinalityType DEF InSlot

(* Only a task that begins or ends moves a slot.                           *)
LEMMA SlotsStep ==
  ASSUME Basics, SlotsAreConserved, [Next]_vars
  PROVE  SlotsAreConserved'
<1> USE DEF Basics, TypeOK, Stages
<1>1. CASE UNCHANGED slots /\ InSlot' = InSlot
  BY <1>1 DEF SlotsAreConserved
<1>2. ASSUME NEW op \in Ops, Begin(op) PROVE SlotsAreConserved'
  <2>1. op \notin InSlot /\ InSlot' = InSlot \cup {op} /\ slots' = slots - 1
    BY <1>2 DEF Begin, SlotGranted, InSlot
  <2>2. Cardinality(InSlot') = Cardinality(InSlot) + 1
    BY <2>1, InSlotFinite, FS_AddElement
  <2>3. QED
    BY <2>1, <2>2, InSlotFinite DEF SlotsAreConserved
<1>3. ASSUME NEW op \in Ops, Ends(op) PROVE SlotsAreConserved'
  <2>1. /\ InSlot' = InSlot \ {op}
        /\ slots' = slots + IF op \in InSlot THEN 1 ELSE 0
    BY <1>3 DEF Ends, EndsAs, End, InSlot
  <2>2. Cardinality(InSlot') = IF op \in InSlot THEN Cardinality(InSlot) - 1
                                                ELSE Cardinality(InSlot)
    BY <2>1, InSlotFinite, FS_RemoveElement
  <2>3. QED
    BY <2>1, <2>2, InSlotFinite DEF SlotsAreConserved
<1>4. ASSUME NEW op \in Ops, NEW o \in Owners, Start(op, o) PROVE SlotsAreConserved'
  BY <1>1, <1>4 DEF Start, Handles, InSlot
<1>5. ASSUME NEW op \in Ops, EnterQueue(op) \/ OperationReturns(op) PROVE SlotsAreConserved'
  BY <1>1, <1>5 DEF EnterQueue, OperationReturns, InSlot
<1>6. CASE UNCHANGED <<stage, slots>>
  BY <1>1, <1>6 DEF InSlot
<1>7. ASSUME NEW o \in Owners, OpenOwner(o) \/ CloseOwner(o) \/ OwnerClosed(o)
      PROVE  SlotsAreConserved'
  BY <1>6, <1>7 DEF OpenOwner, CloseOwner, OwnerClosed
<1>8. ASSUME NEW op \in Ops, Cancel(op) PROVE SlotsAreConserved'
  BY <1>6, <1>8 DEF Cancel
<1>9. CASE TriggerStop \/ ResetStop \/ UNCHANGED vars
  BY <1>6, <1>9 DEF TriggerStop, ResetStop, handles, vars
<1>10. ASSUME NEW op \in Ops, GoesOn(op) PROVE SlotsAreConserved'
  BY <1>6, <1>10 DEF GoesOn
<1> HIDE DEF Basics
<1>11. QED
  BY <1>2, <1>3, <1>4, <1>5, <1>7, <1>8, <1>9, <1>10, NextCases, Zenon

-----------------------------------------------------------------------------
LEMMA Inductive == Spec => []IInv
<1>1. Init => IInv
  <2>1. ASSUME Init PROVE Basics /\ OwnerInv /\ InSlot = {} /\ slots = MaxConcurrency
    BY <2>1, PolicyAssumption
    DEF Init, Basics, TypeOK, Handles, HandleStates, Terminal, Stages, InHand, Done, InSlot,
        OwnerInv, LeasesAreOld, CloseWaits, ClosedIsQuiet
  <2>2. QED
    BY <2>1, FS_EmptySet, PolicyAssumption DEF IInv, OwnerInv, SlotsAreConserved
<1>2. IInv /\ [Next]_vars => IInv'
  BY BasicsStep, OwnerStep, SlotsStep DEF IInv, OwnerInv
<1>3. QED
  BY <1>1, <1>2, PTL DEF Spec

(* Every variable keeps its type, the semaphore never owes a slot          *)
(* (async_runtime.py:355-569).                                             *)
THEOREM TypeCorrect == Spec => []TypeOK
<1>1. IInv => TypeOK
  BY DEF IInv, Basics
<1>2. QED
  BY Inductive, <1>1, PTL

(* However an operation ends, by itself, by a timeout or by a cancellation *)
(* in any of its stages, its slot is given back once                       *)
(* (async_runtime.py:494-531).                                             *)
THEOREM SlotsConserved == Spec => []SlotsAreConserved
<1>1. IInv => SlotsAreConserved
  BY DEF IInv
<1>2. QED
  BY Inductive, <1>1, PTL

(* Once close_owner has returned, no task of its owner is left, although   *)
(* it may have been called twice, and an operation that is still active    *)
(* was told to cancel (async_runtime.py:375-383, 550-563).                 *)
THEOREM ClosedOwnersAreQuiet == Spec => []ClosedOwnerHasNoTask
<1>1. IInv => ClosedOwnerHasNoTask
  BY DEF IInv, Basics, TypeOK, Handles, ClosedIsQuiet, ClosedOwnerHasNoTask, Active
<1>2. QED
  BY Inductive, <1>1, PTL

(* An operation whose token is set never comes to report success           *)
(* (async_runtime.py:324-330, 517-528).                                    *)
THEOREM CancelledStaysCancelled == Spec => CancelledNeverSucceeds
<1> DEFINE Step == \A op \in token : state'[op] = "SUCCEEDED" => state[op] = "SUCCEEDED"
<1>1. ASSUME IInv, [Next]_vars PROVE Step
  <2> USE DEF IInv, Basics, TypeOK, Handles, HandleStates, Terminal, Stages
  <2>1. ASSUME NEW op \in Ops, NEW o \in Owners, Start(op, o) PROVE Step
    BY <1>1, <2>1 DEF Start
  <2>2. ASSUME NEW op \in Ops, Cancel(op) PROVE Step
    BY <1>1, <2>2 DEF Cancel, CancelAll
  <2>3. ASSUME NEW op \in Ops, EnterQueue(op) \/ OperationReturns(op) PROVE Step
    BY <1>1, <2>3 DEF EnterQueue, OperationReturns
  <2>4. ASSUME NEW op \in Ops, Begin(op) PROVE Step
    BY <1>1, <2>4 DEF Begin
  <2>5. ASSUME NEW op \in Ops, Ends(op) PROVE Step
    BY <1>1, <2>5 DEF Ends, EndsAs, End, InHand
  <2>6. ASSUME NEW o \in Owners, CloseOwner(o) PROVE Step
    BY <1>1, <2>6 DEF CloseOwner, CancelAll
  <2>7. ASSUME NEW o \in Owners, OpenOwner(o) \/ OwnerClosed(o) PROVE Step
    BY <1>1, <2>7 DEF OpenOwner, OwnerClosed
  <2>8. CASE TriggerStop \/ ResetStop \/ UNCHANGED vars
    BY <2>8 DEF TriggerStop, ResetStop, handles, vars
  <2>9. ASSUME NEW op \in Ops, GoesOn(op) PROVE Step
    BY <1>1, <2>9 DEF GoesOn
  <2>10. Basics
    BY <1>1 DEF IInv
  <2> HIDE DEF Basics
  <2> HIDE DEF Step
  <2>11. QED
    BY <1>1, <2>1, <2>2, <2>3, <2>4, <2>5, <2>6, <2>7, <2>8, <2>9, <2>10, NextCases, Zenon
<1>2. IInv /\ [Next]_vars => [Step]_vars
  BY <1>1
<1>3. QED
  BY <1>2, Inductive, PTL DEF Spec, CancelledNeverSucceeds

(* No generation comes back: a lease that is not current never is again,   *)
(* however often its owner is opened (async_runtime.py:421-443, 555).      *)
THEOREM StaleLeasesNeverCurrent == Spec => StaleLeasesStayStale
<1> DEFINE Step == \A op \in Ops : lease[op] # None /\ ~Current(lease[op]) => ~Current(lease[op])'
<1>1. ASSUME IInv, [Next]_vars PROVE Step
  <2> USE DEF IInv, Basics, TypeOK, LeasesAreOld, Leases, Current
  <2>1. ASSUME NEW op \in Ops, NEW o \in Owners, Start(op, o) PROVE Step
    BY <1>1, <2>1 DEF Start, Handles
  <2>2. ASSUME NEW o \in Owners, OpenOwner(o) PROVE Step
    BY <1>1, <2>2 DEF OpenOwner
  <2>3. ASSUME NEW o \in Owners, CloseOwner(o) PROVE Step
    BY <1>1, <2>3 DEF CloseOwner
  <2>4. ASSUME NEW o \in Owners, OwnerClosed(o) PROVE Step
    BY <1>1, <2>4 DEF OwnerClosed
  <2>5. CASE UNCHANGED <<owner, lease>>
    BY <2>5
  <2>6. ASSUME NEW op \in Ops,
               \/ Cancel(op) \/ EnterQueue(op) \/ Begin(op)
               \/ OperationReturns(op) \/ Ends(op) \/ GoesOn(op)
        PROVE  Step
    BY <2>5, <2>6 DEF Cancel, EnterQueue, Begin, OperationReturns, Ends, EndsAs, End, GoesOn
  <2>7. CASE TriggerStop \/ ResetStop \/ UNCHANGED vars
    BY <2>5, <2>7 DEF TriggerStop, ResetStop, handles, vars
  <2>8. Basics
    BY <1>1 DEF IInv
  <2> HIDE DEF Basics
  <2> HIDE DEF Step
  <2>9. QED
    BY <1>1, <2>1, <2>2, <2>3, <2>4, <2>6, <2>7, <2>8, NextCases, Zenon
<1>2. IInv /\ [Next]_vars => [Step]_vars
  BY <1>1
<1>3. QED
  BY <1>2, Inductive, PTL DEF Spec, StaleLeasesStayStale
=============================================================================
