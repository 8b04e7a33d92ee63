---------------------- MODULE GovernedExecutionProofs ----------------------
(***************************************************************************)
(* Proofs about GovernedExecution for any number of threads, plans, tasks  *)
(* and slots: workspaces are exclusive and given back, slots are neither   *)
(* lost nor invented, evidence of a completion was earned, a service       *)
(* starts after the tasks it depends on, cancellation is final until       *)
(* somebody resets the stop, and a reset revives no cancelled plan.        *)
(***************************************************************************)
EXTENDS GovernedExecution, FiniteSetTheorems, TLAPS

USE TasksAssumption, ConcurrencyAssumption

-----------------------------------------------------------------------------
(* The types without the range of slots, and when a verdict exists.        *)

Types ==
    /\ stop \in BOOLEAN
    /\ cancelled \subseteq Plans
    /\ locks \subseteq Workspaces
    /\ evidence \in [TaskIds -> Evidence \cup {None}]
    /\ pc \in [Threads -> PCs]
    /\ job \in [Threads -> Jobs \cup Cancellations \cup {None}]
    /\ \A t \in Threads : pc[t] \notin {"idle", "cancelling"} => job[t] \in Jobs
    /\ \A t \in Threads : pc[t] = "cancelling" => job[t] \in Cancellations
    /\ todo \in [Threads -> SUBSET TaskIds]
    /\ verdict \in [Threads -> States \cup {"none"}]
    /\ completed \subseteq Plans \X TaskIds
    /\ acknowledged \subseteq Plans /\ inForce \subseteq Plans
    /\ late \subseteq Threads

Verdicts ==
    /\ \A t \in Threads : pc[t] \notin {"release", "record"} => verdict[t] = "none"
    /\ \A t \in Threads : pc[t] = "record" => verdict[t] # "none"

Basics == Types /\ Verdicts

LEMMA InitBasics == Init => Basics
  BY DEF Init, Basics, Types, Verdicts, PCs

(* Every step keeps the types, and leaves a verdict only to threads that   *)
(* are about to release or record.                                         *)
LEMMA BasicsStep ==
  ASSUME Basics, [Next]_vars
  PROVE  Basics'
<1> USE DEF Basics, Types, Verdicts, PCs, States, Evidence, Jobs, Cancellations, Step, Return,
            Decide, Task, Workspace, shared, history, stops
<1>1. ASSUME NEW t \in Threads, NEW p \in Plans, NEW i \in TaskIds, NEW a \in BOOLEAN,
             Execute(t, p, i, a)
      PROVE  Basics'
  BY <1>1 DEF Execute, Begin
<1>2. ASSUME NEW t \in Threads, NEW p \in Plans, NEW i \in TaskIds, NEW a \in BOOLEAN,
             Recover(t, p, i, a)
      PROVE  Basics'
  BY <1>2 DEF Recover, Begin
<1>3. ASSUME NEW t \in Threads, NEW p \in Plans, CancelPlan(t, p) PROVE Basics'
  BY <1>3 DEF CancelPlan
<1>4. ASSUME NEW t \in Threads, PreflightFails(t) PROVE Basics'
  BY <1>4 DEF PreflightFails
<1>5. ASSUME NEW t \in Threads, PreflightPasses(t) PROVE Basics'
  BY <1>5 DEF PreflightPasses
<1>6. ASSUME NEW t \in Threads, Refuse(t) PROVE Basics'
  BY <1>6 DEF Refuse
<1>7. ASSUME NEW t \in Threads, PassGate(t) PROVE Basics'
  BY <1>7 DEF PassGate
<1>8. ASSUME NEW t \in Threads, PassCancelled(t) PROVE Basics'
  BY <1>8 DEF PassCancelled
<1>9. ASSUME NEW t \in Threads, NEW d \in TaskIds, DependencyDone(t, d) PROVE Basics'
  BY <1>9 DEF DependencyDone
<1>10. ASSUME NEW t \in Threads, NEW d \in TaskIds, DependencyMissing(t, d) PROVE Basics'
  BY <1>10 DEF DependencyMissing
<1>11. ASSUME NEW t \in Threads, AwaitApproval(t) PROVE Basics'
  BY <1>11 DEF AwaitApproval
<1>12. ASSUME NEW t \in Threads, Authorised(t) PROVE Basics'
  BY <1>12 DEF Authorised
<1>13. ASSUME NEW t \in Threads, AcquireSlot(t) PROVE Basics'
  BY <1>13 DEF AcquireSlot
<1>14. ASSUME NEW t \in Threads, WorkspaceBusy(t) PROVE Basics'
  BY <1>14 DEF WorkspaceBusy
<1>15. ASSUME NEW t \in Threads, LockWorkspace(t) PROVE Basics'
  BY <1>15 DEF LockWorkspace
<1>16. ASSUME NEW t \in Threads, StoppedWhileWaiting(t) PROVE Basics'
  BY <1>16 DEF StoppedWhileWaiting
<1>17. ASSUME NEW t \in Threads, StartService(t) PROVE Basics'
  BY <1>17 DEF StartService
<1>18. ASSUME NEW t \in Threads, PassCancelledAgain(t) PROVE Basics'
  BY <1>18 DEF PassCancelledAgain
<1>19. ASSUME NEW t \in Threads, ClearToStart(t) PROVE Basics'
  BY <1>19 DEF ClearToStart
<1>20. ASSUME NEW t \in Threads, ServiceReturns(t) PROVE Basics'
  BY <1>20 DEF ServiceReturns
<1>21. ASSUME NEW t \in Threads, ServiceFails(t) PROVE Basics'
  BY <1>21 DEF ServiceFails
<1>22. ASSUME NEW t \in Threads, OutputUnrecordable(t) PROVE Basics'
  BY <1>22 DEF OutputUnrecordable
<1>23. ASSUME NEW t \in Threads, Release(t) PROVE Basics'
  <2>1. CASE Return(t, "release")
    BY <1>23, <2>1 DEF Release
  <2>2. CASE Step(t, "release", "record")
    BY <1>23, <2>2 DEF Release
  <2>3. QED
    BY <1>23, <2>1, <2>2 DEF Release
<1>24. ASSUME NEW t \in Threads, Record(t) PROVE Basics'
  BY <1>24 DEF Record
<1>25. ASSUME NEW t \in Threads, TriggerStop(t) PROVE Basics'
  BY <1>25 DEF TriggerStop
<1>26. ASSUME ResetStop PROVE Basics'
  BY <1>26 DEF ResetStop
<1>27. CASE UNCHANGED vars
  BY <1>27 DEF vars
<1> HIDE DEF Basics, Types, Verdicts, PCs, States, Evidence, Jobs, Cancellations, Step, Return,
            Decide, Task, Workspace, shared, history, stops
<1>28. ASSUME NEW t \in Threads, Call(t) PROVE Basics'
  <2>1. \A i \in TaskIds : Approvals(i) \subseteq BOOLEAN
    BY DEF Approvals
  <2>2. QED
    BY <1>1, <1>2, <1>3, <1>28, <2>1, Zenon DEF Call
<1>29. ASSUME NEW t \in Threads, Prepare(t) PROVE Basics'
  BY <1>4, <1>5, <1>6, <1>7, <1>8, <1>9, <1>10, <1>11, <1>12, <1>29, Zenon DEF Prepare
<1>30. ASSUME NEW t \in Threads, Work(t) PROVE Basics'
  BY <1>14, <1>15, <1>16, <1>17, <1>18, <1>19, <1>20, <1>21, <1>22, <1>23, <1>24, <1>30, Zenon DEF Work
<1>31. QED
  BY <1>13, <1>25, <1>26, <1>27, <1>28, <1>29, <1>30, Zenon DEF Next

-----------------------------------------------------------------------------
(* Workspaces.                                                             *)

Locks == WorkspaceExclusion /\ LocksAreHeld

\* Nobody's workspace changes while it works in it.
LEMMA LocksStay ==
  ASSUME Basics, Locks, LockHolders' = LockHolders, locks' = locks,
         \A t \in LockHolders : job'[t] = job[t]
  PROVE  Locks'
  BY DEF Locks, WorkspaceExclusion, LocksAreHeld, Workspace, Task, LockHolders, LockPC

LEMMA InitLocks == Init => Locks
  BY DEF Init, Locks, WorkspaceExclusion, LocksAreHeld, LockHolders, LockPC

LEMMA LocksStep ==
  ASSUME Basics, Locks, [Next]_vars
  PROVE  Locks'
<1> USE DEF shared, history, stops
<1>1. ASSUME NEW t \in Threads, NEW p \in Plans, NEW i \in TaskIds, NEW a \in BOOLEAN,
             Execute(t, p, i, a)
      PROVE  Locks'
  <2>1. LockHolders' = LockHolders
    BY <1>1 DEF Execute, Begin, Step, LockHolders, LockPC, Basics, Types
  <2>2. locks' = locks /\ \A u \in LockHolders : job'[u] = job[u]
    BY <1>1 DEF Execute, Begin, Step, LockHolders, LockPC, Basics, Types
  <2>3. QED
    BY <2>1, <2>2, LocksStay
<1>2. ASSUME NEW t \in Threads, NEW p \in Plans, NEW i \in TaskIds, NEW a \in BOOLEAN,
             Recover(t, p, i, a)
      PROVE  Locks'
  <2>1. LockHolders' = LockHolders
    BY <1>2 DEF Recover, Begin, Step, LockHolders, LockPC, Basics, Types
  <2>2. locks' = locks /\ \A u \in LockHolders : job'[u] = job[u]
    BY <1>2 DEF Recover, Begin, Step, LockHolders, LockPC, Basics, Types
  <2>3. QED
    BY <2>1, <2>2, LocksStay
<1>3. ASSUME NEW t \in Threads, NEW p \in Plans, CancelPlan(t, p) PROVE Locks'
  <2>1. LockHolders' = LockHolders
    BY <1>3 DEF CancelPlan, Step, LockHolders, LockPC, Basics, Types
  <2>2. locks' = locks /\ \A u \in LockHolders : job'[u] = job[u]
    BY <1>3 DEF CancelPlan, Step, LockHolders, LockPC, Basics, Types
  <2>3. QED
    BY <2>1, <2>2, LocksStay
<1>4. ASSUME NEW t \in Threads, PreflightFails(t) PROVE Locks'
  <2>1. LockHolders' = LockHolders
    BY <1>4 DEF PreflightFails, Step, LockHolders, LockPC, Basics, Types
  <2>2. locks' = locks /\ \A u \in LockHolders : job'[u] = job[u]
    BY <1>4 DEF PreflightFails, Step, LockHolders, LockPC, Basics, Types
  <2>3. QED
    BY <2>1, <2>2, LocksStay
<1>5. ASSUME NEW t \in Threads, PreflightPasses(t) PROVE Locks'
  <2>1. LockHolders' = LockHolders
    BY <1>5 DEF PreflightPasses, Step, LockHolders, LockPC, Basics, Types
  <2>2. locks' = locks /\ \A u \in LockHolders : job'[u] = job[u]
    BY <1>5 DEF PreflightPasses, Step, LockHolders, LockPC, Basics, Types
  <2>3. QED
    BY <2>1, <2>2, LocksStay
<1>6. ASSUME NEW t \in Threads, Refuse(t) PROVE Locks'
  <2>1. LockHolders' = LockHolders
    BY <1>6 DEF Refuse, Step, LockHolders, LockPC, Basics, Types
  <2>2. locks' = locks /\ \A u \in LockHolders : job'[u] = job[u]
    BY <1>6 DEF Refuse, Step, LockHolders, LockPC, Basics, Types
  <2>3. QED
    BY <2>1, <2>2, LocksStay
<1>7. ASSUME NEW t \in Threads, PassGate(t) PROVE Locks'
  <2>1. LockHolders' = LockHolders
    BY <1>7 DEF PassGate, Step, LockHolders, LockPC, Basics, Types
  <2>2. locks' = locks /\ \A u \in LockHolders : job'[u] = job[u]
    BY <1>7 DEF PassGate, Step, LockHolders, LockPC, Basics, Types
  <2>3. QED
    BY <2>1, <2>2, LocksStay
<1>8. ASSUME NEW t \in Threads, PassCancelled(t) PROVE Locks'
  <2>1. LockHolders' = LockHolders
    BY <1>8 DEF PassCancelled, Step, LockHolders, LockPC, Basics, Types
  <2>2. locks' = locks /\ \A u \in LockHolders : job'[u] = job[u]
    BY <1>8 DEF PassCancelled, Step, LockHolders, LockPC, Basics, Types
  <2>3. QED
    BY <2>1, <2>2, LocksStay
<1>9. ASSUME NEW t \in Threads, NEW d \in TaskIds, DependencyDone(t, d) PROVE Locks'
  <2>1. LockHolders' = LockHolders
    BY <1>9 DEF DependencyDone, Step, LockHolders, LockPC, Basics, Types
  <2>2. locks' = locks /\ \A u \in LockHolders : job'[u] = job[u]
    BY <1>9 DEF DependencyDone, Step, LockHolders, LockPC, Basics, Types
  <2>3. QED
    BY <2>1, <2>2, LocksStay
<1>10. ASSUME NEW t \in Threads, NEW d \in TaskIds, DependencyMissing(t, d) PROVE Locks'
  <2>1. LockHolders' = LockHolders
    BY <1>10 DEF DependencyMissing, Step, LockHolders, LockPC, Basics, Types
  <2>2. locks' = locks /\ \A u \in LockHolders : job'[u] = job[u]
    BY <1>10 DEF DependencyMissing, Step, LockHolders, LockPC, Basics, Types
  <2>3. QED
    BY <2>1, <2>2, LocksStay
<1>11. ASSUME NEW t \in Threads, AwaitApproval(t) PROVE Locks'
  <2>1. LockHolders' = LockHolders
    BY <1>11 DEF AwaitApproval, Step, LockHolders, LockPC, Basics, Types
  <2>2. locks' = locks /\ \A u \in LockHolders : job'[u] = job[u]
    BY <1>11 DEF AwaitApproval, Step, LockHolders, LockPC, Basics, Types
  <2>3. QED
    BY <2>1, <2>2, LocksStay
<1>12. ASSUME NEW t \in Threads, Authorised(t) PROVE Locks'
  <2>1. LockHolders' = LockHolders
    BY <1>12 DEF Authorised, Step, LockHolders, LockPC, Basics, Types
  <2>2. locks' = locks /\ \A u \in LockHolders : job'[u] = job[u]
    BY <1>12 DEF Authorised, Step, LockHolders, LockPC, Basics, Types
  <2>3. QED
    BY <2>1, <2>2, LocksStay
<1>13. ASSUME NEW t \in Threads, AcquireSlot(t) PROVE Locks'
  <2>1. LockHolders' = LockHolders
    BY <1>13 DEF AcquireSlot, Step, LockHolders, LockPC, Basics, Types
  <2>2. locks' = locks /\ \A u \in LockHolders : job'[u] = job[u]
    BY <1>13 DEF AcquireSlot, Step, LockHolders, LockPC, Basics, Types
  <2>3. QED
    BY <2>1, <2>2, LocksStay
<1>14. ASSUME NEW t \in Threads, WorkspaceBusy(t) PROVE Locks'
  <2>1. LockHolders' = LockHolders
    BY <1>14 DEF WorkspaceBusy, Return, Step, LockHolders, LockPC, Basics, Types
  <2>2. locks' = locks /\ \A u \in LockHolders : job'[u] = job[u]
    BY <1>14 DEF WorkspaceBusy, Return, Step, LockHolders, LockPC, Basics, Types
  <2>3. QED
    BY <2>1, <2>2, LocksStay
<1>15. ASSUME NEW t \in Threads, LockWorkspace(t) PROVE Locks'
  <2>1. t \notin LockHolders /\ LockHolders' = LockHolders \cup {t}
    BY <1>15 DEF LockWorkspace, Step, LockHolders, LockPC, Basics, Types
  <2>2. \A u \in Threads : Workspace(u)' = Workspace(u)
    BY <1>15 DEF LockWorkspace, Workspace, Task
  <2>3. Workspace(t) \notin locks /\ locks' = locks \cup {Workspace(t)}
    BY <1>15 DEF LockWorkspace
  <2>4. QED
    BY <2>1, <2>2, <2>3 DEF Locks, WorkspaceExclusion, LocksAreHeld, LockHolders, LockPC
<1>16. ASSUME NEW t \in Threads, StoppedWhileWaiting(t) PROVE Locks'
  <2>1. LockHolders' = LockHolders
    BY <1>16 DEF StoppedWhileWaiting, Step, LockHolders, LockPC, Basics, Types
  <2>2. locks' = locks /\ \A u \in LockHolders : job'[u] = job[u]
    BY <1>16 DEF StoppedWhileWaiting, Step, LockHolders, LockPC, Basics, Types
  <2>3. QED
    BY <2>1, <2>2, LocksStay
<1>17. ASSUME NEW t \in Threads, StartService(t) PROVE Locks'
  <2>1. LockHolders' = LockHolders
    BY <1>17 DEF StartService, Step, LockHolders, LockPC, Basics, Types
  <2>2. locks' = locks /\ \A u \in LockHolders : job'[u] = job[u]
    BY <1>17 DEF StartService, Step, LockHolders, LockPC, Basics, Types
  <2>3. QED
    BY <2>1, <2>2, LocksStay
<1>18. ASSUME NEW t \in Threads, PassCancelledAgain(t) PROVE Locks'
  <2>1. LockHolders' = LockHolders
    BY <1>18 DEF PassCancelledAgain, Step, LockHolders, LockPC, Basics, Types
  <2>2. locks' = locks /\ \A u \in LockHolders : job'[u] = job[u]
    BY <1>18 DEF PassCancelledAgain, Step, LockHolders, LockPC, Basics, Types
  <2>3. QED
    BY <2>1, <2>2, LocksStay
<1>19. ASSUME NEW t \in Threads, ClearToStart(t) PROVE Locks'
  <2>1. LockHolders' = LockHolders
    BY <1>19 DEF ClearToStart, Step, LockHolders, LockPC, Basics, Types
  <2>2. locks' = locks /\ \A u \in LockHolders : job'[u] = job[u]
    BY <1>19 DEF ClearToStart, Step, LockHolders, LockPC, Basics, Types
  <2>3. QED
    BY <2>1, <2>2, LocksStay
<1>20. ASSUME NEW t \in Threads, ServiceReturns(t) PROVE Locks'
  <2>1. LockHolders' = LockHolders
    BY <1>20 DEF ServiceReturns, Step, LockHolders, LockPC, Basics, Types
  <2>2. locks' = locks /\ \A u \in LockHolders : job'[u] = job[u]
    BY <1>20 DEF ServiceReturns, Step, LockHolders, LockPC, Basics, Types
  <2>3. QED
    BY <2>1, <2>2, LocksStay
<1>21. ASSUME NEW t \in Threads, ServiceFails(t) PROVE Locks'
  <2>1. LockHolders' = LockHolders
    BY <1>21 DEF ServiceFails, Step, LockHolders, LockPC, Basics, Types
  <2>2. locks' = locks /\ \A u \in LockHolders : job'[u] = job[u]
    BY <1>21 DEF ServiceFails, Step, LockHolders, LockPC, Basics, Types
  <2>3. QED
    BY <2>1, <2>2, LocksStay
<1>22. ASSUME NEW t \in Threads, OutputUnrecordable(t) PROVE Locks'
  <2>1. LockHolders' = LockHolders
    BY <1>22 DEF OutputUnrecordable, Step, LockHolders, LockPC, Basics, Types
  <2>2. locks' = locks /\ \A u \in LockHolders : job'[u] = job[u]
    BY <1>22 DEF OutputUnrecordable, Step, LockHolders, LockPC, Basics, Types
  <2>3. QED
    BY <2>1, <2>2, LocksStay
<1>23. ASSUME NEW t \in Threads, Release(t) PROVE Locks'
  <2>1. t \in LockHolders /\ LockHolders' = LockHolders \ {t}
    BY <1>23 DEF Release, Return, Step, LockHolders, LockPC, Basics, Types
  <2>2. \A u \in LockHolders \ {t} : Workspace(u)' = Workspace(u)
    BY <1>23 DEF Release, Return, Step, Workspace, Task, LockHolders, LockPC, Basics, Types
  <2>3. locks' = locks \ {Workspace(t)}
    BY <1>23 DEF Release
  <2>4. QED
    BY <2>1, <2>2, <2>3 DEF Locks, WorkspaceExclusion, LocksAreHeld, LockHolders, LockPC
<1>24. ASSUME NEW t \in Threads, Record(t) PROVE Locks'
  <2>1. LockHolders' = LockHolders
    BY <1>24 DEF Record, Return, Step, LockHolders, LockPC, Basics, Types
  <2>2. locks' = locks /\ \A u \in LockHolders : job'[u] = job[u]
    BY <1>24 DEF Record, Return, Step, LockHolders, LockPC, Basics, Types
  <2>3. QED
    BY <2>1, <2>2, LocksStay
<1>25. ASSUME NEW t \in Threads, TriggerStop(t) PROVE Locks'
  <2>1. LockHolders' = LockHolders
    BY <1>25 DEF TriggerStop, Return, Step, LockHolders, LockPC, Basics, Types
  <2>2. locks' = locks /\ \A u \in LockHolders : job'[u] = job[u]
    BY <1>25 DEF TriggerStop, Return, Step, LockHolders, LockPC, Basics, Types
  <2>3. QED
    BY <2>1, <2>2, LocksStay
<1>26. ASSUME ResetStop PROVE Locks'
  <2>1. LockHolders' = LockHolders /\ locks' = locks /\ job' = job
    BY <1>26 DEF ResetStop, LockHolders, LockPC
  <2>2. QED
    BY <2>1, LocksStay
<1>27. CASE UNCHANGED vars
  <2>1. LockHolders' = LockHolders /\ locks' = locks /\ job' = job
    BY <1>27 DEF vars, LockHolders, LockPC
  <2>2. QED
    BY <2>1, LocksStay
<1> HIDE DEF Basics, Locks
<1>28. ASSUME NEW t \in Threads, Call(t) PROVE Locks'
  <2>1. \A i \in TaskIds : Approvals(i) \subseteq BOOLEAN
    BY DEF Approvals
  <2>2. QED
    BY <1>1, <1>2, <1>3, <1>28, <2>1, Zenon DEF Call
<1>29. ASSUME NEW t \in Threads, Prepare(t) PROVE Locks'
  BY <1>4, <1>5, <1>6, <1>7, <1>8, <1>9, <1>10, <1>11, <1>12, <1>29, Zenon DEF Prepare
<1>30. ASSUME NEW t \in Threads, Work(t) PROVE Locks'
  BY <1>14, <1>15, <1>16, <1>17, <1>18, <1>19, <1>20, <1>21, <1>22, <1>23, <1>24, <1>30, Zenon DEF Work
<1>31. QED
  BY <1>13, <1>25, <1>26, <1>27, <1>28, <1>29, <1>30, Zenon DEF Next

-----------------------------------------------------------------------------
(* Slots.                                                                  *)

Slots == slots \in Nat /\ SlotsAreConserved

LEMMA HoldersFinite == IsFiniteSet(SlotHolders) /\ Cardinality(SlotHolders) \in Nat
<1>1. SlotHolders \subseteq Threads
  BY DEF SlotHolders, LockPC
<1>2. QED
  BY <1>1, FS_Subset, FS_CardinalityType

LEMMA SlotsStay ==
  ASSUME Slots, SlotHolders' = SlotHolders, slots' = slots
  PROVE  Slots'
  BY DEF Slots, SlotsAreConserved

LEMMA SlotTaken ==
  ASSUME Slots, NEW t \in Threads \ SlotHolders, SlotHolders' = SlotHolders \cup {t},
         slots > 0, slots' = slots - 1
  PROVE  Slots'
<1>1. Cardinality(SlotHolders') = Cardinality(SlotHolders) + 1
  BY HoldersFinite, FS_AddElement
<1>2. QED
  BY <1>1, HoldersFinite DEF Slots, SlotsAreConserved

LEMMA SlotGiven ==
  ASSUME Slots, NEW t \in SlotHolders, SlotHolders' = SlotHolders \ {t}, slots' = slots + 1
  PROVE  Slots'
<1>1. Cardinality(SlotHolders') = Cardinality(SlotHolders) - 1
  BY HoldersFinite, FS_RemoveElement
<1>2. QED
  BY <1>1, HoldersFinite DEF Slots, SlotsAreConserved

LEMMA InitSlots == Init => Slots
<1>1. SUFFICES ASSUME Init PROVE Slots
  OBVIOUS
<1>2. SlotHolders = {}
  BY <1>1 DEF Init, SlotHolders, LockPC
<1>3. QED
  BY <1>1, <1>2, FS_EmptySet DEF Init, Slots, SlotsAreConserved

LEMMA SlotsStep ==
  ASSUME Basics, Slots, [Next]_vars
  PROVE  Slots'
<1> USE DEF shared, history, stops
<1>1. ASSUME NEW t \in Threads, NEW p \in Plans, NEW i \in TaskIds, NEW a \in BOOLEAN,
             Execute(t, p, i, a)
      PROVE  Slots'
  <2>1. SlotHolders' = SlotHolders /\ slots' = slots
    BY <1>1 DEF Execute, Begin, Step, SlotHolders, LockPC, Basics, Types
  <2>2. QED
    BY <2>1, SlotsStay
<1>2. ASSUME NEW t \in Threads, NEW p \in Plans, NEW i \in TaskIds, NEW a \in BOOLEAN,
             Recover(t, p, i, a)
      PROVE  Slots'
  <2>1. SlotHolders' = SlotHolders /\ slots' = slots
    BY <1>2 DEF Recover, Begin, Step, SlotHolders, LockPC, Basics, Types
  <2>2. QED
    BY <2>1, SlotsStay
<1>3. ASSUME NEW t \in Threads, NEW p \in Plans, CancelPlan(t, p) PROVE Slots'
  <2>1. SlotHolders' = SlotHolders /\ slots' = slots
    BY <1>3 DEF CancelPlan, Step, SlotHolders, LockPC, Basics, Types
  <2>2. QED
    BY <2>1, SlotsStay
<1>4. ASSUME NEW t \in Threads, PreflightFails(t) PROVE Slots'
  <2>1. SlotHolders' = SlotHolders /\ slots' = slots
    BY <1>4 DEF PreflightFails, Step, SlotHolders, LockPC, Basics, Types
  <2>2. QED
    BY <2>1, SlotsStay
<1>5. ASSUME NEW t \in Threads, PreflightPasses(t) PROVE Slots'
  <2>1. SlotHolders' = SlotHolders /\ slots' = slots
    BY <1>5 DEF PreflightPasses, Step, SlotHolders, LockPC, Basics, Types
  <2>2. QED
    BY <2>1, SlotsStay
<1>6. ASSUME NEW t \in Threads, Refuse(t) PROVE Slots'
  <2>1. SlotHolders' = SlotHolders /\ slots' = slots
    BY <1>6 DEF Refuse, Step, SlotHolders, LockPC, Basics, Types
  <2>2. QED
    BY <2>1, SlotsStay
<1>7. ASSUME NEW t \in Threads, PassGate(t) PROVE Slots'
  <2>1. SlotHolders' = SlotHolders /\ slots' = slots
    BY <1>7 DEF PassGate, Step, SlotHolders, LockPC, Basics, Types
  <2>2. QED
    BY <2>1, SlotsStay
<1>8. ASSUME NEW t \in Threads, PassCancelled(t) PROVE Slots'
  <2>1. SlotHolders' = SlotHolders /\ slots' = slots
    BY <1>8 DEF PassCancelled, Step, SlotHolders, LockPC, Basics, Types
  <2>2. QED
    BY <2>1, SlotsStay
<1>9. ASSUME NEW t \in Threads, NEW d \in TaskIds, DependencyDone(t, d) PROVE Slots'
  <2>1. SlotHolders' = SlotHolders /\ slots' = slots
    BY <1>9 DEF DependencyDone, Step, SlotHolders, LockPC, Basics, Types
  <2>2. QED
    BY <2>1, SlotsStay
<1>10. ASSUME NEW t \in Threads, NEW d \in TaskIds, DependencyMissing(t, d) PROVE Slots'
  <2>1. SlotHolders' = SlotHolders /\ slots' = slots
    BY <1>10 DEF DependencyMissing, Step, SlotHolders, LockPC, Basics, Types
  <2>2. QED
    BY <2>1, SlotsStay
<1>11. ASSUME NEW t \in Threads, AwaitApproval(t) PROVE Slots'
  <2>1. SlotHolders' = SlotHolders /\ slots' = slots
    BY <1>11 DEF AwaitApproval, Step, SlotHolders, LockPC, Basics, Types
  <2>2. QED
    BY <2>1, SlotsStay
<1>12. ASSUME NEW t \in Threads, Authorised(t) PROVE Slots'
  <2>1. SlotHolders' = SlotHolders /\ slots' = slots
    BY <1>12 DEF Authorised, Step, SlotHolders, LockPC, Basics, Types
  <2>2. QED
    BY <2>1, SlotsStay
<1>13. ASSUME NEW t \in Threads, AcquireSlot(t) PROVE Slots'
  <2>1. t \notin SlotHolders /\ SlotHolders' = SlotHolders \cup {t}
    BY <1>13 DEF AcquireSlot, Step, SlotHolders, LockPC, Basics, Types
  <2>2. QED
    BY <1>13, <2>1, SlotTaken DEF AcquireSlot
<1>14. ASSUME NEW t \in Threads, WorkspaceBusy(t) PROVE Slots'
  <2>1. t \in SlotHolders /\ SlotHolders' = SlotHolders \ {t}
    BY <1>14 DEF WorkspaceBusy, Return, Step, SlotHolders, LockPC, Basics, Types
  <2>2. QED
    BY <1>14, <2>1, SlotGiven DEF WorkspaceBusy
<1>15. ASSUME NEW t \in Threads, LockWorkspace(t) PROVE Slots'
  <2>1. SlotHolders' = SlotHolders /\ slots' = slots
    BY <1>15 DEF LockWorkspace, Step, SlotHolders, LockPC, Basics, Types
  <2>2. QED
    BY <2>1, SlotsStay
<1>16. ASSUME NEW t \in Threads, StoppedWhileWaiting(t) PROVE Slots'
  <2>1. SlotHolders' = SlotHolders /\ slots' = slots
    BY <1>16 DEF StoppedWhileWaiting, Step, SlotHolders, LockPC, Basics, Types
  <2>2. QED
    BY <2>1, SlotsStay
<1>17. ASSUME NEW t \in Threads, StartService(t) PROVE Slots'
  <2>1. SlotHolders' = SlotHolders /\ slots' = slots
    BY <1>17 DEF StartService, Step, SlotHolders, LockPC, Basics, Types
  <2>2. QED
    BY <2>1, SlotsStay
<1>18. ASSUME NEW t \in Threads, PassCancelledAgain(t) PROVE Slots'
  <2>1. SlotHolders' = SlotHolders /\ slots' = slots
    BY <1>18 DEF PassCancelledAgain, Step, SlotHolders, LockPC, Basics, Types
  <2>2. QED
    BY <2>1, SlotsStay
<1>19. ASSUME NEW t \in Threads, ClearToStart(t) PROVE Slots'
  <2>1. SlotHolders' = SlotHolders /\ slots' = slots
    BY <1>19 DEF ClearToStart, Step, SlotHolders, LockPC, Basics, Types
  <2>2. QED
    BY <2>1, SlotsStay
<1>20. ASSUME NEW t \in Threads, ServiceReturns(t) PROVE Slots'
  <2>1. SlotHolders' = SlotHolders /\ slots' = slots
    BY <1>20 DEF ServiceReturns, Step, SlotHolders, LockPC, Basics, Types
  <2>2. QED
    BY <2>1, SlotsStay
<1>21. ASSUME NEW t \in Threads, ServiceFails(t) PROVE Slots'
  <2>1. SlotHolders' = SlotHolders /\ slots' = slots
    BY <1>21 DEF ServiceFails, Step, SlotHolders, LockPC, Basics, Types
  <2>2. QED
    BY <2>1, SlotsStay
<1>22. ASSUME NEW t \in Threads, OutputUnrecordable(t) PROVE Slots'
  <2>1. SlotHolders' = SlotHolders /\ slots' = slots
    BY <1>22 DEF OutputUnrecordable, Step, SlotHolders, LockPC, Basics, Types
  <2>2. QED
    BY <2>1, SlotsStay
<1>23. ASSUME NEW t \in Threads, Release(t) PROVE Slots'
  <2>1. t \in SlotHolders /\ SlotHolders' = SlotHolders \ {t}
    BY <1>23 DEF Release, Return, Step, SlotHolders, LockPC, Basics, Types
  <2>2. QED
    BY <1>23, <2>1, SlotGiven DEF Release
<1>24. ASSUME NEW t \in Threads, Record(t) PROVE Slots'
  <2>1. SlotHolders' = SlotHolders /\ slots' = slots
    BY <1>24 DEF Record, Return, Step, SlotHolders, LockPC, Basics, Types
  <2>2. QED
    BY <2>1, SlotsStay
<1>25. ASSUME NEW t \in Threads, TriggerStop(t) PROVE Slots'
  <2>1. SlotHolders' = SlotHolders /\ slots' = slots
    BY <1>25 DEF TriggerStop, Return, Step, SlotHolders, LockPC, Basics, Types
  <2>2. QED
    BY <2>1, SlotsStay
<1>26. ASSUME ResetStop PROVE Slots'
  <2>1. SlotHolders' = SlotHolders /\ slots' = slots
    BY <1>26 DEF ResetStop, SlotHolders, LockPC
  <2>2. QED
    BY <2>1, SlotsStay
<1>27. CASE UNCHANGED vars
  <2>1. SlotHolders' = SlotHolders /\ slots' = slots
    BY <1>27 DEF vars, SlotHolders, LockPC
  <2>2. QED
    BY <2>1, SlotsStay
<1> HIDE DEF Basics, Slots
<1>28. ASSUME NEW t \in Threads, Call(t) PROVE Slots'
  <2>1. \A i \in TaskIds : Approvals(i) \subseteq BOOLEAN
    BY DEF Approvals
  <2>2. QED
    BY <1>1, <1>2, <1>3, <1>28, <2>1, Zenon DEF Call
<1>29. ASSUME NEW t \in Threads, Prepare(t) PROVE Slots'
  BY <1>4, <1>5, <1>6, <1>7, <1>8, <1>9, <1>10, <1>11, <1>12, <1>29, Zenon DEF Prepare
<1>30. ASSUME NEW t \in Threads, Work(t) PROVE Slots'
  BY <1>14, <1>15, <1>16, <1>17, <1>18, <1>19, <1>20, <1>21, <1>22, <1>23, <1>24, <1>30, Zenon DEF Work
<1>31. QED
  BY <1>13, <1>25, <1>26, <1>27, <1>28, <1>29, <1>30, Zenon DEF Next

-----------------------------------------------------------------------------
(* Evidence.                                                               *)

DoneSomewhere(d) == \E p \in Plans : <<p, d>> \in completed

VerdictIsEarned ==
    \A t \in Threads : verdict[t] = "completed" => <<job[t].plan, Task(t)>> \in completed

\* The dependencies already looked up are completed, and once past the
\* lookup they all are.
WorkPC == {"dependencies", "slot", "lock", "recheck", "recheck_stop", "cleared", "running"}

LookedUp ==
    \A t \in Threads :
        /\ pc[t] # "dependencies" => todo[t] = {}
        /\ pc[t] \in WorkPC =>
             \A d \in dependencies[Task(t)] \ todo[t] : DoneSomewhere(d)

Earned == CompletionIsEarned /\ VerdictIsEarned /\ LookedUp

LEMMA InitEarned == Init => Earned
  BY DEF Init, Earned, CompletionIsEarned, VerdictIsEarned, LookedUp, WorkPC, Completed

LEMMA EarnedStep ==
  ASSUME Basics, Earned, [Next]_vars
  PROVE  Earned'
<1>a. ASSUME NEW d \in TaskIds, Completed(d) PROVE DoneSomewhere(d)
  BY <1>a DEF Basics, Types, Earned, CompletionIsEarned, Completed, DoneSomewhere, Evidence
<1> USE DEF shared, history, stops, Basics, Types, Verdicts, Earned, CompletionIsEarned, VerdictIsEarned,
            LookedUp, WorkPC, Completed, DoneSomewhere, Task, Step, Return, Decide, Jobs, Cancellations
<1>1. ASSUME NEW t \in Threads, NEW p \in Plans, NEW i \in TaskIds, NEW a \in BOOLEAN,
             Execute(t, p, i, a)
      PROVE  Earned'
  BY <1>1 DEF Execute, Begin
<1>2. ASSUME NEW t \in Threads, NEW p \in Plans, NEW i \in TaskIds, NEW a \in BOOLEAN,
             Recover(t, p, i, a)
      PROVE  Earned'
  BY <1>2 DEF Recover, Begin
<1>3. ASSUME NEW t \in Threads, NEW p \in Plans, CancelPlan(t, p) PROVE Earned'
  BY <1>3 DEF CancelPlan
<1>4. ASSUME NEW t \in Threads, PreflightFails(t) PROVE Earned'
  BY <1>4 DEF PreflightFails
<1>5. ASSUME NEW t \in Threads, PreflightPasses(t) PROVE Earned'
  BY <1>5 DEF PreflightPasses
<1>6. ASSUME NEW t \in Threads, Refuse(t) PROVE Earned'
  <2>1. evidence' = evidence /\ completed' = completed /\ job' = job /\ todo' = todo
    BY <1>6 DEF Refuse
  <2>2. pc[t] \in {"gate", "gate_stop"} /\ pc' = [pc EXCEPT ![t] = "record"]
    BY <1>6 DEF Refuse
  <2>3. CompletionIsEarned' /\ VerdictIsEarned'
    BY <1>6, <2>1 DEF Refuse
  <2>4. LookedUp'
    BY <2>1, <2>2
  <2>5. QED
    BY <2>3, <2>4
<1>7. ASSUME NEW t \in Threads, PassGate(t) PROVE Earned'
  BY <1>7 DEF PassGate
<1>8. ASSUME NEW t \in Threads, PassCancelled(t) PROVE Earned'
  BY <1>8 DEF PassCancelled
<1>9. ASSUME NEW t \in Threads, NEW d \in TaskIds, DependencyDone(t, d) PROVE Earned'
  <2>1. DoneSomewhere(d)
    BY <1>a, <1>9 DEF DependencyDone
  <2>2. QED
    BY <1>9, <2>1 DEF DependencyDone
<1>10. ASSUME NEW t \in Threads, NEW d \in TaskIds, DependencyMissing(t, d) PROVE Earned'
  BY <1>10 DEF DependencyMissing
<1>11. ASSUME NEW t \in Threads, AwaitApproval(t) PROVE Earned'
  BY <1>11 DEF AwaitApproval
<1>12. ASSUME NEW t \in Threads, Authorised(t) PROVE Earned'
  BY <1>12 DEF Authorised
<1>13. ASSUME NEW t \in Threads, AcquireSlot(t) PROVE Earned'
  BY <1>13 DEF AcquireSlot
<1>14. ASSUME NEW t \in Threads, WorkspaceBusy(t) PROVE Earned'
  BY <1>14 DEF WorkspaceBusy
<1>15. ASSUME NEW t \in Threads, LockWorkspace(t) PROVE Earned'
  BY <1>15 DEF LockWorkspace
<1>16. ASSUME NEW t \in Threads, StoppedWhileWaiting(t) PROVE Earned'
  BY <1>16 DEF StoppedWhileWaiting
<1>17. ASSUME NEW t \in Threads, StartService(t) PROVE Earned'
  BY <1>17 DEF StartService
<1>18. ASSUME NEW t \in Threads, PassCancelledAgain(t) PROVE Earned'
  BY <1>18 DEF PassCancelledAgain
<1>19. ASSUME NEW t \in Threads, ClearToStart(t) PROVE Earned'
  BY <1>19 DEF ClearToStart
<1>20. ASSUME NEW t \in Threads, ServiceReturns(t) PROVE Earned'
  BY <1>20 DEF ServiceReturns
<1>21. ASSUME NEW t \in Threads, ServiceFails(t) PROVE Earned'
  BY <1>21 DEF ServiceFails
<1>22. ASSUME NEW t \in Threads, OutputUnrecordable(t) PROVE Earned'
  BY <1>22 DEF OutputUnrecordable
<1>23. ASSUME NEW t \in Threads, Release(t) PROVE Earned'
  <2>1. CompletionIsEarned'
    BY <1>23 DEF Release
  <2>2. VerdictIsEarned'
    BY <1>23 DEF Release
  <2>3. ASSUME NEW u \in Threads, pc'[u] \in WorkPC
        PROVE  pc'[u] = pc[u] /\ job'[u] = job[u]
    BY <1>23, <2>3 DEF Release
  <2>4. LookedUp'
    BY <1>23, <2>3 DEF Release
  <2>5. QED
    BY <2>1, <2>2, <2>4
<1>24. ASSUME NEW t \in Threads, Record(t) PROVE Earned'
  BY <1>24 DEF Record
<1>25. ASSUME NEW t \in Threads, TriggerStop(t) PROVE Earned'
  BY <1>25 DEF TriggerStop
<1>26. ASSUME ResetStop PROVE Earned'
  BY <1>26 DEF ResetStop
<1>27. CASE UNCHANGED vars
  BY <1>27 DEF vars
<1> HIDE DEF shared, history, stops, Basics, Types, Verdicts, Earned, CompletionIsEarned, VerdictIsEarned,
            LookedUp, WorkPC, Completed, DoneSomewhere, Task, Step, Return, Decide, Jobs, Cancellations
<1>28. ASSUME NEW t \in Threads, Call(t) PROVE Earned'
  <2>1. \A i \in TaskIds : Approvals(i) \subseteq BOOLEAN
    BY DEF Approvals
  <2>2. QED
    BY <1>1, <1>2, <1>3, <1>28, <2>1, Zenon DEF Call
<1>29. ASSUME NEW t \in Threads, Prepare(t) PROVE Earned'
  BY <1>4, <1>5, <1>6, <1>7, <1>8, <1>9, <1>10, <1>11, <1>12, <1>29, Zenon DEF Prepare
<1>30. ASSUME NEW t \in Threads, Work(t) PROVE Earned'
  BY <1>14, <1>15, <1>16, <1>17, <1>18, <1>19, <1>20, <1>21, <1>22, <1>23, <1>24, <1>30, Zenon DEF Work
<1>31. QED
  BY <1>13, <1>25, <1>26, <1>27, <1>28, <1>29, <1>30, Zenon DEF Next

-----------------------------------------------------------------------------
(* The stop stays until it is reset, and a cancelled plan stays one: a     *)
(* call begun after its cancellation does not get past the gate.           *)

StopHolds ==
    /\ inForce # {} => stop
    /\ acknowledged \subseteq cancelled
    /\ \A t \in Threads : pc[t] = "cancelling" => job[t].plan \in cancelled
    /\ \A t \in late : pc[t] \in {"preflight", "gate", "record"} /\ job[t].plan \in cancelled

LEMMA StopHoldsStep ==
  ASSUME Basics, StopHolds, [Next]_vars
  PROVE  StopHolds'
<1> USE DEF StopHolds, Basics, Types, Jobs, Cancellations, Cancelled, Step, Return, Decide,
            shared, history, stops
<1>1. ASSUME NEW t \in Threads, NEW p \in Plans, NEW i \in TaskIds, NEW a \in BOOLEAN,
             Execute(t, p, i, a)
      PROVE  StopHolds'
  BY <1>1 DEF Execute, Begin
<1>2. ASSUME NEW t \in Threads, NEW p \in Plans, NEW i \in TaskIds, NEW a \in BOOLEAN,
             Recover(t, p, i, a)
      PROVE  StopHolds'
  BY <1>2 DEF Recover, Begin
<1>3. ASSUME NEW t \in Threads, NEW p \in Plans, CancelPlan(t, p) PROVE StopHolds'
  BY <1>3 DEF CancelPlan
<1>4. ASSUME NEW t \in Threads, PreflightFails(t) PROVE StopHolds'
  BY <1>4 DEF PreflightFails
<1>5. ASSUME NEW t \in Threads, PreflightPasses(t) PROVE StopHolds'
  BY <1>5 DEF PreflightPasses
<1>6. ASSUME NEW t \in Threads, Refuse(t) PROVE StopHolds'
  BY <1>6 DEF Refuse
<1>7. ASSUME NEW t \in Threads, PassGate(t) PROVE StopHolds'
  BY <1>7 DEF PassGate
<1>8. ASSUME NEW t \in Threads, PassCancelled(t) PROVE StopHolds'
  BY <1>8 DEF PassCancelled
<1>9. ASSUME NEW t \in Threads, NEW d \in TaskIds, DependencyDone(t, d) PROVE StopHolds'
  BY <1>9 DEF DependencyDone
<1>10. ASSUME NEW t \in Threads, NEW d \in TaskIds, DependencyMissing(t, d) PROVE StopHolds'
  BY <1>10 DEF DependencyMissing
<1>11. ASSUME NEW t \in Threads, AwaitApproval(t) PROVE StopHolds'
  BY <1>11 DEF AwaitApproval
<1>12. ASSUME NEW t \in Threads, Authorised(t) PROVE StopHolds'
  BY <1>12 DEF Authorised
<1>13. ASSUME NEW t \in Threads, AcquireSlot(t) PROVE StopHolds'
  BY <1>13 DEF AcquireSlot
<1>14. ASSUME NEW t \in Threads, WorkspaceBusy(t) PROVE StopHolds'
  BY <1>14 DEF WorkspaceBusy
<1>15. ASSUME NEW t \in Threads, LockWorkspace(t) PROVE StopHolds'
  BY <1>15 DEF LockWorkspace
<1>16. ASSUME NEW t \in Threads, StoppedWhileWaiting(t) PROVE StopHolds'
  BY <1>16 DEF StoppedWhileWaiting
<1>17. ASSUME NEW t \in Threads, StartService(t) PROVE StopHolds'
  BY <1>17 DEF StartService
<1>18. ASSUME NEW t \in Threads, PassCancelledAgain(t) PROVE StopHolds'
  BY <1>18 DEF PassCancelledAgain
<1>19. ASSUME NEW t \in Threads, ClearToStart(t) PROVE StopHolds'
  BY <1>19 DEF ClearToStart
<1>20. ASSUME NEW t \in Threads, ServiceReturns(t) PROVE StopHolds'
  BY <1>20 DEF ServiceReturns
<1>21. ASSUME NEW t \in Threads, ServiceFails(t) PROVE StopHolds'
  BY <1>21 DEF ServiceFails
<1>22. ASSUME NEW t \in Threads, OutputUnrecordable(t) PROVE StopHolds'
  BY <1>22 DEF OutputUnrecordable
<1>23. ASSUME NEW t \in Threads, Release(t) PROVE StopHolds'
  BY <1>23 DEF Release
<1>24. ASSUME NEW t \in Threads, Record(t) PROVE StopHolds'
  BY <1>24 DEF Record
<1>25. ASSUME NEW t \in Threads, TriggerStop(t) PROVE StopHolds'
  BY <1>25 DEF TriggerStop
<1>26. ASSUME ResetStop PROVE StopHolds'
  BY <1>26 DEF ResetStop
<1>27. CASE UNCHANGED vars
  BY <1>27 DEF vars
<1> HIDE DEF StopHolds, Basics, Types, Jobs, Cancellations, Cancelled, Step, Return, Decide,
            shared, history, stops
<1>28. ASSUME NEW t \in Threads, Call(t) PROVE StopHolds'
  <2>1. \A i \in TaskIds : Approvals(i) \subseteq BOOLEAN
    BY DEF Approvals
  <2>2. QED
    BY <1>1, <1>2, <1>3, <1>28, <2>1, Zenon DEF Call
<1>29. ASSUME NEW t \in Threads, Prepare(t) PROVE StopHolds'
  BY <1>4, <1>5, <1>6, <1>7, <1>8, <1>9, <1>10, <1>11, <1>12, <1>29, Zenon DEF Prepare
<1>30. ASSUME NEW t \in Threads, Work(t) PROVE StopHolds'
  BY <1>14, <1>15, <1>16, <1>17, <1>18, <1>19, <1>20, <1>21, <1>22, <1>23, <1>24, <1>30, Zenon DEF Work
<1>31. QED
  BY <1>13, <1>25, <1>26, <1>27, <1>28, <1>29, <1>30, Zenon DEF Next

-----------------------------------------------------------------------------
IInv == Basics /\ Locks /\ Slots /\ Earned /\ StopHolds

LEMMA Inductive == Spec => []IInv
<1>1. Init => IInv
  BY InitBasics, InitLocks, InitSlots, InitEarned DEF IInv, Init, StopHolds
<1>2. IInv /\ [Next]_vars => IInv'
  BY BasicsStep, LocksStep, SlotsStep, EarnedStep, StopHoldsStep DEF IInv
<1>3. QED
  BY <1>1, <1>2, PTL DEF Spec

(* Every variable keeps its type; in particular slots never exceeds the    *)
(* capacity of the semaphore (execution.py:178-201, 290).                  *)
THEOREM TypeCorrect == Spec => []TypeOK
<1>1. IInv => TypeOK
  BY HoldersFinite DEF IInv, Basics, Types, Slots, SlotsAreConserved, TypeOK
<1>2. QED
  BY Inductive, <1>1, PTL

(* No two executions work in one workspace, whatever the number of threads *)
(* and slots (execution.py:290-324).                                       *)
THEOREM WorkspacesAreExclusive == Spec => []WorkspaceExclusion
<1>1. IInv => WorkspaceExclusion
  BY DEF IInv, Locks
<1>2. QED
  BY Inductive, <1>1, PTL

(* A workspace is locked exactly while somebody works in it, and slots are *)
(* neither lost nor invented: no outcome of a service, raising included,   *)
(* leaves one behind (execution.py:290-324).                               *)
THEOREM ResourcesConserved == Spec => []ResourcesAreConserved
<1>1. IInv => ResourcesAreConserved
  BY DEF IInv, Locks, Slots, ResourcesAreConserved
<1>2. QED
  BY Inductive, <1>1, PTL

(* A service starts only after every dependency of its task has been       *)
(* completed by somebody (execution.py:275-280).                           *)
THEOREM DependenciesFirst == Spec => []DependenciesCompletedFirst
<1>1. IInv => DependenciesCompletedFirst
  BY DEF IInv, Earned, LookedUp, WorkPC, LockPC, DoneSomewhere, DependenciesCompletedFirst, Basics, Types
<1>2. QED
  BY Inductive, <1>1, PTL

(* Evidence of a completion was earned by the service of that plan and     *)
(* task (execution.py:311-327).                                            *)
THEOREM CompletionsAreEarned == Spec => []CompletionIsEarned
<1>1. IInv => CompletionIsEarned
  BY DEF IInv, Earned
<1>2. QED
  BY Inductive, <1>1, PTL

(* One step under a stop that is in force clears no execution to start its *)
(* service and completes none.                                             *)
CancelledStep ==
    \A t \in Threads :
        /\ pc'[t] = "cleared" => pc[t] = "cleared"
        /\ pc[t] \in {"cleared", "running"} => verdict'[t] # "completed"

LEMMA CancelledNext ==
  ASSUME IInv, inForce # {}, [Next]_vars
  PROVE  CancelledStep
<1>a. stop
  BY DEF IInv, StopHolds
<1> USE <1>a DEF IInv, Basics, Types, Verdicts, Step, Return, Decide, shared, history, stops,
            CancelledStep
<1>1. ASSUME NEW t \in Threads, NEW p \in Plans, NEW i \in TaskIds, NEW a \in BOOLEAN,
             Execute(t, p, i, a)
      PROVE  CancelledStep
  BY <1>1 DEF Execute, Begin
<1>2. ASSUME NEW t \in Threads, NEW p \in Plans, NEW i \in TaskIds, NEW a \in BOOLEAN,
             Recover(t, p, i, a)
      PROVE  CancelledStep
  BY <1>2 DEF Recover, Begin
<1>3. ASSUME NEW t \in Threads, NEW p \in Plans, CancelPlan(t, p) PROVE CancelledStep
  BY <1>3 DEF CancelPlan
<1>4. ASSUME NEW t \in Threads, PreflightFails(t) PROVE CancelledStep
  BY <1>4 DEF PreflightFails
<1>5. ASSUME NEW t \in Threads, PreflightPasses(t) PROVE CancelledStep
  BY <1>5 DEF PreflightPasses
<1>6. ASSUME NEW t \in Threads, Refuse(t) PROVE CancelledStep
  BY <1>6 DEF Refuse
<1>7. ASSUME NEW t \in Threads, PassGate(t) PROVE CancelledStep
  BY <1>7 DEF PassGate
<1>8. ASSUME NEW t \in Threads, PassCancelled(t) PROVE CancelledStep
  BY <1>8 DEF PassCancelled
<1>9. ASSUME NEW t \in Threads, NEW d \in TaskIds, DependencyDone(t, d) PROVE CancelledStep
  BY <1>9 DEF DependencyDone
<1>10. ASSUME NEW t \in Threads, NEW d \in TaskIds, DependencyMissing(t, d) PROVE CancelledStep
  BY <1>10 DEF DependencyMissing
<1>11. ASSUME NEW t \in Threads, AwaitApproval(t) PROVE CancelledStep
  BY <1>11 DEF AwaitApproval
<1>12. ASSUME NEW t \in Threads, Authorised(t) PROVE CancelledStep
  BY <1>12 DEF Authorised
<1>13. ASSUME NEW t \in Threads, AcquireSlot(t) PROVE CancelledStep
  BY <1>13 DEF AcquireSlot
<1>14. ASSUME NEW t \in Threads, WorkspaceBusy(t) PROVE CancelledStep
  BY <1>14 DEF WorkspaceBusy
<1>15. ASSUME NEW t \in Threads, LockWorkspace(t) PROVE CancelledStep
  BY <1>15 DEF LockWorkspace
<1>16. ASSUME NEW t \in Threads, StoppedWhileWaiting(t) PROVE CancelledStep
  BY <1>16 DEF StoppedWhileWaiting
<1>17. ASSUME NEW t \in Threads, StartService(t) PROVE CancelledStep
  BY <1>17 DEF StartService
<1>18. ASSUME NEW t \in Threads, PassCancelledAgain(t) PROVE CancelledStep
  BY <1>18 DEF PassCancelledAgain
<1>19. ASSUME NEW t \in Threads, ClearToStart(t) PROVE CancelledStep
  BY <1>19 DEF ClearToStart
<1>20. ASSUME NEW t \in Threads, ServiceReturns(t) PROVE CancelledStep
  BY <1>20 DEF ServiceReturns
<1>21. ASSUME NEW t \in Threads, ServiceFails(t) PROVE CancelledStep
  BY <1>21 DEF ServiceFails
<1>22. ASSUME NEW t \in Threads, OutputUnrecordable(t) PROVE CancelledStep
  BY <1>22 DEF OutputUnrecordable
<1>23. ASSUME NEW t \in Threads, Release(t) PROVE CancelledStep
  BY <1>23 DEF Release
<1>24. ASSUME NEW t \in Threads, Record(t) PROVE CancelledStep
  BY <1>24 DEF Record
<1>25. ASSUME NEW t \in Threads, TriggerStop(t) PROVE CancelledStep
  BY <1>25 DEF TriggerStop
<1>26. ASSUME ResetStop PROVE CancelledStep
  BY <1>26 DEF ResetStop
<1>27. CASE UNCHANGED vars
  BY <1>27 DEF vars
<1> HIDE DEF IInv, Basics, Types, Verdicts, Step, Return, Decide, shared, history, stops,
            CancelledStep
<1>28. ASSUME NEW t \in Threads, Call(t) PROVE CancelledStep
  <2>1. \A i \in TaskIds : Approvals(i) \subseteq BOOLEAN
    BY DEF Approvals
  <2>2. QED
    BY <1>1, <1>2, <1>3, <1>28, <2>1, Zenon DEF Call
<1>29. ASSUME NEW t \in Threads, Prepare(t) PROVE CancelledStep
  BY <1>4, <1>5, <1>6, <1>7, <1>8, <1>9, <1>10, <1>11, <1>12, <1>29, Zenon DEF Prepare
<1>30. ASSUME NEW t \in Threads, Work(t) PROVE CancelledStep
  BY <1>14, <1>15, <1>16, <1>17, <1>18, <1>19, <1>20, <1>21, <1>22, <1>23, <1>24, <1>30, Zenon DEF Work
<1>31. QED
  BY <1>13, <1>25, <1>26, <1>27, <1>28, <1>29, <1>30, Zenon DEF Next

(* While a stop set by a cancel_plan is in force, no execution is cleared  *)
(* to start its service and none ends in a completion, for any threads,    *)
(* plans and resets (execution.py:245-248, 298-302, 311-315).              *)
THEOREM CancellationHolds == Spec => CancellationIsFinal
<1>1. IInv /\ [Next]_vars => [inForce # {} => CancelledStep]_vars
  BY CancelledNext
<1>2. QED
  BY Inductive, <1>1, PTL DEF Spec, CancellationIsFinal, CancelledStep

(* A call begun after its plan was cancelled never reaches a service,      *)
(* whatever is reset (execution.py:247, 270, 298).                         *)
THEOREM ResetsReviveNothing == Spec => []ResetRevivesNothing
<1>1. IInv => ResetRevivesNothing
  BY DEF IInv, StopHolds, ResetRevivesNothing
<1>2. QED
  BY Inductive, <1>1, PTL
=============================================================================
