-------------------------- MODULE KillSwitchProofs --------------------------
(***************************************************************************)
(* Proofs about KillSwitch for any number of threads and processes: type   *)
(* correctness, no process slips through the sweep, none is forgotten, no  *)
(* swept run is reported as a failure, reset only when idle, and the       *)
(* implementation of EmergencyStop.                                        *)
(***************************************************************************)
EXTENDS KillSwitch, TLAPS

USE ThreadsAssumption, ProcsAssumption DEF Launchers, Threads

-----------------------------------------------------------------------------
(* Who holds the lock, and who has a process in hand, at each label.       *)

LockPC == {"admitting", "refuse_term", "refuse_kill", "refused"}

LockHeld ==
    /\ \A l \in Launchers : pc[l] \in LockPC => lock = l
    /\ \A r \in Resetters : pc[r] = "clearing" => lock = r /\ processes = {}

HasTarget ==
    /\ \A l \in Launchers :
         pc[l] \notin {"idle", "validated"} => target[l] \in Procs /\ os[target[l]] # "unborn"
    /\ \A s \in Stoppers : pc[s] \in {"sweep_term", "sweep_kill"} => target[s] \in Procs
    /\ \A p \in processes : os[p] # "unborn"

\* A registration that overtook the flag is ahead of the snapshot.
AdmittedBeforeSnapshot ==
    \A l \in Launchers :
        pc[l] = "admitting" /\ triggered => \E s \in Stoppers : pc[s] = "flagged"

IInv == TypeOK /\ LockHeld /\ HasTarget /\ AdmittedBeforeSnapshot /\ NoProcessSlipsThrough

(* The labels are as many different strings as they look: the type of each *)
(* thread's label, and IInv's lock and target facts, hold from the start   *)
(* and through every step.                                                 *)
LEMMA InitIInv == Init => IInv
  BY DEF Init, IInv, TypeOK, LockHeld, HasTarget, AdmittedBeforeSnapshot,
         NoProcessSlipsThrough, LauncherPC, StopperPC, ResetterPC, LockPC, Dead, Results

(* Type correctness, the use of the lock and of target (kill_switch.py:22-76). *)
LEMMA BasicStep ==
  ASSUME TypeOK, LockHeld, HasTarget, [Next]_vars
  PROVE  TypeOK' /\ LockHeld' /\ HasTarget'
<1> USE DEF TypeOK, LockHeld, HasTarget, LauncherPC, StopperPC, ResetterPC, LockPC,
            Dead, Results, Goto, Alive
<1>1. ASSUME NEW l \in Launchers, ValidateLaunch(l) PROVE TypeOK' /\ LockHeld' /\ HasTarget'
  BY <1>1 DEF ValidateLaunch
<1>2. ASSUME NEW l \in Launchers, NEW p \in Procs, Popen(l, p)
      PROVE  TypeOK' /\ LockHeld' /\ HasTarget'
  BY <1>2 DEF Popen
<1>3. ASSUME NEW l \in Launchers, RegisterCheck(l) PROVE TypeOK' /\ LockHeld' /\ HasTarget'
  BY <1>3 DEF RegisterCheck
<1>4. ASSUME NEW l \in Launchers, RegisterAdd(l) PROVE TypeOK' /\ LockHeld' /\ HasTarget'
  BY <1>4 DEF RegisterAdd
<1>5. ASSUME NEW l \in Launchers, RefuseTerminate(l) PROVE TypeOK' /\ LockHeld' /\ HasTarget'
  BY <1>5 DEF RefuseTerminate, StopTerminate
<1>6. ASSUME NEW l \in Launchers, RefuseKill(l) PROVE TypeOK' /\ LockHeld' /\ HasTarget'
  BY <1>6 DEF RefuseKill, StopKill
<1>7. ASSUME NEW l \in Launchers, RefuseRaise(l) PROVE TypeOK' /\ LockHeld' /\ HasTarget'
  BY <1>7 DEF RefuseRaise
<1>8. ASSUME NEW l \in Launchers, RunEnds(l) PROVE TypeOK' /\ LockHeld' /\ HasTarget'
  BY <1>8 DEF RunEnds, Communicated
<1>9. ASSUME NEW l \in Launchers, RunExpires(l) PROVE TypeOK' /\ LockHeld' /\ HasTarget'
  BY <1>9 DEF RunExpires
<1>10. ASSUME NEW l \in Launchers, OwnerTerminate(l) PROVE TypeOK' /\ LockHeld' /\ HasTarget'
  BY <1>10 DEF OwnerTerminate, StopTerminate
<1>11. ASSUME NEW l \in Launchers, OwnerKill(l) PROVE TypeOK' /\ LockHeld' /\ HasTarget'
  BY <1>11 DEF OwnerKill, StopKill
<1>12. ASSUME NEW l \in Launchers, Reap(l) PROVE TypeOK' /\ LockHeld' /\ HasTarget'
  BY <1>12 DEF Reap, Communicated
<1>13. ASSUME NEW l \in Launchers, CloseGivesUp(l) PROVE TypeOK' /\ LockHeld' /\ HasTarget'
  BY <1>13 DEF CloseGivesUp
<1>14. ASSUME NEW l \in Launchers, CloseKill(l) PROVE TypeOK' /\ LockHeld' /\ HasTarget'
  BY <1>14 DEF CloseKill
<1>15. ASSUME NEW l \in Launchers, Unregister(l) PROVE TypeOK' /\ LockHeld' /\ HasTarget'
  BY <1>15 DEF Unregister
<1>16. ASSUME NEW s \in Stoppers, TriggerSet(s) PROVE TypeOK' /\ LockHeld' /\ HasTarget'
  BY <1>16 DEF TriggerSet
<1>17. ASSUME NEW s \in Stoppers, TriggerSnapshot(s) PROVE TypeOK' /\ LockHeld' /\ HasTarget'
  BY <1>17 DEF TriggerSnapshot
<1>18. ASSUME NEW s \in Stoppers, NEW p \in Procs, TriggerNext(s, p)
       PROVE  TypeOK' /\ LockHeld' /\ HasTarget'
  BY <1>18 DEF TriggerNext
<1>19. ASSUME NEW s \in Stoppers, SweepTerminate(s) PROVE TypeOK' /\ LockHeld' /\ HasTarget'
  BY <1>19 DEF SweepTerminate, StopTerminate
<1>20. ASSUME NEW s \in Stoppers, SweepKill(s) PROVE TypeOK' /\ LockHeld' /\ HasTarget'
  BY <1>20 DEF SweepKill, StopKill
<1>21. ASSUME NEW s \in Stoppers, TriggerReturn(s) PROVE TypeOK' /\ LockHeld' /\ HasTarget'
  BY <1>21 DEF TriggerReturn
<1>22. ASSUME NEW r \in Resetters, ResetCheck(r) PROVE TypeOK' /\ LockHeld' /\ HasTarget'
  BY <1>22 DEF ResetCheck
<1>23. ASSUME NEW r \in Resetters, ResetClear(r) PROVE TypeOK' /\ LockHeld' /\ HasTarget'
  <2>1. lock = r /\ processes = {} /\ \A q \in Resetters \ {r} : pc[q] # "clearing"
    BY <1>23 DEF ResetClear
  <2>2. TypeOK'
    BY <1>23 DEF ResetClear
  <2>3. QED
    BY <1>23, <2>1, <2>2 DEF ResetClear
<1>24. ASSUME NEW p \in Procs, NEW status \in Dead, Exit(p, status)
       PROVE  TypeOK' /\ LockHeld' /\ HasTarget'
  BY <1>24 DEF Exit
<1>25. ASSUME NEW p \in Procs, Inherit(p) \/ ClosePipes(p)
       PROVE  TypeOK' /\ LockHeld' /\ HasTarget'
  BY <1>25 DEF Inherit, ClosePipes
<1>26. CASE UNCHANGED vars
  BY <1>26 DEF vars
<1> HIDE DEF TypeOK, LockHeld, HasTarget, Dead
<1>27. ASSUME NEW l \in Launchers, Launch(l) PROVE TypeOK' /\ LockHeld' /\ HasTarget'
  BY <1>1, <1>2, <1>3, <1>4, <1>5, <1>6, <1>7, <1>27, Zenon DEF Launch
<1>28. ASSUME NEW l \in Launchers, Supervise(l) PROVE TypeOK' /\ LockHeld' /\ HasTarget'
  BY <1>8, <1>9, <1>10, <1>11, <1>12, <1>13, <1>14, <1>15, <1>28, Zenon DEF Supervise
<1>29. ASSUME NEW s \in Stoppers, Trigger(s) PROVE TypeOK' /\ LockHeld' /\ HasTarget'
  BY <1>16, <1>17, <1>18, <1>19, <1>20, <1>21, <1>29, Zenon DEF Trigger
<1>30. QED
  BY <1>22, <1>23, <1>24, <1>25, <1>26, <1>27, <1>28, <1>29, Zenon DEF Next, Reset

-----------------------------------------------------------------------------
(* The argument for the sweep: a registration that saw the flag clear and  *)
(* keeps the lock is ahead of the snapshot of whoever sets the flag next.  *)

LEMMA SweepStep ==
  ASSUME IInv, [Next]_vars
  PROVE  AdmittedBeforeSnapshot' /\ NoProcessSlipsThrough'
<1> DEFINE Goal == AdmittedBeforeSnapshot' /\ NoProcessSlipsThrough'
<1> USE DEF IInv, TypeOK, LockHeld, HasTarget, AdmittedBeforeSnapshot, NoProcessSlipsThrough,
            SweepOwed, LauncherPC, StopperPC, ResetterPC, LockPC, Dead, Goto, Alive
<1>1. ASSUME NEW l \in Launchers, ValidateLaunch(l) PROVE Goal
  BY <1>1 DEF ValidateLaunch
<1>2. ASSUME NEW l \in Launchers, NEW p \in Procs, Popen(l, p) PROVE Goal
  BY <1>2 DEF Popen
<1>3. ASSUME NEW l \in Launchers, RegisterCheck(l) PROVE Goal
  BY <1>3 DEF RegisterCheck
<1>4. ASSUME NEW l \in Launchers, RegisterAdd(l) PROVE Goal
  BY <1>4 DEF RegisterAdd
<1>5. ASSUME NEW l \in Launchers, RefuseTerminate(l) PROVE Goal
  BY <1>5 DEF RefuseTerminate, StopTerminate
<1>6. ASSUME NEW l \in Launchers, RefuseKill(l) PROVE Goal
  BY <1>6 DEF RefuseKill, StopKill
<1>7. ASSUME NEW l \in Launchers, RefuseRaise(l) PROVE Goal
  BY <1>7 DEF RefuseRaise
<1>8. ASSUME NEW l \in Launchers, RunEnds(l) PROVE Goal
  BY <1>8 DEF RunEnds, Communicated
<1>9. ASSUME NEW l \in Launchers, RunExpires(l) PROVE Goal
  BY <1>9 DEF RunExpires
<1>10. ASSUME NEW l \in Launchers, OwnerTerminate(l) PROVE Goal
  BY <1>10 DEF OwnerTerminate, StopTerminate
<1>11. ASSUME NEW l \in Launchers, OwnerKill(l) PROVE Goal
  BY <1>11 DEF OwnerKill, StopKill
<1>12. ASSUME NEW l \in Launchers, Reap(l) PROVE Goal
  BY <1>12 DEF Reap, Communicated
<1>13. ASSUME NEW l \in Launchers, CloseGivesUp(l) PROVE Goal
  BY <1>13 DEF CloseGivesUp
<1>14. ASSUME NEW l \in Launchers, CloseKill(l) PROVE Goal
  BY <1>14 DEF CloseKill
<1>15. ASSUME NEW l \in Launchers, Unregister(l) PROVE Goal
  BY <1>15 DEF Unregister
<1>16. ASSUME NEW s \in Stoppers, TriggerSet(s) PROVE Goal
  BY <1>16 DEF TriggerSet
<1>17. ASSUME NEW s \in Stoppers, TriggerSnapshot(s) PROVE Goal
  BY <1>17 DEF TriggerSnapshot
<1>18. ASSUME NEW s \in Stoppers, NEW p \in Procs, TriggerNext(s, p) PROVE Goal
  BY <1>18 DEF TriggerNext
<1>19. ASSUME NEW s \in Stoppers, SweepTerminate(s) PROVE Goal
  BY <1>19 DEF SweepTerminate, StopTerminate
<1>20. ASSUME NEW s \in Stoppers, SweepKill(s) PROVE Goal
  BY <1>20 DEF SweepKill, StopKill
<1>21. ASSUME NEW s \in Stoppers, TriggerReturn(s) PROVE Goal
  BY <1>21 DEF TriggerReturn
<1>22. ASSUME NEW r \in Resetters, ResetCheck(r) PROVE Goal
  BY <1>22 DEF ResetCheck
<1>23. ASSUME NEW r \in Resetters, ResetClear(r) PROVE Goal
  BY <1>23 DEF ResetClear
<1>24. ASSUME NEW p \in Procs, NEW status \in Dead, Exit(p, status) PROVE Goal
  BY <1>24 DEF Exit
<1>25. ASSUME NEW p \in Procs, Inherit(p) \/ ClosePipes(p) PROVE Goal
  BY <1>25 DEF Inherit, ClosePipes
<1>26. ASSUME UNCHANGED vars PROVE Goal
  BY <1>26 DEF vars
<1> HIDE DEF IInv, TypeOK, LockHeld, HasTarget, AdmittedBeforeSnapshot,
             NoProcessSlipsThrough, Dead, Goal
<1>27. ASSUME NEW l \in Launchers, Launch(l) PROVE Goal
  BY <1>1, <1>2, <1>3, <1>4, <1>5, <1>6, <1>7, <1>27, Zenon DEF Launch
<1>28. ASSUME NEW l \in Launchers, Supervise(l) PROVE Goal
  BY <1>8, <1>9, <1>10, <1>11, <1>12, <1>13, <1>14, <1>15, <1>28, Zenon DEF Supervise
<1>29. ASSUME NEW s \in Stoppers, Trigger(s) PROVE Goal
  BY <1>16, <1>17, <1>18, <1>19, <1>20, <1>21, <1>29, Zenon DEF Trigger
<1>30. ASSUME Next PROVE Goal
  BY <1>22, <1>23, <1>24, <1>25, <1>27, <1>28, <1>29, <1>30, Zenon DEF Next, Reset
<1>31. Goal
  BY <1>26, <1>30, Zenon
<1>32. QED
  BY <1>31, Zenon DEF Goal

LEMMA IInvStep == IInv /\ [Next]_vars => IInv'
  BY BasicStep, SweepStep DEF IInv

(* Every variable keeps its type (kill_switch.py:21-62).                   *)
THEOREM TypeCorrect == Spec => []TypeOK
<1>1. IInv => TypeOK
  BY DEF IInv
<1>2. QED
  BY InitIInv, IInvStep, <1>1, PTL DEF Spec

(* While the switch is triggered, some trigger() call still has to stop    *)
(* each live registered process (kill_switch.py:35-56).                    *)
THEOREM NothingSlipsThrough == Spec => []NoProcessSlipsThrough
<1>1. IInv => NoProcessSlipsThrough
  BY DEF IInv
<1>2. QED
  BY InitIInv, IInvStep, <1>1, PTL DEF Spec
-----------------------------------------------------------------------------
(* Who owns a process.  Each launcher has a process of its own; until it   *)
(* registers it no sweep has heard of it, and it gives it up only when it  *)
(* is dead or cannot be signalled.                                         *)

SupervisedPC == {"running", "stop_term", "stop_kill", "reaping", "last_kill", "leaving"}

Owned ==
    /\ \A k, l \in Launchers : target[k] = target[l] /\ target[l] # None => k = l
    /\ \A l \in Launchers :
         /\ pc[l] \in {"idle", "validated"} => target[l] = None
         /\ pc[l] \in SupervisedPC => target[l] \in processes
         /\ pc[l] \in {"refused", "leaving"} /\ target[l] \notin Unsignalable
              => ~Alive(target[l])

\* No sweep has heard of p.
Unheard(p) ==
    /\ p \notin processes \cup swept
    /\ \A s \in Stoppers : p \notin pending[s] /\ p # target[s]

Fresh ==
    /\ \A p \in Procs : os[p] = "unborn" => Unheard(p)
    /\ \A l \in Launchers : pc[l] \in LockPC \cup {"spawned"} => Unheard(target[l])

\* The flag a swept run will read has not been reset.
FlagKept ==
    \A r \in Runners :
        pc[r] = "running" /\ target[r] \in swept => triggered

FailedIsDead == \A p \in Procs : result[p] = "failed" => os[p] \in Dead

OwnInv == Owned /\ Fresh /\ FlagKept /\ FailedIsDead /\ NoForgottenProcess /\ SweptRunIsNotAFailure

LEMMA InitOwn == Init => OwnInv
  BY DEF Init, OwnInv, Owned, Fresh, Unheard, FlagKept, FailedIsDead, NoForgottenProcess,
         SweptRunIsNotAFailure, InLaunch, Alive, LockPC, SupervisedPC

LEMMA OwnedStep ==
  ASSUME IInv, OwnInv, [Next]_vars
  PROVE  Owned' /\ Fresh'
<1> DEFINE Goal == Owned' /\ Fresh'
<1> USE DEF IInv, TypeOK, LockHeld, HasTarget, OwnInv, Owned, Fresh, Unheard, SupervisedPC,
            LauncherPC, StopperPC, ResetterPC, LockPC, Dead, Goto, Alive
<1>1. ASSUME NEW l \in Launchers, ValidateLaunch(l) PROVE Goal
  BY <1>1 DEF ValidateLaunch
<1>2. ASSUME NEW l \in Launchers, NEW p \in Procs, Popen(l, p) PROVE Goal
  BY <1>2 DEF Popen
<1>3. ASSUME NEW l \in Launchers, RegisterCheck(l) PROVE Goal
  BY <1>3 DEF RegisterCheck
<1>4. ASSUME NEW l \in Launchers, RegisterAdd(l) PROVE Goal
  BY <1>4 DEF RegisterAdd
<1>5. ASSUME NEW l \in Launchers, RefuseTerminate(l) PROVE Goal
  BY <1>5 DEF RefuseTerminate, StopTerminate
<1>6. ASSUME NEW l \in Launchers, RefuseKill(l) PROVE Goal
  BY <1>6 DEF RefuseKill, StopKill
<1>7. ASSUME NEW l \in Launchers, RefuseRaise(l) PROVE Goal
  BY <1>7 DEF RefuseRaise
<1>8. ASSUME NEW l \in Launchers, RunEnds(l) PROVE Goal
  BY <1>8 DEF RunEnds, Communicated
<1>9. ASSUME NEW l \in Launchers, RunExpires(l) PROVE Goal
  BY <1>9 DEF RunExpires
<1>10. ASSUME NEW l \in Launchers, OwnerTerminate(l) PROVE Goal
  BY <1>10 DEF OwnerTerminate, StopTerminate
<1>11. ASSUME NEW l \in Launchers, OwnerKill(l) PROVE Goal
  BY <1>11 DEF OwnerKill, StopKill
<1>12. ASSUME NEW l \in Launchers, Reap(l) PROVE Goal
  BY <1>12 DEF Reap, Communicated
<1>13. ASSUME NEW l \in Launchers, CloseGivesUp(l) PROVE Goal
  BY <1>13 DEF CloseGivesUp
<1>14. ASSUME NEW l \in Launchers, CloseKill(l) PROVE Goal
  BY <1>14 DEF CloseKill
<1>15. ASSUME NEW l \in Launchers, Unregister(l) PROVE Goal
  BY <1>15 DEF Unregister
<1>16. ASSUME NEW s \in Stoppers, TriggerSet(s) PROVE Goal
  BY <1>16 DEF TriggerSet
<1>17. ASSUME NEW s \in Stoppers, TriggerSnapshot(s) PROVE Goal
  BY <1>17 DEF TriggerSnapshot
<1>18. ASSUME NEW s \in Stoppers, NEW p \in Procs, TriggerNext(s, p) PROVE Goal
  BY <1>18 DEF TriggerNext
<1>19. ASSUME NEW s \in Stoppers, SweepTerminate(s) PROVE Goal
  BY <1>19 DEF SweepTerminate, StopTerminate
<1>20. ASSUME NEW s \in Stoppers, SweepKill(s) PROVE Goal
  BY <1>20 DEF SweepKill, StopKill
<1>21. ASSUME NEW s \in Stoppers, TriggerReturn(s) PROVE Goal
  BY <1>21 DEF TriggerReturn
<1>22. ASSUME NEW r \in Resetters, ResetCheck(r) PROVE Goal
  BY <1>22 DEF ResetCheck
<1>23. ASSUME NEW r \in Resetters, ResetClear(r) PROVE Goal
  BY <1>23 DEF ResetClear
<1>24. ASSUME NEW p \in Procs, NEW status \in Dead, Exit(p, status) PROVE Goal
  BY <1>24 DEF Exit
<1>25. ASSUME NEW p \in Procs, Inherit(p) \/ ClosePipes(p) PROVE Goal
  BY <1>25 DEF Inherit, ClosePipes
<1>26. ASSUME UNCHANGED vars PROVE Goal
  BY <1>26 DEF vars
<1> HIDE DEF IInv, TypeOK, LockHeld, HasTarget, OwnInv, Owned, Fresh, Dead, Goal
<1>27. ASSUME NEW l \in Launchers, Launch(l) PROVE Goal
  BY <1>1, <1>2, <1>3, <1>4, <1>5, <1>6, <1>7, <1>27, Zenon DEF Launch
<1>28. ASSUME NEW l \in Launchers, Supervise(l) PROVE Goal
  BY <1>8, <1>9, <1>10, <1>11, <1>12, <1>13, <1>14, <1>15, <1>28, Zenon DEF Supervise
<1>29. ASSUME NEW s \in Stoppers, Trigger(s) PROVE Goal
  BY <1>16, <1>17, <1>18, <1>19, <1>20, <1>21, <1>29, Zenon DEF Trigger
<1>30. ASSUME Next PROVE Goal
  BY <1>22, <1>23, <1>24, <1>25, <1>27, <1>28, <1>29, <1>30, Zenon DEF Next, Reset
<1>31. Goal
  BY <1>26, <1>30, Zenon
<1>32. QED
  BY <1>31, Zenon DEF Goal

LEMMA ReportStep ==
  ASSUME IInv, OwnInv, [Next]_vars
  PROVE  FlagKept' /\ FailedIsDead' /\ NoForgottenProcess' /\ SweptRunIsNotAFailure'
<1> DEFINE Goal == FlagKept' /\ FailedIsDead' /\ NoForgottenProcess' /\ SweptRunIsNotAFailure'
<1> USE DEF IInv, TypeOK, LockHeld, HasTarget, OwnInv, Owned, Fresh, Unheard, SupervisedPC,
            FlagKept, FailedIsDead, NoForgottenProcess, SweptRunIsNotAFailure, InLaunch, Results,
            LauncherPC, StopperPC, ResetterPC, LockPC, Dead, Goto, Alive
<1>1. ASSUME NEW l \in Launchers, ValidateLaunch(l) PROVE Goal
  BY <1>1 DEF ValidateLaunch
<1>2. ASSUME NEW l \in Launchers, NEW p \in Procs, Popen(l, p) PROVE Goal
  BY <1>2 DEF Popen
<1>3. ASSUME NEW l \in Launchers, RegisterCheck(l) PROVE Goal
  BY <1>3 DEF RegisterCheck
<1>4. ASSUME NEW l \in Launchers, RegisterAdd(l) PROVE Goal
  BY <1>4 DEF RegisterAdd
<1>5. ASSUME NEW l \in Launchers, RefuseTerminate(l) PROVE Goal
  BY <1>5 DEF RefuseTerminate, StopTerminate
<1>6. ASSUME NEW l \in Launchers, RefuseKill(l) PROVE Goal
  BY <1>6 DEF RefuseKill, StopKill
<1>7. ASSUME NEW l \in Launchers, RefuseRaise(l) PROVE Goal
  BY <1>7 DEF RefuseRaise
<1>8. ASSUME NEW l \in Launchers, RunEnds(l) PROVE Goal
  BY <1>8 DEF RunEnds, Communicated
<1>9. ASSUME NEW l \in Launchers, RunExpires(l) PROVE Goal
  BY <1>9 DEF RunExpires
<1>10. ASSUME NEW l \in Launchers, OwnerTerminate(l) PROVE Goal
  BY <1>10 DEF OwnerTerminate, StopTerminate
<1>11. ASSUME NEW l \in Launchers, OwnerKill(l) PROVE Goal
  BY <1>11 DEF OwnerKill, StopKill
<1>12. ASSUME NEW l \in Launchers, Reap(l) PROVE Goal
  BY <1>12 DEF Reap, Communicated
<1>13. ASSUME NEW l \in Launchers, CloseGivesUp(l) PROVE Goal
  BY <1>13 DEF CloseGivesUp
<1>14. ASSUME NEW l \in Launchers, CloseKill(l) PROVE Goal
  BY <1>14 DEF CloseKill
<1>15. ASSUME NEW l \in Launchers, Unregister(l) PROVE Goal
  BY <1>15 DEF Unregister
<1>16. ASSUME NEW s \in Stoppers, TriggerSet(s) PROVE Goal
  BY <1>16 DEF TriggerSet
<1>17. ASSUME NEW s \in Stoppers, TriggerSnapshot(s) PROVE Goal
  BY <1>17 DEF TriggerSnapshot
<1>18. ASSUME NEW s \in Stoppers, NEW p \in Procs, TriggerNext(s, p) PROVE Goal
  BY <1>18 DEF TriggerNext
<1>19. ASSUME NEW s \in Stoppers, SweepTerminate(s) PROVE Goal
  BY <1>19 DEF SweepTerminate, StopTerminate
<1>20. ASSUME NEW s \in Stoppers, SweepKill(s) PROVE Goal
  BY <1>20 DEF SweepKill, StopKill
<1>21. ASSUME NEW s \in Stoppers, TriggerReturn(s) PROVE Goal
  BY <1>21 DEF TriggerReturn
<1>22. ASSUME NEW r \in Resetters, ResetCheck(r) PROVE Goal
  BY <1>22 DEF ResetCheck
<1>23. ASSUME NEW r \in Resetters, ResetClear(r) PROVE Goal
  BY <1>23 DEF ResetClear
<1>24. ASSUME NEW p \in Procs, NEW status \in Dead, Exit(p, status) PROVE Goal
  BY <1>24 DEF Exit
<1>25. ASSUME NEW p \in Procs, Inherit(p) \/ ClosePipes(p) PROVE Goal
  BY <1>25 DEF Inherit, ClosePipes
<1>26. ASSUME UNCHANGED vars PROVE Goal
  BY <1>26 DEF vars
<1> HIDE DEF IInv, TypeOK, LockHeld, HasTarget, OwnInv, Owned, Fresh, FlagKept, FailedIsDead,
             NoForgottenProcess, SweptRunIsNotAFailure, Dead, Goal
<1>27. ASSUME NEW l \in Launchers, Launch(l) PROVE Goal
  BY <1>1, <1>2, <1>3, <1>4, <1>5, <1>6, <1>7, <1>27, Zenon DEF Launch
<1>28. ASSUME NEW l \in Launchers, Supervise(l) PROVE Goal
  BY <1>8, <1>9, <1>10, <1>11, <1>12, <1>13, <1>14, <1>15, <1>28, Zenon DEF Supervise
<1>29. ASSUME NEW s \in Stoppers, Trigger(s) PROVE Goal
  BY <1>16, <1>17, <1>18, <1>19, <1>20, <1>21, <1>29, Zenon DEF Trigger
<1>30. ASSUME Next PROVE Goal
  BY <1>22, <1>23, <1>24, <1>25, <1>27, <1>28, <1>29, <1>30, Zenon DEF Next, Reset
<1>31. Goal
  BY <1>26, <1>30, Zenon
<1>32. QED
  BY <1>31, Zenon DEF Goal

LEMMA OwnStep == IInv /\ OwnInv /\ [Next]_vars => OwnInv'
  BY OwnedStep, ReportStep DEF OwnInv

(* A live process that signals can end is registered or in the hands of    *)
(* its launcher (sandbox.py:71-87, 269-279).                               *)
THEOREM NothingForgotten == Spec => []NoForgottenProcess
<1>1. OwnInv => NoForgottenProcess
  BY DEF OwnInv
<1>2. QED
  BY InitIInv, IInvStep, InitOwn, OwnStep, <1>1, PTL DEF Spec

(* A run ended by the emergency stop is not reported as a failure          *)
(* (sandbox.py:317-320).                                                   *)
THEOREM SweptRunsAreNotFailures == Spec => []SweptRunIsNotAFailure
<1>1. OwnInv => SweptRunIsNotAFailure
  BY DEF OwnInv
<1>2. QED
  BY InitIInv, IInvStep, InitOwn, OwnStep, <1>1, PTL DEF Spec

-----------------------------------------------------------------------------
(* The abstract promise.  Only four steps are visible through admittedBar: *)
(* the check that admits, the flag, the unregistration and the reset.      *)

Flagging == \E s \in Stoppers : TriggerSet(s)
Clearing == \E r \in Resetters : ResetClear(r)

(* Nothing but TriggerSet and ResetClear writes the flag.                  *)
LEMMA FlagWriters ==
  ASSUME Next, ~Flagging, ~Clearing
  PROVE  triggered' = triggered
  BY DEF Next, Flagging, Clearing, Launch, Supervise, Trigger, Reset, ValidateLaunch, Popen,
         RegisterCheck, RegisterAdd, RefuseTerminate, RefuseKill, RefuseRaise, RunEnds,
         RunExpires, OwnerTerminate, OwnerKill, Reap, CloseGivesUp, CloseKill, Unregister,
         TriggerSnapshot, TriggerNext, SweepTerminate, SweepKill, TriggerReturn, ResetCheck,
         Exit, Inherit, ClosePipes

(* The step that clears the flag finds no process registered               *)
(* (kill_switch.py:58-62).                                                 *)
THEOREM ResetIdle == Spec => ResetOnlyWhenIdle
<1>1. IInv /\ [Next]_vars => [triggered /\ ~triggered' => processes' = {}]_vars
  <2> SUFFICES ASSUME IInv, Next, triggered, ~triggered'
               PROVE  processes' = {}
    BY DEF vars
  <2>1. CASE Flagging
    BY <2>1 DEF Flagging, TriggerSet
  <2>2. CASE Clearing
    BY <2>2 DEF Clearing, ResetClear, IInv, LockHeld
  <2>3. QED
    BY <2>1, <2>2, FlagWriters
<1>2. QED
  BY InitIInv, IInvStep, <1>1, PTL DEF Spec, ResetOnlyWhenIdle

(* Every step of the switch is a step of EmergencyStop or leaves what it   *)
(* talks about alone.                                                      *)
LEMMA PromiseStep ==
  ASSUME IInv, IInv', Next
  PROVE  Promise!Next \/ UNCHANGED <<triggered, admittedBar>>
<1> DEFINE Goal == Promise!Next \/ UNCHANGED <<triggered, admittedBar>>
<1> USE DEF IInv, TypeOK, LockHeld, HasTarget, Goto, LockPC, LauncherPC, StopperPC, ResetterPC
<1>1. ASSUME NEW l \in Launchers, ValidateLaunch(l) PROVE Goal
  BY <1>1 DEF ValidateLaunch, admittedBar
<1>2. ASSUME NEW l \in Launchers, NEW p \in Procs, Popen(l, p) PROVE Goal
  BY <1>2 DEF Popen, admittedBar
<1>3. ASSUME NEW l \in Launchers, RegisterCheck(l) PROVE Goal
  <2>1. CASE triggered
    BY <1>3, <2>1 DEF RegisterCheck, admittedBar
  <2>2. CASE ~triggered
    <3>1. admittedBar' = admittedBar \cup {target[l]}
      BY <1>3, <2>2 DEF RegisterCheck, admittedBar
    <3>2. target[l] \in Procs
      BY <1>3 DEF RegisterCheck
    <3>3. triggered' = triggered
      BY <1>3 DEF RegisterCheck
    <3>4. Promise!Admit(target[l])
      BY <2>2, <3>1, <3>3 DEF Promise!Admit
    <3>5. QED
      BY <3>2, <3>4 DEF Promise!Next
  <2>3. QED
    BY <2>1, <2>2
<1>4. ASSUME NEW l \in Launchers, RegisterAdd(l) PROVE Goal
  BY <1>4 DEF RegisterAdd, admittedBar
<1>5. ASSUME NEW l \in Launchers, RefuseTerminate(l) PROVE Goal
  BY <1>5 DEF RefuseTerminate, StopTerminate, admittedBar
<1>6. ASSUME NEW l \in Launchers, RefuseKill(l) PROVE Goal
  BY <1>6 DEF RefuseKill, StopKill, admittedBar
<1>7. ASSUME NEW l \in Launchers, RefuseRaise(l) PROVE Goal
  BY <1>7 DEF RefuseRaise, admittedBar
<1>8. ASSUME NEW l \in Launchers, RunEnds(l) PROVE Goal
  BY <1>8 DEF RunEnds, Communicated, admittedBar
<1>9. ASSUME NEW l \in Launchers, RunExpires(l) PROVE Goal
  BY <1>9 DEF RunExpires, admittedBar
<1>10. ASSUME NEW l \in Launchers, OwnerTerminate(l) PROVE Goal
  BY <1>10 DEF OwnerTerminate, StopTerminate, admittedBar
<1>11. ASSUME NEW l \in Launchers, OwnerKill(l) PROVE Goal
  BY <1>11 DEF OwnerKill, StopKill, admittedBar
<1>12. ASSUME NEW l \in Launchers, Reap(l) PROVE Goal
  BY <1>12 DEF Reap, Communicated, admittedBar
<1>13. ASSUME NEW l \in Launchers, CloseGivesUp(l) PROVE Goal
  BY <1>13 DEF CloseGivesUp, admittedBar
<1>14. ASSUME NEW l \in Launchers, CloseKill(l) PROVE Goal
  BY <1>14 DEF CloseKill, admittedBar
<1>15. ASSUME NEW l \in Launchers, Unregister(l) PROVE Goal
  <2>1. admittedBar = processes /\ admittedBar' = processes'
    BY <1>15 DEF Unregister, admittedBar
  <2>2. Promise!Leave(target[l])
    BY <1>15, <2>1 DEF Unregister, Promise!Leave
  <2>3. target[l] \in Procs
    BY <1>15 DEF Unregister
  <2>4. QED
    BY <2>2, <2>3 DEF Promise!Next
<1>16. ASSUME NEW s \in Stoppers, TriggerSet(s) PROVE Goal
  <2>1. admittedBar' = admittedBar
    BY <1>16 DEF TriggerSet, admittedBar
  <2>2. Promise!Stop
    BY <1>16, <2>1 DEF TriggerSet, Promise!Stop
  <2>3. QED
    BY <2>2 DEF Promise!Next
<1>17. ASSUME NEW s \in Stoppers, TriggerSnapshot(s) PROVE Goal
  BY <1>17 DEF TriggerSnapshot, admittedBar
<1>18. ASSUME NEW s \in Stoppers, NEW p \in Procs, TriggerNext(s, p) PROVE Goal
  BY <1>18 DEF TriggerNext, admittedBar
<1>19. ASSUME NEW s \in Stoppers, SweepTerminate(s) PROVE Goal
  BY <1>19 DEF SweepTerminate, StopTerminate, admittedBar
<1>20. ASSUME NEW s \in Stoppers, SweepKill(s) PROVE Goal
  BY <1>20 DEF SweepKill, StopKill, admittedBar
<1>21. ASSUME NEW s \in Stoppers, TriggerReturn(s) PROVE Goal
  BY <1>21 DEF TriggerReturn, admittedBar
<1>22. ASSUME NEW r \in Resetters, ResetCheck(r) PROVE Goal
  BY <1>22 DEF ResetCheck, admittedBar
<1>23. ASSUME NEW r \in Resetters, ResetClear(r) PROVE Goal
  <2>1. admittedBar = {} /\ admittedBar' = {}
    BY <1>23 DEF ResetClear, admittedBar
  <2>2. Promise!Reset
    BY <1>23, <2>1 DEF ResetClear, Promise!Reset
  <2>3. QED
    BY <2>2 DEF Promise!Next
<1>24. ASSUME NEW p \in Procs, NEW status \in Dead, Exit(p, status) PROVE Goal
  BY <1>24 DEF Exit, admittedBar
<1>25. ASSUME NEW p \in Procs, Inherit(p) \/ ClosePipes(p) PROVE Goal
  BY <1>25 DEF Inherit, ClosePipes, admittedBar
<1> HIDE DEF IInv, TypeOK, LockHeld, HasTarget, Dead, Goal
<1>27. ASSUME NEW l \in Launchers, Launch(l) PROVE Goal
  BY <1>1, <1>2, <1>3, <1>4, <1>5, <1>6, <1>7, <1>27, Zenon DEF Launch
<1>28. ASSUME NEW l \in Launchers, Supervise(l) PROVE Goal
  BY <1>8, <1>9, <1>10, <1>11, <1>12, <1>13, <1>14, <1>15, <1>28, Zenon DEF Supervise
<1>29. ASSUME NEW s \in Stoppers, Trigger(s) PROVE Goal
  BY <1>16, <1>17, <1>18, <1>19, <1>20, <1>21, <1>29, Zenon DEF Trigger
<1>30. Goal
  BY <1>22, <1>23, <1>24, <1>25, <1>27, <1>28, <1>29, Zenon DEF Next, Reset
<1>31. QED
  BY <1>30, Zenon DEF Goal

(* KillSwitch implements EmergencyStop: no work is admitted while the stop *)
(* is active and only an idle system releases it (kill_switch.py:13-62).   *)
THEOREM SwitchKeepsPromise == Spec => ImplementsEmergencyStop
<1>1. Init => Promise!Init
  BY DEF Init, Promise!Init, admittedBar
<1>2. IInv /\ IInv' /\ [Next]_vars => [Promise!Next]_(Promise!vars)
  <2>1. CASE UNCHANGED vars
    BY <2>1 DEF vars, Promise!vars, admittedBar
  <2>2. ASSUME IInv, IInv', Next PROVE [Promise!Next]_(Promise!vars)
    BY <2>2, PromiseStep DEF Promise!vars
  <2>3. QED
    BY <2>1, <2>2
<1>3. QED
  BY InitIInv, IInvStep, <1>1, <1>2, PTL DEF Spec, ImplementsEmergencyStop, Promise!Spec
=============================================================================
