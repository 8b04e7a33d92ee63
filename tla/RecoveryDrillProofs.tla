------------------------ MODULE RecoveryDrillProofs ------------------------
(***************************************************************************)
(* Proofs about RecoveryDrill for any tasks, files, contents and number of *)
(* failures: a change is always covered by its checkpoint, nothing damaged *)
(* is accepted, an undamaged file is old or new, and the whole implements  *)
(* AtomicChange.                                                           *)
(***************************************************************************)
EXTENDS RecoveryDrill, TLAPS

USE ContentsAssumption

-----------------------------------------------------------------------------
\* The labels at which the checkpoint of the call is on the disk, and those
\* at which its candidate has been moved into place.
Journalled == Stages \cup {"clearing", "failing", "checking", "restoring", "restored"}
InPlace == {"replaced", "commit", "verifying", "verify", "cleanup", "clearing"}

Calls ==
    /\ pc # "idle" => change \in Changes
    /\ pc \in {"hashed", "snapped"} => journal = None /\ change.baseline = file[change.file]
    /\ pc \in Journalled => journal # None /\ journal.change = change
    /\ pc \in InPlace => file[change.file] = change.candidate

\* The checkpoint remembers what the file it names held.
Remembered ==
    \A f \in Files :
        \/ file[f] = settled[f]
        \/ journal # None /\ journal.change.file = f
BaselineIsSettled == journal # None => journal.change.baseline = settled[journal.change.file]

Restoring ==
    /\ pc = "restoring" /\ ~damaged => snapshot = change.baseline
    /\ pc = "restored" /\ change.baseline = Absent => file[change.file] = Absent

IInv == TypeOK /\ Calls /\ Remembered /\ BaselineIsSettled /\ Restoring /\ OldOrNew

LEMMA InitIInv == Init => IInv
<1>1. SUFFICES ASSUME Init PROVE IInv
  OBVIOUS
<1>2. file \in [Files -> Payloads \cup {Absent}] /\ file \in [Files -> Contents]
  BY <1>1 DEF Init, Contents
<1>3. TypeOK
  <2>1. Absent \in Contents /\ "idle" \in PCs /\ 0 \in 0 .. MaxFailures
    BY DEF Contents, PCs
  <2>2. QED
    BY <1>1, <1>2, <2>1 DEF Init, TypeOK
<1>4. QED
  BY <1>1, <1>3 DEF Init, IInv, Calls, Remembered, BaselineIsSettled, Restoring, OldOrNew,
                    Stages, Journalled, InPlace

\* A save is a whole checkpoint of the change in hand.
LEMMA Saved ==
  ASSUME change \in Changes, NEW phase \in Phases, Save(phase)
  PROVE  journal' \in Checkpoints /\ journal' # None /\ journal'.change = change
<1>1. journal' \in Checkpoints /\ journal'.change = change
  BY DEF Save, Checkpoints
<1>2. QED
  BY <1>1

LEMMA JournalDamaged ==
  ASSUME IInv, DamageJournal
  PROVE  journal' \in Checkpoints /\ journal' # None /\ journal'.change = journal.change
<1>1. journal \in Checkpoints
  BY DEF IInv, TypeOK, DamageJournal
<1>2. journal' \in Checkpoints /\ journal'.change = journal.change
  BY <1>1 DEF DamageJournal, Checkpoints
<1>3. QED
  BY <1>2

LEMMA IInvStep ==
  ASSUME IInv, [Next]_vars
  PROVE  IInv'
<1> USE DEF IInv, TypeOK, Calls, Remembered, BaselineIsSettled, Restoring, OldOrNew, PCs, Stages,
            Journalled, InPlace, Contents, Changes, Goto, disk, outside,
            Fail, Block, Restored
<1>1. ASSUME NEW t \in Tasks, NEW f \in Files, NEW c \in Payloads, Mutate(t, f, c) PROVE IInv'
  BY <1>1 DEF Mutate
<1>2. ASSUME NEW t \in Tasks, Recover(t) PROVE IInv'
  <2>1. journal.change \in Changes
    BY <1>2 DEF Recover, Checkpoints
  <2>2. QED
    BY <1>2, <2>1 DEF Recover
<1>3. ASSUME TakeSnapshot PROVE IInv'
  BY <1>3 DEF TakeSnapshot
<1>4. ASSUME SavePrepared PROVE IInv'
  <2>1. journal' \in Checkpoints /\ journal' # None /\ journal'.change = change
    BY <1>4, Saved DEF SavePrepared, Phases
  <2>2. QED
    BY <1>4, <2>1 DEF SavePrepared
<1>5. ASSUME PassStage("prepare", "writing") PROVE IInv'
  BY <1>5 DEF PassStage
<1>6. ASSUME SaveWritten PROVE IInv'
  <2>1. journal' \in Checkpoints /\ journal' # None /\ journal'.change = change
    BY <1>6, Saved DEF SaveWritten, Phases
  <2>2. QED
    BY <1>6, <2>1 DEF SaveWritten
<1>7. ASSUME PassStage("write", "committing") PROVE IInv'
  BY <1>7 DEF PassStage
<1>8. ASSUME Replace PROVE IInv'
  BY <1>8 DEF Replace
<1>9. ASSUME SaveCommitted PROVE IInv'
  <2>1. journal' \in Checkpoints /\ journal' # None /\ journal'.change = change
    BY <1>9, Saved DEF SaveCommitted, Phases
  <2>2. QED
    BY <1>9, <2>1 DEF SaveCommitted
<1>10. ASSUME PassStage("commit", "verifying") PROVE IInv'
  BY <1>10 DEF PassStage
<1>11. ASSUME Verify PROVE IInv'
  <2>1. journal' \in Checkpoints /\ journal' # None /\ journal'.change = change
    BY <1>11, Saved DEF Verify, Phases
  <2>2. QED
    BY <1>11, <2>1 DEF Verify
<1>12. ASSUME PassStage("verify", "cleanup") PROVE IInv'
  BY <1>12 DEF PassStage
<1>13. ASSUME PassStage("cleanup", "clearing") PROVE IInv'
  BY <1>13 DEF PassStage
<1>14. ASSUME Complete PROVE IInv'
  BY <1>14 DEF Complete
<1>15. ASSUME Stopped PROVE IInv'
  BY <1>15 DEF Stopped
<1>16. ASSUME RecordFailure PROVE IInv'
  <2>1. journal' \in Checkpoints /\ journal' # None /\ journal'.change = change
    BY <1>16, Saved DEF RecordFailure, Phases
  <2>2. QED
    BY <1>16, <2>1 DEF RecordFailure
<1>17. ASSUME CheckSnapshot PROVE IInv'
  BY <1>17 DEF CheckSnapshot
<1>18. ASSUME SnapshotRefused PROVE IInv'
  BY <1>18 DEF SnapshotRefused
<1>19. ASSUME Restore PROVE IInv'
  BY <1>19 DEF Restore
<1>20. ASSUME RestoreRefused PROVE IInv'
  BY <1>20 DEF RestoreRefused
<1>21. ASSUME Recovered PROVE IInv'
  BY <1>21 DEF Recovered
<1>22. ASSUME StageFails PROVE IInv'
  BY <1>22 DEF StageFails
<1>23. ASSUME Die PROVE IInv'
  BY <1>23 DEF Die
<1>24. ASSUME TriggerStop PROVE IInv'
  <2>1. TypeOK'
    BY <1>24 DEF TriggerStop, ResetStop
  <2>2. QED
    BY <1>24, <2>1 DEF TriggerStop, ResetStop
<1>25. ASSUME ResetStop PROVE IInv'
  <2>1. TypeOK'
    BY <1>25 DEF TriggerStop, ResetStop
  <2>2. QED
    BY <1>25, <2>1 DEF TriggerStop, ResetStop
<1>26. ASSUME DamageJournal PROVE IInv'
  <2>1. journal' \in Checkpoints /\ journal' # None /\ journal'.change = journal.change
    BY <1>26, JournalDamaged
  <2>2. QED
    BY <1>26, <2>1 DEF DamageJournal
<1>27. ASSUME DamageSnapshot PROVE IInv'
  BY <1>27 DEF DamageSnapshot
<1>28. CASE UNCHANGED vars
  BY <1>28 DEF vars
<1> HIDE DEF IInv, TypeOK, Calls, Remembered, BaselineIsSettled, Restoring, OldOrNew, PCs, Stages,
            Journalled, InPlace, Contents, Changes, Goto, disk, outside,
            Fail, Block, Restored
<1>29. ASSUME Running PROVE IInv'
  BY <1>3, <1>4, <1>5, <1>6, <1>7, <1>8, <1>9, <1>10, <1>11, <1>12, <1>13, <1>14, <1>15, <1>16, <1>17, <1>18, <1>19, <1>20, <1>21,
     <1>29, Zenon DEF Running
<1>30. QED
  BY <1>1, <1>2, <1>22, <1>23, <1>24, <1>25, <1>26, <1>27, <1>28, <1>29, Zenon DEF Next

LEMMA Inductive == Spec => []IInv
<1>1. IInv /\ [Next]_vars => IInv'
  BY IInvStep
<1>2. QED
  BY InitIInv, <1>1, PTL DEF Spec

(* Type correctness of the drill, damage and deaths included.              *)
THEOREM TypeCorrect == Spec => []TypeOK
<1>1. IInv => TypeOK
  BY DEF IInv
<1>2. QED
  BY Inductive, <1>1, PTL

(* No file is ever changed without a checkpoint that remembers what it     *)
(* held, whichever step the process dies at (fault_recovery.py:146-214).   *)
THEOREM ChangesAreCovered == Spec => []ChangeIsCovered
<1>1. IInv => ChangeIsCovered
  BY DEF IInv, Remembered, BaselineIsSettled, ChangeIsCovered
<1>2. QED
  BY Inductive, <1>1, PTL

(* When no checkpoint is left no file holds what damage put there          *)
(* (fault_recovery.py:255-302).                                            *)
THEOREM DamageIsNeverAccepted == Spec => []NoDamageAccepted
<1>1. IInv => NoDamageAccepted
  BY DEF IInv, Remembered, TypeOK, NoDamageAccepted
<1>2. QED
  BY Inductive, <1>1, PTL

(* Without damage a file holds what it held or what it was to hold.        *)
THEOREM FilesAreOldOrNew == Spec => []OldOrNew
<1>1. IInv => OldOrNew
  BY DEF IInv
<1>2. QED
  BY Inductive, <1>1, PTL

-----------------------------------------------------------------------------
(* The implementation of AtomicChange, step by step.                       *)

Goal == Promise!Next \/ (file' = file /\ pendingBar' = pendingBar)

\* Only the checkpoint's change shows in pendingBar.
LEMMA SameChange ==
  ASSUME journal # None, journal' # None, journal'.change = journal.change
  PROVE  pendingBar' = pendingBar
  BY DEF pendingBar

LEMMA PendingIsAChange ==
  ASSUME IInv, journal # None
  PROVE  pendingBar # None /\ pendingBar \in Promise!Changes
<1>1. journal.change \in Changes
  BY DEF IInv, TypeOK, Checkpoints
<1>2. pendingBar \in Promise!Changes
  BY <1>1 DEF pendingBar, Promise!Changes, Changes, Contents
<1>3. QED
  BY <1>2 DEF Promise!Changes

LEMMA PromiseStep ==
  ASSUME IInv, IInv', Next
  PROVE  Goal
<1> USE DEF Goal, Goto, disk, outside, Block, Fail
<1>1. ASSUME NEW t \in Tasks, NEW f \in Files, NEW c \in Payloads, Mutate(t, f, c) PROVE Goal
  BY <1>1 DEF Mutate, pendingBar
<1>2. ASSUME NEW t \in Tasks, Recover(t) PROVE Goal
  BY <1>2 DEF Recover, pendingBar
<1>3. ASSUME TakeSnapshot PROVE Goal
  BY <1>3 DEF TakeSnapshot, pendingBar
<1>4. ASSUME SavePrepared PROVE Goal
  <2>1. journal = None /\ journal' # None /\ journal'.change = change /\ change \in Changes
    BY <1>4, Saved DEF SavePrepared, IInv, Calls, Phases
  <2>2. pendingBar = None /\ pendingBar' \in Promise!Changes
    BY <2>1, PendingIsAChange DEF pendingBar, Promise!Changes, Changes, Contents
  <2>3. pendingBar'.old = file[pendingBar'.file]
    BY <1>4, <2>1 DEF pendingBar, SavePrepared, IInv, Calls
  <2>4. QED
    BY <1>4, <2>2, <2>3 DEF SavePrepared, Promise!Next, Promise!Begin
<1>5. ASSUME PassStage("prepare", "writing") PROVE Goal
  BY <1>5 DEF PassStage, pendingBar
<1>6. ASSUME SaveWritten PROVE Goal
  <2>1. journal # None /\ journal' # None /\ journal'.change = journal.change
    BY <1>6, Saved DEF SaveWritten, IInv, Calls, Phases, Journalled, Stages
  <2>2. QED
    BY <1>6, <2>1, SameChange DEF SaveWritten
<1>7. ASSUME PassStage("write", "committing") PROVE Goal
  BY <1>7 DEF PassStage, pendingBar
<1>8. ASSUME Replace PROVE Goal
  <2>1. journal # None /\ journal.change = change /\ change \in Changes
    BY <1>8 DEF Replace, IInv, Calls, Journalled, Stages
  <2>2. pendingBar # None /\ pendingBar.file = change.file /\ pendingBar' = pendingBar
    BY <1>8, <2>1, PendingIsAChange DEF Replace, pendingBar
  <2>3. (change.candidate) \in Contents
    BY <2>1 DEF IInv, TypeOK, Changes, Contents
  <2>4. file' = [file EXCEPT ![change.file] = change.candidate]
    BY <1>8 DEF Replace
  <2>5. QED
    BY <2>2, <2>3, <2>4 DEF Promise!Next, Promise!Write
<1>9. ASSUME SaveCommitted PROVE Goal
  <2>1. journal # None /\ journal' # None /\ journal'.change = journal.change
    BY <1>9, Saved DEF SaveCommitted, IInv, Calls, Phases, Journalled, Stages
  <2>2. QED
    BY <1>9, <2>1, SameChange DEF SaveCommitted
<1>10. ASSUME PassStage("commit", "verifying") PROVE Goal
  BY <1>10 DEF PassStage, pendingBar
<1>11. ASSUME Verify PROVE Goal
  <2>1. journal # None /\ journal' # None /\ journal'.change = journal.change
    BY <1>11, Saved DEF Verify, IInv, Calls, Phases, Journalled, Stages
  <2>2. QED
    BY <1>11, <2>1, SameChange DEF Verify
<1>12. ASSUME PassStage("verify", "cleanup") PROVE Goal
  BY <1>12 DEF PassStage, pendingBar
<1>13. ASSUME PassStage("cleanup", "clearing") PROVE Goal
  BY <1>13 DEF PassStage, pendingBar
<1>14. ASSUME Complete PROVE Goal
  <2>1. journal # None /\ journal.change = change /\ change \in Changes
    BY <1>14 DEF Complete, IInv, Calls, Journalled
  <2>2. file[change.file] \in {change.baseline, change.candidate}
    BY <1>14 DEF Complete, IInv, Calls, InPlace
  <2>3. pendingBar # None /\ pendingBar.file = change.file /\ pendingBar.old = change.baseline
          /\ pendingBar.new = change.candidate
    BY <2>1, PendingIsAChange DEF pendingBar
  <2>4. pendingBar' = None /\ file' = file
    BY <1>14 DEF Complete, pendingBar
  <2>5. QED
    BY <2>2, <2>3, <2>4 DEF Promise!Next, Promise!Settle
<1>15. ASSUME Stopped PROVE Goal
  BY <1>15 DEF Stopped, pendingBar
<1>16. ASSUME RecordFailure PROVE Goal
  <2>1. journal # None /\ journal' # None /\ journal'.change = journal.change
    BY <1>16, Saved DEF RecordFailure, IInv, Calls, Phases, Journalled, Stages
  <2>2. QED
    BY <1>16, <2>1, SameChange DEF RecordFailure
<1>17. ASSUME CheckSnapshot PROVE Goal
  BY <1>17 DEF CheckSnapshot, pendingBar
<1>18. ASSUME SnapshotRefused PROVE Goal
  BY <1>18 DEF SnapshotRefused, pendingBar
<1>19. ASSUME Restore PROVE Goal
  <2>1. journal # None /\ journal.change = change /\ change \in Changes
    BY <1>19 DEF Restore, IInv, Calls, Journalled, Stages
  <2>2. pendingBar # None /\ pendingBar.file = change.file /\ pendingBar' = pendingBar
    BY <1>19, <2>1, PendingIsAChange DEF Restore, pendingBar
  <2>3. (IF change.baseline = Absent THEN Absent ELSE snapshot) \in Contents
    BY <2>1 DEF IInv, TypeOK, Changes, Contents
  <2>4. file' = [file EXCEPT ![change.file] = IF change.baseline = Absent THEN Absent ELSE snapshot]
    BY <1>19 DEF Restore
  <2>5. QED
    BY <2>2, <2>3, <2>4 DEF Promise!Next, Promise!Write
<1>20. ASSUME RestoreRefused PROVE Goal
  BY <1>20 DEF RestoreRefused, pendingBar
<1>21. ASSUME Recovered PROVE Goal
  <2>1. journal # None /\ journal.change = change /\ change \in Changes
    BY <1>21 DEF Recovered, IInv, Calls, Journalled
  <2>2. file[change.file] \in {change.baseline, change.candidate}
    BY <1>21 DEF Recovered, IInv, Calls, Restored, Restoring
  <2>3. pendingBar # None /\ pendingBar.file = change.file /\ pendingBar.old = change.baseline
          /\ pendingBar.new = change.candidate
    BY <2>1, PendingIsAChange DEF pendingBar
  <2>4. pendingBar' = None /\ file' = file
    BY <1>21 DEF Recovered, pendingBar
  <2>5. QED
    BY <2>2, <2>3, <2>4 DEF Promise!Next, Promise!Settle
<1>22. ASSUME StageFails PROVE Goal
  BY <1>22 DEF StageFails, pendingBar
<1>23. ASSUME Die PROVE Goal
  BY <1>23 DEF Die, pendingBar
<1>24. ASSUME TriggerStop PROVE Goal
  BY <1>24 DEF TriggerStop, pendingBar
<1>25. ASSUME ResetStop PROVE Goal
  BY <1>25 DEF ResetStop, pendingBar
<1>26. ASSUME DamageJournal PROVE Goal
  <2>1. QED
    BY <1>26, JournalDamaged, SameChange DEF DamageJournal
<1>27. ASSUME DamageSnapshot PROVE Goal
  BY <1>27 DEF DamageSnapshot, pendingBar
<1> HIDE DEF Goal, Goto, disk, outside, Block, Fail
<1>29. ASSUME Running PROVE Goal
  BY <1>3, <1>4, <1>5, <1>6, <1>7, <1>8, <1>9, <1>10, <1>11, <1>12, <1>13, <1>14, <1>15, <1>16, <1>17, <1>18, <1>19, <1>20, <1>21,
     <1>29, Zenon DEF Running
<1>30. QED
  BY <1>1, <1>2, <1>22, <1>23, <1>24, <1>25, <1>26, <1>27, <1>29, Zenon DEF Next

(* The drill implements AtomicChange: each file changes by atomic changes, *)
(* one at a time, whatever fails in between (fault_recovery.py:146-302).   *)
THEOREM DrillIsAtomic == Spec => ImplementsAtomicChange
<1>1. Init => Promise!Init
  BY DEF Init, Promise!Init, pendingBar, Contents
<1>2. IInv /\ IInv' /\ [Next]_vars => [Promise!Next]_<<file, pendingBar>>
  <2>1. CASE UNCHANGED vars
    BY <2>1 DEF vars, pendingBar
  <2>2. ASSUME IInv, IInv', Next PROVE [Promise!Next]_<<file, pendingBar>>
    BY <2>2, PromiseStep DEF Goal
  <2>3. QED
    BY <2>1, <2>2
<1>3. QED
  BY Inductive, <1>1, <1>2, PTL DEF Spec, ImplementsAtomicChange, Promise!Spec
=============================================================================
