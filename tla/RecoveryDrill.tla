--------------------------- MODULE RecoveryDrill ---------------------------
(***************************************************************************)
(* src/kodepoia/core/fault_recovery.py over recovery.py and safe_change.py:*)
(* a file is changed under a journal and a snapshot, and recovered from    *)
(* them.  The process may die between any two steps and is started again;  *)
(* what it wrote is on the disk.  A file changes only by os.replace or     *)
(* unlink, so temporary files do not appear.                               *)
(***************************************************************************)
EXTENDS Naturals

CONSTANTS
    Tasks,
    Files,
    Payloads,      \* what files may be asked to hold
    Absent,        \* the file does not exist
    Garbage,       \* what a damaged snapshot holds
    MaxFailures,   \* bound: deaths and errors of the process
    None

Contents == Payloads \cup {Absent, Garbage}

VARIABLES
    stop,        \* kill_switch.triggered
    file,        \* the project's files
    journal,     \* the checkpoint on the disk, or None
    snapshot,    \* what the last snapshot holds of the target
    damaged,     \* the disk has damaged the journal or the snapshot
    pc,          \* where the process is
    change,      \* the arguments and locals of its call
    failures,    \* how often it has failed
    settled      \* history: the files as the last calls that succeeded left them

vars == <<stop, file, journal, snapshot, damaged, pc, change, failures, settled>>

Changes == [task : Tasks, file : Files, baseline : Contents, candidate : Payloads]

Phases == {"prepared", "written", "committed", "verified", "recovery_required"}

Checkpoints == [change : Changes, phase : Phases, intact : BOOLEAN]

ASSUME ContentsAssumption ==
    /\ Absent \notin Payloads
    /\ Garbage \notin Payloads \cup {Absent}
    /\ MaxFailures \in Nat
    /\ None \notin Checkpoints
    /\ None \notin [file : Files, old : Contents, new : Contents]

Init ==
    /\ stop = FALSE
    /\ file \in [Files -> Payloads \cup {Absent}]
    /\ journal = None
    /\ snapshot = Absent
    /\ damaged = FALSE
    /\ pc = "idle"
    /\ change = None
    /\ failures = 0
    /\ settled = file

Goto(from, to) == pc = from /\ pc' = to

\* RecoveryJournal.save: written whole, with its digest, or not at all.
Save(phase) == journal' = [change |-> change, phase |-> phase, intact |-> TRUE]

disk == <<file, journal, snapshot, damaged>>
outside == <<stop, failures, settled>>

(***************************************************************************)
(* mutate_file.                                                            *)
(***************************************************************************)
Mutate(t, f, c) ==
    /\ Goto("idle", "hashed")
    /\ journal = None
    /\ ~stop
    /\ change' = [task |-> t, file |-> f, baseline |-> file[f], candidate |-> c]
    /\ UNCHANGED <<disk, outside>>

\* Mutant: a snapshot taken before is used again.
ReuseSnapshot ==
    /\ Goto("hashed", "snapped")
    /\ damaged' = FALSE
    /\ UNCHANGED <<file, journal, snapshot, change, outside>>

TakeSnapshot ==
    /\ Goto("hashed", "snapped")
    /\ snapshot' = file[change.file]
    /\ damaged' = FALSE
    /\ UNCHANGED <<file, journal, change, outside>>

SavePrepared ==
    /\ Goto("snapped", "prepare")
    /\ Save("prepared")
    /\ UNCHANGED <<file, snapshot, damaged, change, outside>>

\* injector.hit and _ensure_running let a stage pass.
PassStage(from, to) ==
    /\ Goto(from, to)
    /\ ~stop
    /\ UNCHANGED <<disk, change, outside>>

SaveWritten ==
    /\ Goto("writing", "write")
    /\ Save("written")
    /\ UNCHANGED <<file, snapshot, damaged, change, outside>>

Replace ==
    /\ Goto("committing", "replaced")
    /\ file' = [file EXCEPT ![change.file] = change.candidate]
    /\ UNCHANGED <<journal, snapshot, damaged, change, outside>>

SaveCommitted ==
    /\ Goto("replaced", "commit")
    /\ Save("committed")
    /\ UNCHANGED <<file, snapshot, damaged, change, outside>>

Verify ==
    /\ Goto("verifying", "verify")
    /\ file[change.file] = change.candidate
    /\ Save("verified")
    /\ UNCHANGED <<file, snapshot, damaged, change, outside>>

Complete ==
    /\ Goto("clearing", "idle")
    /\ journal' = None
    /\ settled' = [settled EXCEPT ![change.file] = change.candidate]
    /\ change' = None
    /\ UNCHANGED <<stop, file, snapshot, damaged, failures>>

Stages == {"prepare", "writing", "write", "committing", "replaced", "commit",
           "verifying", "verify", "cleanup"}

Fail == failures < MaxFailures /\ failures' = failures + 1

\* An error, an injected fault or the stop inside mutate_file's try.
StageFails ==
    /\ pc \in Stages
    /\ pc' = "failing"
    /\ Fail
    /\ UNCHANGED <<stop, settled, disk, change>>

Stopped ==
    /\ pc \in {"prepare", "write", "commit", "verify", "cleanup"}
    /\ stop
    /\ pc' = "failing"
    /\ UNCHANGED <<disk, change, outside>>

\* Mutant: a failed mutation withdraws its checkpoint.
ClearFailure ==
    /\ Goto("failing", "idle")
    /\ journal' = None
    /\ change' = None
    /\ UNCHANGED <<file, snapshot, damaged, outside>>

RecordFailure ==
    /\ Goto("failing", "idle")
    /\ Save("recovery_required")
    /\ change' = None
    /\ UNCHANGED <<file, snapshot, damaged, outside>>

\* The process dies, or an error or an interrupt ends its call outside a try.
Die ==
    /\ pc # "idle"
    /\ Fail
    /\ pc' = "idle"
    /\ change' = None
    /\ UNCHANGED <<stop, settled, disk>>

(***************************************************************************)
(* recover.                                                                *)
(***************************************************************************)
Recover(t) ==
    /\ Goto("idle", "checking")
    /\ journal # None
    /\ journal.intact
    /\ journal.change.task = t
    /\ change' = journal.change
    /\ UNCHANGED <<disk, outside>>

\* Mutant: the journal is cleared before the file is restored.
ClearFirst ==
    /\ Goto("checking", "restoring")
    /\ snapshot = change.baseline
    /\ journal' = None
    /\ UNCHANGED <<file, snapshot, damaged, change, outside>>

\* The snapshot has the baseline's digest, or none when there was no file.
CheckSnapshot ==
    /\ Goto("checking", "restoring")
    /\ snapshot = change.baseline
    /\ UNCHANGED <<disk, change, outside>>

Block ==
    /\ pc' = "idle"
    /\ change' = None
    /\ UNCHANGED <<disk, outside>>

SnapshotRefused ==
    /\ pc = "checking"
    /\ snapshot # change.baseline
    /\ Block

Restore ==
    /\ Goto("restoring", "restored")
    /\ file' = [file EXCEPT ![change.file] = IF change.baseline = Absent THEN Absent ELSE snapshot]
    /\ UNCHANGED <<journal, snapshot, damaged, change, outside>>

Restored == change.baseline = Absent \/ file[change.file] = change.baseline

RestoreRefused == pc = "restored" /\ ~Restored /\ Block

\* Mutant: the restored file is not hashed.
ClearUnverified ==
    /\ Goto("restored", "idle")
    /\ journal' = None
    /\ settled' = [settled EXCEPT ![change.file] = change.baseline]
    /\ change' = None
    /\ UNCHANGED <<stop, file, snapshot, damaged, failures>>

Recovered ==
    /\ Goto("restored", "idle")
    /\ Restored
    /\ journal' = None
    /\ settled' = [settled EXCEPT ![change.file] = change.baseline]
    /\ change' = None
    /\ UNCHANGED <<stop, file, snapshot, damaged, failures>>

(***************************************************************************)
(* The world around.                                                       *)
(***************************************************************************)
TriggerStop == stop' = TRUE /\ UNCHANGED <<disk, pc, change, failures, settled>>
ResetStop == stop' = FALSE /\ UNCHANGED <<disk, pc, change, failures, settled>>

DamageJournal ==
    /\ journal # None
    /\ ~damaged
    /\ damaged' = TRUE
    /\ journal' = [change |-> journal.change, phase |-> journal.phase, intact |-> FALSE]
    /\ UNCHANGED <<file, snapshot, pc, change, outside>>

DamageSnapshot ==
    /\ journal # None
    /\ ~damaged
    /\ damaged' = TRUE
    /\ snapshot' = Garbage
    /\ UNCHANGED <<file, journal, pc, change, outside>>

\* What the process does once it has been called.
Running ==
    \/ TakeSnapshot \/ SavePrepared
    \/ PassStage("prepare", "writing") \/ SaveWritten
    \/ PassStage("write", "committing") \/ Replace \/ SaveCommitted
    \/ PassStage("commit", "verifying") \/ Verify
    \/ PassStage("verify", "cleanup")
    \/ PassStage("cleanup", "clearing") \/ Complete
    \/ Stopped \/ RecordFailure
    \/ CheckSnapshot \/ SnapshotRefused \/ Restore \/ RestoreRefused \/ Recovered

Next ==
    \/ \E t \in Tasks, f \in Files, c \in Payloads : Mutate(t, f, c)
    \/ \E t \in Tasks : Recover(t)
    \/ Running
    \/ StageFails \/ Die
    \/ TriggerStop \/ ResetStop
    \/ DamageJournal \/ DamageSnapshot

Spec == Init /\ [][Next]_vars

(***************************************************************************)
(* Fairness: the process goes on while it lives, and whoever is told that  *)
(* a recovery is required asks for it again until it is done.              *)
(***************************************************************************)
FairSpec ==
    /\ Spec
    /\ WF_vars(Running)
    /\ \A t \in Tasks : WF_vars(Recover(t))

-----------------------------------------------------------------------------
PCs == Stages \cup {"idle", "hashed", "snapped", "clearing", "failing", "checking",
                    "restoring", "restored"}

TypeOK ==
    /\ stop \in BOOLEAN
    /\ file \in [Files -> Contents]
    /\ journal \in Checkpoints \cup {None}
    /\ snapshot \in Contents
    /\ damaged \in BOOLEAN
    /\ pc \in PCs
    /\ change \in Changes \cup {None}
    /\ failures \in 0 .. MaxFailures
    /\ settled \in [Files -> Payloads \cup {Absent}]

(* A file that is not as the last successful call left it is named by a    *)
(* checkpoint that knows what it held: at no moment, whatever dies, is     *)
(* there a change without a way back (fault_recovery.py:146-214).          *)
ChangeIsCovered ==
    \A f \in Files : file[f] # settled[f] =>
        /\ journal # None
        /\ journal.change.file = f
        /\ journal.change.baseline = settled[f]

(* Nothing damaged is taken for good: a damaged snapshot may reach the     *)
(* file, but then the checkpoint stays and recovery is blocked             *)
(* (fault_recovery.py:255-302; docs/roadmap/R16_PLAN.md "no partial/       *)
(* corrupt state is silently accepted as current authority").              *)
NoDamageAccepted == journal = None => \A f \in Files : file[f] # Garbage

(* As long as nothing was damaged the file is old or new, never else.      *)
OldOrNew ==
    ~damaged => \A f \in Files :
        \/ file[f] = settled[f]
        \/ journal # None /\ file[f] = journal.change.candidate

(* A checkpoint that is not damaged is resolved, the stop being on or off, *)
(* however the process died before.                                        *)
RecoveryEnds == journal # None ~> journal = None \/ damaged

(* The whole drill is a sequence of atomic changes.                        *)
pendingBar ==
    IF journal = None THEN None
    ELSE [file |-> journal.change.file, old |-> journal.change.baseline,
          new |-> journal.change.candidate]

Promise == INSTANCE AtomicChange WITH
    Values <- Contents, value <- file, pending <- pendingBar

ImplementsAtomicChange == Promise!Spec
=============================================================================
