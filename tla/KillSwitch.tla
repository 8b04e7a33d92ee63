----------------------------- MODULE KillSwitch -----------------------------
(***************************************************************************)
(* src/kodepoia/core/kill_switch.py together with its clients in           *)
(* src/kodepoia/core/sandbox.py: the threads that launch processes under   *)
(* the sandbox, the threads that pull the emergency stop, and the threads  *)
(* that reset it.  The grain is the one Python gives: a critical section   *)
(* of KillSwitch._lock is split wherever another thread can act without    *)
(* that lock, and _triggered is an Event that trigger() sets without it.   *)
(***************************************************************************)
EXTENDS Naturals, FiniteSets

CONSTANTS
    Runners,        \* threads inside ProcessSandbox.run / run_process_group
    Managers,       \* threads that own a ManagedProcess (spawn_piped, ...)
    Stoppers,       \* threads that call KillSwitch.trigger
    Resetters,      \* threads that call KillSwitch.reset
    Procs,          \* operating-system processes, each launched at most once
    Unsignalable,   \* processes on which terminate and kill raise OSError
    None            \* no thread, no process

Launchers == Runners \cup Managers
Threads == Launchers \cup Stoppers \cup Resetters

ASSUME ThreadsAssumption ==
    /\ Runners \cap Managers = {}
    /\ Launchers \cap (Stoppers \cup Resetters) = {}
    /\ Stoppers \cap Resetters = {}
    /\ None \notin Threads

ASSUME ProcsAssumption ==
    /\ Unsignalable \subseteq Procs
    /\ None \notin Procs

VARIABLES
    triggered,   \* KillSwitch._triggered
    processes,   \* KillSwitch._processes
    lock,        \* the thread that holds KillSwitch._lock, or None
    os,          \* what poll() would say of each process
    pc,          \* where each thread is
    target,      \* the process each thread is working on, or None
    pending,     \* the rest of trigger()'s snapshot, for each stopper
    result,      \* how the caller was told its run ended
    swept,       \* history: signalled by trigger() while the flag was set
    held         \* processes whose pipes a child of theirs has open as well

vars == <<triggered, processes, lock, os, pc, target, pending, result, swept, held>>

Dead == {"exit_ok", "exit_bad"}
Results == {"none", "ok", "failed", "cancelled", "timed_out", "closed", "refused"}

LauncherPC == {"idle", "validated", "spawned", "admitting", "refuse_term",
               "refuse_kill", "refused", "running", "stop_term", "stop_kill",
               "reaping", "last_kill", "leaving"}
StopperPC == {"idle", "flagged", "sweeping", "sweep_term", "sweep_kill"}
ResetterPC == {"idle", "clearing"}

Alive(p) == os[p] = "alive"

Init ==
    /\ triggered = FALSE
    /\ processes = {}
    /\ lock = None
    /\ os = [p \in Procs |-> "unborn"]
    /\ pc = [t \in Threads |-> "idle"]
    /\ target = [t \in Threads |-> None]
    /\ pending = [s \in Stoppers |-> {}]
    /\ result = [p \in Procs |-> "none"]
    /\ swept = {} /\ held = {}

Goto(t, label) == pc' = [pc EXCEPT ![t] = label]

(***************************************************************************)
(* KillSwitch._stop_process(target[t]), called by the sweep of trigger, by  *)
(* a refused registration, by an expired run and by ManagedProcess.close.  *)
(* The process may exit between any two of its steps.                      *)
(***************************************************************************)
StopTerminate(t, here, kill, done) ==
    /\ pc[t] = here
    /\ IF Alive(target[t]) /\ target[t] \notin Unsignalable
         THEN Goto(t, kill)
         ELSE Goto(t, done)

StopKill(t, here, done) ==
    /\ pc[t] = here
    /\ os' = IF Alive(target[t]) THEN [os EXCEPT ![target[t]] = "exit_bad"]
                                 ELSE os
    /\ Goto(t, done)

(***************************************************************************)
(* Launching: _validate_launch, Popen, then KillSwitch.register.           *)
(***************************************************************************)
ValidateLaunch(l) ==
    /\ pc[l] = "idle"
    /\ ~triggered
    /\ Goto(l, "validated")
    /\ UNCHANGED <<triggered, processes, lock, os, target, pending, result, swept, held>>

Popen(l, p) ==
    /\ pc[l] = "validated"
    /\ os[p] = "unborn"
    /\ os' = [os EXCEPT ![p] = "alive"]
    /\ target' = [target EXCEPT ![l] = p]
    /\ Goto(l, "spawned")
    /\ UNCHANGED <<triggered, processes, lock, pending, result, swept, held>>

\* register, up to its test of the flag: it keeps the lock.
RegisterCheck(l) ==
    /\ pc[l] = "spawned"
    /\ lock = None
    /\ lock' = l
    /\ Goto(l, IF triggered THEN "refuse_term" ELSE "admitting")
    /\ UNCHANGED <<triggered, processes, os, target, pending, result, swept, held>>

RegisterAdd(l) ==
    /\ pc[l] = "admitting"
    /\ processes' = processes \cup {target[l]}
    /\ lock' = None
    /\ Goto(l, "running")
    /\ UNCHANGED <<triggered, os, target, pending, result, swept, held>>

\* Mutant: a refused process is left to itself.
RefuseWithoutStopping(l) ==
    /\ pc[l] = "refuse_term"
    /\ Goto(l, "refused")
    /\ UNCHANGED <<triggered, processes, lock, os, target, pending, result, swept, held>>

RefuseTerminate(l) ==
    /\ StopTerminate(l, "refuse_term", "refuse_kill", "refused")
    /\ UNCHANGED <<triggered, processes, lock, os, target, pending, result, swept, held>>

RefuseKill(l) ==
    /\ StopKill(l, "refuse_kill", "refused")
    /\ UNCHANGED <<triggered, processes, lock, target, pending, result, swept, held>>

\* The RuntimeError leaves run() before its try block: nothing to unregister.
RefuseRaise(l) ==
    /\ pc[l] = "refused"
    /\ lock' = None
    /\ result' = [result EXCEPT ![target[l]] = "refused"]
    /\ target' = [target EXCEPT ![l] = None]
    /\ Goto(l, "idle")
    /\ UNCHANGED <<triggered, processes, os, pending, swept, held>>

(***************************************************************************)
(* A registered process, until its owner unregisters it.                   *)
(***************************************************************************)
\* communicate() returns when the process is dead and nobody has its pipes open.
Communicated(p) == os[p] \in Dead /\ p \notin held

\* communicate() returned: run() reads the flag before it unregisters.
RunEnds(l) ==
    /\ l \in Runners
    /\ pc[l] = "running"
    /\ Communicated(target[l])
    /\ result' = [result EXCEPT ![target[l]] =
                    IF os[target[l]] = "exit_ok" THEN "ok"
                    ELSE IF triggered THEN "cancelled" ELSE "failed"]
    /\ Goto(l, "leaving")
    /\ UNCHANGED <<triggered, processes, lock, os, target, pending, swept, held>>

\* communicate() timed out, or the owner closes its ManagedProcess.
RunExpires(l) ==
    /\ pc[l] = "running"
    /\ Goto(l, "stop_term")
    /\ UNCHANGED <<triggered, processes, lock, os, target, pending, result, swept, held>>

\* Mutant: an expired run is terminated and never killed.
OwnerTerminateOnly(l) ==
    /\ StopTerminate(l, "stop_term", "reaping", "reaping")
    /\ UNCHANGED <<triggered, processes, lock, os, target, pending, result, swept, held>>

OwnerTerminate(l) ==
    /\ StopTerminate(l, "stop_term", "stop_kill", "reaping")
    /\ UNCHANGED <<triggered, processes, lock, os, target, pending, result, swept, held>>

OwnerKill(l) ==
    /\ StopKill(l, "stop_kill", "reaping")
    /\ UNCHANGED <<triggered, processes, lock, target, pending, result, swept, held>>

\* The second communicate() returns, or close()'s wait sees the process end.
Reap(l) ==
    /\ pc[l] = "reaping"
    /\ IF l \in Runners THEN Communicated(target[l]) ELSE os[target[l]] \in Dead
    /\ result' = [result EXCEPT ![target[l]] = IF l \in Runners THEN "timed_out"
                                                               ELSE "closed"]
    /\ Goto(l, "leaving")
    /\ UNCHANGED <<triggered, processes, lock, os, target, pending, swept, held>>

\* close() waits two seconds only; run() waits for ever.
CloseGivesUp(l) ==
    /\ l \in Managers
    /\ pc[l] = "reaping"
    /\ Alive(target[l])
    /\ Goto(l, "last_kill")
    /\ UNCHANGED <<triggered, processes, lock, os, target, pending, result, swept, held>>

\* An OSError of this kill, too, ends in the finally clause: unregister.
CloseKill(l) ==
    /\ pc[l] = "last_kill"
    /\ os' = IF Alive(target[l]) /\ target[l] \notin Unsignalable
               THEN [os EXCEPT ![target[l]] = "exit_bad"]
               ELSE os
    /\ result' = [result EXCEPT ![target[l]] = "closed"]
    /\ Goto(l, "leaving")
    /\ UNCHANGED <<triggered, processes, lock, target, pending, swept, held>>

Unregister(l) ==
    /\ pc[l] = "leaving"
    /\ lock = None
    /\ processes' = processes \ {target[l]}
    /\ target' = [target EXCEPT ![l] = None]
    /\ Goto(l, "idle")
    /\ UNCHANGED <<triggered, lock, os, pending, result, swept, held>>

(***************************************************************************)
(* KillSwitch.trigger: the flag first and without the lock, then the       *)
(* snapshot under the lock, then one _stop_process per process.            *)
(***************************************************************************)
TriggerSet(s) ==
    /\ pc[s] = "idle"
    /\ triggered' = TRUE
    /\ Goto(s, "flagged")
    /\ UNCHANGED <<processes, lock, os, target, pending, result, swept, held>>

\* Mutant: the snapshot is taken without the lock.
TriggerSnapshotUnlocked(s) ==
    /\ pc[s] = "flagged"
    /\ pending' = [pending EXCEPT ![s] = processes]
    /\ Goto(s, "sweeping")
    /\ UNCHANGED <<triggered, processes, lock, os, target, result, swept, held>>

TriggerSnapshot(s) ==
    /\ pc[s] = "flagged"
    /\ lock = None
    /\ pending' = [pending EXCEPT ![s] = processes]
    /\ Goto(s, "sweeping")
    /\ UNCHANGED <<triggered, processes, lock, os, target, result, swept, held>>

TriggerNext(s, p) ==
    /\ pc[s] = "sweeping"
    /\ p \in pending[s]
    /\ pending' = [pending EXCEPT ![s] = @ \ {p}]
    /\ target' = [target EXCEPT ![s] = p]
    /\ Goto(s, "sweep_term")
    /\ UNCHANGED <<triggered, processes, lock, os, result, swept, held>>

\* Mutant: the sweep terminates and never kills.
SweepTerminateOnly(s) ==
    /\ StopTerminate(s, "sweep_term", "sweeping", "sweeping")
    /\ UNCHANGED <<triggered, processes, lock, os, target, pending, result, swept, held>>

SweepTerminate(s) ==
    /\ StopTerminate(s, "sweep_term", "sweep_kill", "sweeping")
    /\ swept' = IF triggered /\ Alive(target[s]) /\ target[s] \notin Unsignalable
                  THEN swept \cup {target[s]}
                  ELSE swept
    /\ UNCHANGED <<triggered, processes, lock, os, target, pending, result, held>>

SweepKill(s) ==
    /\ StopKill(s, "sweep_kill", "sweeping")
    /\ UNCHANGED <<triggered, processes, lock, target, pending, result, swept, held>>

TriggerReturn(s) ==
    /\ pc[s] = "sweeping"
    /\ pending[s] = {}
    /\ target' = [target EXCEPT ![s] = None]
    /\ Goto(s, "idle")
    /\ UNCHANGED <<triggered, processes, lock, os, pending, result, swept, held>>

(***************************************************************************)
(* KillSwitch.reset: it raises, and changes nothing, while a process is    *)
(* registered; the flag may be set again before it is cleared.             *)
(***************************************************************************)
\* Mutants: reset with processes registered; reset that lets the lock go
\* between its test and the clearing of the flag.
ResetUnchecked(r) ==
    /\ pc[r] = "idle"
    /\ lock = None
    /\ lock' = r
    /\ Goto(r, "clearing")
    /\ UNCHANGED <<triggered, processes, os, target, pending, result, swept, held>>

ResetCheckUnlocked(r) ==
    /\ pc[r] = "idle"
    /\ lock = None
    /\ processes = {}
    /\ Goto(r, "clearing")
    /\ UNCHANGED <<triggered, processes, lock, os, target, pending, result, swept, held>>

ResetCheck(r) ==
    /\ pc[r] = "idle"
    /\ lock = None
    /\ processes = {}
    /\ lock' = r
    /\ Goto(r, "clearing")
    /\ UNCHANGED <<triggered, processes, os, target, pending, result, swept, held>>

ResetClear(r) ==
    /\ pc[r] = "clearing"
    /\ triggered' = FALSE
    /\ lock' = None
    /\ Goto(r, "idle")
    /\ UNCHANGED <<processes, os, target, pending, result, swept, held>>

\* The process ends by itself, or because of a SIGTERM it was sent.
Exit(p, status) ==
    /\ Alive(p)
    /\ os' = [os EXCEPT ![p] = status]
    /\ UNCHANGED <<triggered, processes, lock, pc, target, pending, result, swept, held>>

\* The process of a run starts a child that inherits its pipes and may outlive
\* it; close() does not wait for the pipes of a ManagedProcess.
Inherit(p) ==
    /\ Alive(p) /\ \E r \in Runners : target[r] = p
    /\ held' = held \cup {p}
    /\ UNCHANGED <<triggered, processes, lock, os, pc, target, pending, result, swept>>

\* The last such child ends, of itself or by a signal to its group.
ClosePipes(p) ==
    /\ p \in held
    /\ held' = held \ {p}
    /\ UNCHANGED <<triggered, processes, lock, os, pc, target, pending, result, swept>>

Launch(l) ==
    \/ ValidateLaunch(l)
    \/ \E p \in Procs : Popen(l, p)
    \/ RegisterCheck(l) \/ RegisterAdd(l)
    \/ RefuseTerminate(l) \/ RefuseKill(l) \/ RefuseRaise(l)

Supervise(l) ==
    \/ RunEnds(l) \/ RunExpires(l)
    \/ OwnerTerminate(l) \/ OwnerKill(l) \/ Reap(l)
    \/ CloseGivesUp(l) \/ CloseKill(l)
    \/ Unregister(l)

Trigger(s) ==
    \/ TriggerSet(s) \/ TriggerSnapshot(s)
    \/ \E p \in Procs : TriggerNext(s, p)
    \/ SweepTerminate(s) \/ SweepKill(s) \/ TriggerReturn(s)

Reset(r) == ResetCheck(r) \/ ResetClear(r)

Next ==
    \/ \E l \in Launchers : Launch(l) \/ Supervise(l)
    \/ \E s \in Stoppers : Trigger(s)
    \/ \E r \in Resetters : Reset(r)
    \/ \E p \in Procs, status \in Dead : Exit(p, status)
    \/ \E p \in Procs : Inherit(p) \/ ClosePipes(p)

Spec == Init /\ [][Next]_vars

(***************************************************************************)
(* Fairness: a thread inside a call keeps running, and a fair lock does    *)
(* not starve it.  Nothing forces a launch, a trigger, a reset, a timeout, *)
(* the exit of a process or of a child that has its pipes.                 *)
(***************************************************************************)
LaunchProceeds(l) ==
    \/ RegisterAdd(l)
    \/ RefuseTerminate(l) \/ RefuseKill(l) \/ RefuseRaise(l)
    \/ RunEnds(l) \/ OwnerTerminate(l) \/ OwnerKill(l) \/ Reap(l)
    \/ CloseGivesUp(l) \/ CloseKill(l)

SweepProceeds(s) ==
    \/ \E p \in Procs : TriggerNext(s, p)
    \/ SweepTerminate(s) \/ SweepKill(s) \/ TriggerReturn(s)

Fairness ==
    /\ \A l \in Launchers :
         /\ WF_vars(LaunchProceeds(l))
         /\ SF_vars(RegisterCheck(l)) /\ SF_vars(Unregister(l))
    /\ \A s \in Stoppers : WF_vars(SweepProceeds(s)) /\ SF_vars(TriggerSnapshot(s))
    /\ \A r \in Resetters : WF_vars(ResetClear(r))

FairSpec == Spec /\ Fairness

-----------------------------------------------------------------------------
TypeOK ==
    /\ triggered \in BOOLEAN
    /\ processes \subseteq Procs
    /\ lock \in Threads \cup {None}
    /\ os \in [Procs -> Dead \cup {"unborn", "alive"}]
    /\ pc \in [Threads -> LauncherPC \cup StopperPC \cup ResetterPC]
    /\ \A l \in Launchers : pc[l] \in LauncherPC
    /\ \A s \in Stoppers : pc[s] \in StopperPC
    /\ \A r \in Resetters : pc[r] \in ResetterPC
    /\ target \in [Threads -> Procs \cup {None}]
    /\ pending \in [Stoppers -> SUBSET Procs]
    /\ result \in [Procs -> Results]
    /\ swept \subseteq Procs /\ held \subseteq Procs

\* Some trigger() call still has p to stop, or its snapshot still to take.
SweepOwed(p) ==
    \E s \in Stoppers :
        \/ pc[s] = "flagged"
        \/ p \in pending[s]
        \/ pc[s] \in {"sweep_term", "sweep_kill"} /\ target[s] = p

(* While the switch is triggered, a live registered process is one that    *)
(* some trigger() call in progress is still going to stop: no registration *)
(* slips between the flag and the snapshot (kill_switch.py:35-56).         *)
NoProcessSlipsThrough ==
    \A p \in processes \ Unsignalable :
        triggered /\ Alive(p) => SweepOwed(p)

\* l launched p and has not yet registered it or been refused.
InLaunch(l, p) ==
    /\ target[l] = p
    /\ pc[l] \in {"spawned", "admitting", "refuse_term", "refuse_kill", "refused"}

(* A live process is always known to the switch, or in the hands of the    *)
(* launcher that is registering it: no path of run() or close() forgets    *)
(* one that signals can end (sandbox.py:71-87, 269-279, 310-320).          *)
NoForgottenProcess ==
    \A p \in Procs \ Unsignalable :
        Alive(p) => p \in processes \/ \E l \in Launchers : InLaunch(l, p)

(* A run whose process the emergency stop ended is never reported to its   *)
(* caller as an ordinary failure: the flag cannot be reset between the     *)
(* signal and the caller's reading of it (sandbox.py:317-320).             *)
SweptRunIsNotAFailure == \A p \in swept : result[p] # "failed"

(* A completed reset leaves no protected process running: the step that    *)
(* clears the flag finds nothing registered (kill_switch.py:58-62).        *)
ResetOnlyWhenIdle ==
    [][triggered /\ ~triggered' => processes' = {}]_vars

TriggerStopsEverything ==
    \A p \in Procs \ Unsignalable :
        triggered /\ p \in processes ~> os[p] \in Dead

LaunchIsSettled ==
    \A p \in Procs \ Unsignalable :
        (\E l \in Launchers : InLaunch(l, p)) ~> (p \in processes \/ os[p] \in Dead)

(* Once the switch is triggered, every registered process that signals can *)
(* end does end, whatever the other threads do; and a process launched     *)
(* just as the switch fires does not survive as an unregistered child: it  *)
(* is stopped, or it becomes registered (kill_switch.py:35-56).            *)
NothingSurvivesTheStop == TriggerStopsEverything /\ LaunchIsSettled

(* A caller of ProcessSandbox.run is not left waiting by an emergency stop *)
(* or by a timeout: its process ends and the call comes back, unless a     *)
(* child of the process keeps the pipes open for ever, which communicate() *)
(* waits for without a timeout (sandbox.py:312-316).                       *)
RunComesBack ==
    \A r \in Runners : \A p \in Procs \ Unsignalable :
        (/\ target[r] = p
         /\ \/ triggered /\ pc[r] = "running"
            \/ pc[r] = "stop_term") ~> (pc[r] = "idle" \/ [](p \in held))

(***************************************************************************)
(* The abstract specification: a process is admitted from the moment its   *)
(* launcher, holding the lock, has seen the flag clear.                    *)
(***************************************************************************)
admittedBar ==
    processes \cup {target[l] : l \in {k \in Launchers : pc[k] = "admitting"}}

Promise == INSTANCE EmergencyStop WITH stopped <- triggered, admitted <- admittedBar

(* The switch with its lock, snapshot and sweep implements EmergencyStop.  *)
ImplementsEmergencyStop == Promise!Spec
=============================================================================
