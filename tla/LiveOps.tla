------------------------------ MODULE LiveOps -------------------------------
(***************************************************************************)
(* One registered campaign of InMemoryLiveOpsService                       *)
(* (backend/liveops.py): its approvals, its activations and its runtime    *)
(* record.  Its dependencies and season are registered and cannot be       *)
(* rebound, so a preview tells apart only the state the clock calls for    *)
(* and the state the campaign is in.                                       *)
(*                                                                         *)
(* approve and the last part of activate hold the service's lock.  Every   *)
(* other operation reads the runtime record, decides, reads the record     *)
(* again in _transition and replaces it, without the lock: each of these   *)
(* is a step here.                                                         *)
(***************************************************************************)
EXTENDS Naturals

CONSTANTS
    Callers,         \* threads that call the service
    ActivationIds,
    Capacity,        \* bound of the audit (also of the trace and the activations)
    None

ASSUME CapacityAssumption == Capacity \in Nat

VARIABLES
    now,             \* server clock: before the window, in it, after it
    approvals,       \* the previews approved
    activations,     \* ids activated
    runtime,         \* [state, activation], or None
    audit,           \* number of audit records
    pc,
    call             \* what each call has read and decided

vars == <<now, approvals, activations, runtime, audit, pc, call>>

Opening == 1
Ending == 2
Live == {"scheduled", "active", "paused"}
Closed == {"expired", "rolled_back", "killed"}
Operations == {"advance", "pause", "resume", "rollback", "kill"}

HasRoom == audit < Capacity
State == IF runtime = None THEN "draft" ELSE runtime.state
Expected(t) ==
    IF t < Opening THEN "scheduled" ELSE IF t < Ending THEN "active" ELSE "expired"
Preview == [expected |-> Expected(now), current |-> State]

Init ==
    /\ now = 0
    /\ approvals = {} /\ activations = {}
    /\ runtime = None
    /\ audit = 0
    /\ pc = [c \in Callers |-> "idle"]
    /\ call = [c \in Callers |-> None]

\* Times past the window's end are not told apart.
Tick == now' = (IF now < Ending THEN now + 1 ELSE now)
        /\ UNCHANGED <<approvals, activations, runtime, audit, pc, call>>

\* An approval of the campaign's present preview.  Approved twice, it is
\* the approval it was: under its id it is answered again, and under
\* another it allows nothing more.
Approve ==
    /\ HasRoom
    /\ Preview \notin approvals
    /\ approvals' = approvals \union {Preview}
    /\ audit' = audit + 1
    /\ UNCHANGED <<now, activations, runtime, pc, call>>

Goto(c, where, what) ==
    pc' = [pc EXCEPT ![c] = where] /\ call' = [call EXCEPT ![c] = what]

Return(c) == Goto(c, "idle", None)

-----------------------------------------------------------------------------
(* activate_campaign: look-up of the id under the lock, validation of the  *)
(* approval it was called with, clock, commit under the lock.  An id that  *)
(* is activated already is answered with its record.                       *)
LookUp(c, i) ==
    /\ pc[c] = "idle"
    /\ i \notin activations
    /\ \E preview \in approvals :
         Goto(c, "looked up", [activation |-> i, approved |-> preview])
    /\ UNCHANGED <<now, approvals, activations, runtime, audit>>

\* An approval counts while the campaign is as it was previewed.
Validate(c) ==
    /\ pc[c] = "looked up"
    /\ IF Preview = call[c].approved
         THEN Goto(c, "validated", [activation |-> call[c].activation])
         ELSE Return(c)
    /\ UNCHANGED <<now, approvals, activations, runtime, audit>>

ReadClock(c) ==
    /\ pc[c] = "validated"
    /\ IF now < Ending
         THEN Goto(c, "commit", [activation |-> call[c].activation, state |-> Expected(now)])
         ELSE Return(c)
    /\ UNCHANGED <<now, approvals, activations, runtime, audit>>

MayReplace(i) == State \notin Live \/ runtime.activation = i

\* The id is not looked up again.
Commit(c) ==
    /\ pc[c] = "commit"
    /\ IF HasRoom /\ MayReplace(call[c].activation)
         THEN /\ activations' = activations \union {call[c].activation}
              /\ runtime' = call[c]
              /\ audit' = audit + 1
         ELSE UNCHANGED <<activations, runtime, audit>>
    /\ Return(c)
    /\ UNCHANGED <<now, approvals>>

-----------------------------------------------------------------------------
(* advance, pause, resume, rollback, kill.                                 *)

Look(c, op) ==
    /\ pc[c] = "idle"
    /\ runtime # None
    /\ Goto(c, "decide", [op |-> op, seen |-> runtime.state])
    /\ UNCHANGED <<now, approvals, activations, runtime, audit>>

\* Mutant: a paused campaign is left alone, its end included.
AdvancedUnlessPaused(s, t) ==
    IF s \in Closed \union {"paused"} THEN {}
    ELSE IF t >= Ending THEN {"expired"}
    ELSE {x \in {"active"} : s = "scheduled" /\ t >= Opening}

Advanced(s, t) ==
    IF s \in Closed THEN {}
    ELSE IF t >= Ending THEN {"expired"}
    ELSE {x \in {"active"} : s = "scheduled" /\ t >= Opening}

\* The state op moves to, having read state s and time t; none when op
\* returns the record it read or refuses.
Target(op, s, t) ==
    CASE op = "advance"  -> Advanced(s, t)
      [] op = "pause"    -> {x \in {"paused"} : s \in {"scheduled", "active"} /\ t < Ending}
      [] op = "resume"   -> {x \in {Expected(t)} : s = "paused"}
      [] op = "rollback" -> {x \in {"rolled_back"} : s \notin {"rolled_back", "killed"}}
      [] op = "kill"     -> {x \in {"killed"} : s # "killed"}

Decide(c) ==
    /\ pc[c] = "decide"
    /\ LET target == Target(call[c].op, call[c].seen, now)
       IN  \/ target = {} /\ Return(c)
           \/ \E s \in target : Goto(c, "read", [state |-> s])
    /\ UNCHANGED <<now, approvals, activations, runtime, audit>>

\* _transition reads the record once more, for its activation only.
Read(c) ==
    /\ pc[c] = "read"
    /\ IF HasRoom
         THEN Goto(c, "write", [state |-> call[c].state, activation |-> runtime.activation])
         ELSE Return(c)
    /\ UNCHANGED <<now, approvals, activations, runtime, audit>>

\* Two calls may both have seen the last room: the second one's change goes
\* without a record.
Write(c) ==
    /\ pc[c] = "write"
    /\ runtime' = call[c]
    /\ audit' = IF HasRoom THEN audit + 1 ELSE audit
    /\ Return(c)
    /\ UNCHANGED <<now, approvals, activations>>

Proceed(c) ==
    Validate(c) \/ ReadClock(c) \/ Commit(c) \/ Decide(c) \/ Read(c) \/ Write(c)

Next ==
    \/ Tick
    \/ Approve
    \/ \E c \in Callers :
         \/ \E i \in ActivationIds : LookUp(c, i)
         \/ \E op \in Operations : Look(c, op)
         \/ Proceed(c)

Spec == Init /\ [][Next]_vars

(* Time passes, a call that began goes on, and a scheduler keeps calling   *)
(* advance.                                                                *)
FairSpec ==
    /\ Spec
    /\ WF_vars(Tick)
    /\ \A c \in Callers : WF_vars(Proceed(c))
    /\ SF_vars(\E c \in Callers : Look(c, "advance"))

-----------------------------------------------------------------------------
(* A campaign whose window is over is closed for good, paused or not, and  *)
(* whatever calls decided before the end write after it; a full audit      *)
(* stops the scheduler too.                                                *)
WindowCloses == <>[](now = Ending /\ (State \notin Live \/ ~HasRoom))

(* tests/test_r14_14_liveops.py:477 "test_kill_is_explicit_terminal_state" *)
(* and R14_14_ACCEPTANCE.md item 10 "kill_terminal_idempotent": what was   *)
(* activated and killed stays killed.                                      *)
KillIsTerminal ==
    [][State = "killed" =>
         runtime'.state = "killed" \/ runtime'.activation # runtime.activation]_vars
=============================================================================
