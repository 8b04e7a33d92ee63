----------------------------- MODULE Authority -----------------------------
(***************************************************************************)
(* src/kodepoia/backend/authority.py: threads that serve clients call      *)
(* AuthoritativeCommandProcessor.process, which admits a bounded number of *)
(* calls, checks who is calling, and has InMemoryAuthorityStore decide the *)
(* command in one step under its lock.  A client may send any command      *)
(* again, at any time and on several threads; payloads are left out.       *)
(***************************************************************************)
EXTENDS Naturals, Sequences, FiniteSets

CONSTANTS
    Threads,     \* threads that call process
    Commands,    \* every command that is ever sent
    Forbidden,   \* the commands whose actor, session, permission, object or
                 \* type process refuses
    MaxPending,  \* max_pending_commands
    None

Event == [command : Commands, revision : Nat, sequence : Nat]

ASSUME CommandsAssumption ==
    /\ \A c \in Commands : c.sequence \in Nat \ {0} /\ c.expected \in Nat
    /\ Forbidden \subseteq Commands
    /\ None \notin Commands /\ None \notin Event
ASSUME PendingAssumption == IsFiniteSet(Threads) /\ MaxPending \in Nat \ {0}

Sessions == {c.session : c \in Commands}
Targets == {c.target : c \in Commands}
Keys == {c.key : c \in Commands}

VARIABLES
    pending,        \* _pending
    revision,       \* the revision of each snapshot in _states
    last,           \* _session_sequences
    eventSequence,  \* _event_sequence
    events,         \* _events
    results,        \* _idempotency: the event stored for each key
    stage,          \* where each thread is in process
    call,           \* the command it was called with
    answer          \* what it returns or raises

vars == <<pending, revision, last, eventSequence, events, results, stage, call, answer>>
store == <<revision, last, eventSequence, events, results>>

Rejections == {"forbidden", "idempotency_conflict", "out_of_order", "stale_revision"}
Failures == {"backpressure", "clock_failed", "handler_failed"}
Statuses == {"applied", "duplicate"} \cup Rejections \cup Failures
Answer == [status : Statuses, event : Event \cup {None}]

Init ==
    /\ pending = 0
    /\ revision = [o \in Targets |-> 0]
    /\ last = [s \in Sessions |-> 0]
    /\ eventSequence = 0
    /\ events = <<>>
    /\ results = [k \in Keys |-> None]
    /\ stage = [t \in Threads |-> "idle"]
    /\ call = [t \in Threads |-> None]
    /\ answer = [t \in Threads |-> None]

Receive(t, c) ==
    /\ stage[t] = "idle"
    /\ call' = [call EXCEPT ![t] = c]

\* The queue is full: process raises before it counts the call.
Overload(t, c) ==
    /\ Receive(t, c)
    /\ pending >= MaxPending
    /\ answer' = [answer EXCEPT ![t] = [status |-> "backpressure", event |-> None]]
    /\ UNCHANGED <<pending, store, stage>>

\* Mutant: the bound is off by one.
AdmitOneMore(t, c) ==
    /\ Receive(t, c)
    /\ pending <= MaxPending
    /\ pending' = pending + 1
    /\ stage' = [stage EXCEPT ![t] = "admitted"]
    /\ answer' = [answer EXCEPT ![t] = None]
    /\ UNCHANGED store

Admit(t, c) ==
    /\ Receive(t, c)
    /\ pending < MaxPending
    /\ pending' = pending + 1
    /\ stage' = [stage EXCEPT ![t] = "admitted"]
    /\ answer' = [answer EXCEPT ![t] = None]
    /\ UNCHANGED store

\* The call has its answer and leaves the try block.
Conclude(t, status, event) ==
    /\ stage[t] = "admitted"
    /\ stage' = [stage EXCEPT ![t] = "returning"]
    /\ answer' = [answer EXCEPT ![t] = [status |-> status, event |-> event]]
    /\ UNCHANGED <<pending, call>>

Forbid(t) ==
    /\ call[t] \in Forbidden
    /\ Conclude(t, "forbidden", None)
    /\ UNCHANGED store

\* The server's clock raises, or gives no time: the store is not asked.
ClockFails(t) ==
    /\ call[t] \in Commands \ Forbidden
    /\ Conclude(t, "clock_failed", None)
    /\ UNCHANGED store

(***************************************************************************)
(* process_atomic, one step under the store's lock: the first rejection in *)
(* the order of the code, or the command applied as a whole.               *)
(***************************************************************************)
InOrder(c) == c.sequence = last[c.session] + 1
UpToDate(c) == c.expected = revision[c.target]
Fresh(t) == call[t] \in Commands \ Forbidden /\ results[call[t].key] = None

\* Mutant: the digest of the command is not compared.
ReplayAny(t) ==
    /\ call[t] \in Commands \ Forbidden
    /\ results[call[t].key] # None
    /\ Conclude(t, "duplicate", results[call[t].key])
    /\ UNCHANGED store

Replay(t) ==
    /\ call[t] \in Commands \ Forbidden
    /\ results[call[t].key] # None
    /\ IF results[call[t].key].command = call[t]
       THEN Conclude(t, "duplicate", results[call[t].key])
       ELSE Conclude(t, "idempotency_conflict", None)
    /\ UNCHANGED store

RejectOutOfOrder(t) ==
    /\ Fresh(t)
    /\ ~InOrder(call[t])
    /\ Conclude(t, "out_of_order", None)
    /\ UNCHANGED store

RejectStale(t) ==
    /\ Fresh(t)
    /\ InOrder(call[t]) /\ ~UpToDate(call[t])
    /\ Conclude(t, "stale_revision", None)
    /\ UNCHANGED store

\* The handler raises, before anything is changed.
HandlerFails(t) ==
    /\ Fresh(t)
    /\ InOrder(call[t]) /\ UpToDate(call[t])
    /\ Conclude(t, "handler_failed", None)
    /\ UNCHANGED store

\* Mutant: the result is not stored under the idempotency key.
CommitWithoutResult(c, event) ==
    /\ revision' = [revision EXCEPT ![c.target] = event.revision]
    /\ last' = [last EXCEPT ![c.session] = c.sequence]
    /\ eventSequence' = event.sequence
    /\ events' = Append(events, event)
    /\ UNCHANGED results

\* Mutant: the new snapshot is not stored.
CommitWithoutState(c, event) ==
    /\ last' = [last EXCEPT ![c.session] = c.sequence]
    /\ eventSequence' = event.sequence
    /\ events' = Append(events, event)
    /\ results' = [results EXCEPT ![c.key] = event]
    /\ UNCHANGED revision

Commit(c, event) ==
    /\ revision' = [revision EXCEPT ![c.target] = event.revision]
    /\ last' = [last EXCEPT ![c.session] = c.sequence]
    /\ eventSequence' = event.sequence
    /\ events' = Append(events, event)
    /\ results' = [results EXCEPT ![c.key] = event]

NextEvent(c) == [command |-> c, revision |-> revision[c.target] + 1, sequence |-> eventSequence + 1]

Apply(t) ==
    /\ Fresh(t)
    /\ InOrder(call[t]) /\ UpToDate(call[t])
    /\ Commit(call[t], NextEvent(call[t]))
    /\ Conclude(t, "applied", NextEvent(call[t]))

\* finally: the call is no longer counted.
Release(t) ==
    /\ stage[t] = "returning"
    /\ pending' = pending - 1
    /\ stage' = [stage EXCEPT ![t] = "idle"]
    /\ UNCHANGED <<store, call, answer>>

Serve(t) ==
    \/ Forbid(t)
    \/ ClockFails(t)
    \/ Replay(t)
    \/ RejectOutOfOrder(t)
    \/ RejectStale(t)
    \/ HandlerFails(t)
    \/ Apply(t)
    \/ Release(t)

Next ==
    \/ \E t \in Threads, c \in Commands : Overload(t, c) \/ Admit(t, c)
    \/ \E t \in Threads : Serve(t)

Spec == Init /\ [][Next]_vars

-----------------------------------------------------------------------------
(* Properties.                                                             *)

(* Types, and what an answer carries. *)
TypeOK ==
    /\ pending \in Nat
    /\ revision \in [Targets -> Nat]
    /\ last \in [Sessions -> Nat]
    /\ eventSequence \in Nat
    /\ events \in Seq(Event)
    /\ results \in [Keys -> Event \cup {None}]
    /\ stage \in [Threads -> {"idle", "admitted", "returning"}]
    /\ call \in [Threads -> Commands \cup {None}]
    /\ answer \in [Threads -> Answer \cup {None}]

(* _pending is the number of calls inside the try block, so that no path   *)
(* out of process gives back more or less than it took, and the number is  *)
(* within the bound (authority.py:473-516).                                *)
CallsAreCounted ==
    /\ pending = Cardinality({t \in Threads : stage[t] # "idle"})
    /\ pending <= MaxPending

(* Whoever is told that its command was applied, now or before, is shown   *)
(* an event of that very command which the log holds where its sequence    *)
(* number says; and a conflict is only reported when another command was   *)
(* applied under the key (authority.py:361-375, 425-443).                  *)
AnswersAreTrue ==
    \A t \in Threads : answer[t] # None =>
        LET said == answer[t] IN
        /\ said.status \in {"applied", "duplicate"} <=> said.event # None
        /\ said.event # None =>
            /\ said.event.command = call[t]
            /\ said.event.sequence \in 1..Len(events)
            /\ events[said.event.sequence] = said.event
        /\ said.status = "idempotency_conflict" =>
            \E i \in 1..Len(events) :
                /\ events[i].command.key = call[t].key
                /\ events[i].command # call[t]

(* The log is a chain: event i has number i, it was made from the revision *)
(* its sender expected, and among the events of one target the revisions   *)
(* grow by one, so that no two commands replaced the same state            *)
(* (authority.py:383-443).                                                 *)
EventsFormChains ==
    \A i \in 1..Len(events) :
        /\ events[i].sequence = i
        /\ events[i].revision = events[i].command.expected + 1
        /\ events[i].revision > 1 =>
            \E j \in 1..(i - 1) :
                /\ events[j].command.target = events[i].command.target
                /\ events[j].revision = events[i].revision - 1
        /\ \A j \in 1..(i - 1) :
            events[j].command.target = events[i].command.target
                => events[j].revision < events[i].revision

(* "Applied" is said once of each command, by the step that appends its    *)
(* event; a step that answers anything else leaves the log, the revisions  *)
(* and the session's sequence alone, so that a command rejected today can  *)
(* be accepted later (docs/roadmap/R14_6_DESIGN.md, "Out-of-order and      *)
(* stale-revision rejects do not consume the expected next sequence").     *)
OnlyApplyingChanges ==
    [][ /\ \A t \in Threads :
            answer'[t] # answer[t] /\ answer'[t] # None =>
                (answer'[t].status = "applied" <=> events' = Append(events, answer'[t].event))
        /\ events' = events => store' = store ]_vars

(* The code's five counters and tables together implement one ledger.      *)
Ledger == INSTANCE CommandLedger WITH log <- [i \in 1..Len(events) |-> events[i].command]
ImplementsLedger == Ledger!Spec
=============================================================================
