---------------------------- MODULE EventPipeline ----------------------------
(***************************************************************************)
(* LocalEventStore and InMemoryEventPipelineService of                     *)
(* src/kodepoia/backend/event_pipeline.py, for one stream of one           *)
(* environment: streams share nothing but capacities.                      *)
(*                                                                         *)
(* The store works under a lock, one step for each call.  The service has  *)
(* a lock and takes it in register_consumer only, so acknowledge,          *)
(* record_delivery_failure and prune_retention are steps between which     *)
(* other threads run: each reads shared state first and writes later.      *)
(*                                                                         *)
(* A call that is refused changes nothing and is no step.  Validation,     *)
(* permissions, times, digests, the export bridges and the trace are left  *)
(* out.                                                                    *)
(***************************************************************************)
EXTENDS Naturals, Sequences, FiniteSets

CONSTANTS
    Envelopes,       \* the events producers send, again and again, in any order
    Source,          \* where each event comes from
    SourceSequence,  \* and its place there
    SchemaOf,        \* the schema each event is of
    Consumers,
    Poison,          \* the events no consumer manages to handle
    Workers,         \* the threads that use the service
    Replays,         \* replay requests: identifiers
    ReplayRange,     \* and the first and last sequence each asks for
    MaxSchemas,      \* max_schemas
    MaxEvents,       \* max_events
    MaxAttempts,     \* max_delivery_attempts
    MaxDeadLetters,  \* max_dead_letters
    MaxReplayEvents, \* max_replay_events
    MaxRestarts,     \* bound: the service is started again this often
    None

ASSUME EventAssumption ==
    /\ IsFiniteSet(Envelopes)
    /\ SourceSequence \in [Envelopes -> Nat \ {0}]
    /\ DOMAIN Source = Envelopes
    /\ DOMAIN SchemaOf = Envelopes
    /\ MaxSchemas \in Nat /\ MaxEvents \in Nat /\ MaxDeadLetters \in Nat
    /\ MaxReplayEvents \in Nat
    /\ MaxAttempts \in Nat \ {0} /\ MaxRestarts \in Nat
    /\ ReplayRange \in [Replays -> Nat \X Nat]
    /\ None \notin Nat

VARIABLES
    schemas,     \* the schemas registered
    stream,      \* every event appended, by stream sequence: _streams, _next_sequence, _event_identity
    floor,       \* the events up to this one have been pruned
    checkpoint,  \* _checkpoints; None when the consumer is not registered
    acked,       \* _acked_ids: the sequences acknowledged, by consumer
    attempts,    \* _attempts: by consumer and sequence, 0 when absent
    deadLetters, \* _dead_letters: consumer and sequence
    replays,     \* _replays: the sequences each replay returned, None when absent
    call,        \* what each worker is doing
    saved,       \* the checkpoint each consumer keeps for itself, None at first
    restarts,
    handled,     \* history: the sequences each consumer has handled or given up
    failures     \* history: failed deliveries reported, by consumer and sequence

store == <<schemas, stream, floor>>
tables == <<checkpoint, acked, attempts, deadLetters>>
history == <<handled, failures>>
vars == <<store, tables, replays, call, saved, restarts, history>>

Positions == 1..Cardinality(Envelopes)
Idle == [at |-> "idle"]
Registered == {c \in Consumers : checkpoint[c] # None}
Retained == {n \in DOMAIN stream : n > floor}

\* A table with an entry v for every consumer and position.
Entries(v) == [c \in Consumers |-> [n \in Positions |-> v]]

Init ==
    /\ schemas = {} /\ stream = <<>> /\ floor = 0
    /\ checkpoint = [c \in Consumers |-> None]
    /\ acked = [c \in Consumers |-> {}]
    /\ attempts = Entries(0)
    /\ deadLetters = {}
    /\ replays = [r \in Replays |-> None]
    /\ call = [w \in Workers |-> Idle]
    /\ saved = [c \in Consumers |-> None]
    /\ restarts = 0
    /\ handled = [c \in Consumers |-> {}]
    /\ failures = Entries(0)

-----------------------------------------------------------------------------
(* The store.                                                              *)

\* _event_identity outlives pruning.
Known(e) == \E n \in DOMAIN stream : stream[n] = e

InOrder(e) ==
    \A n \in DOMAIN stream :
        Source[stream[n]] = Source[e] => SourceSequence[stream[n]] < SourceSequence[e]

\* register_schema.
RegisterSchema(s) ==
    /\ s \notin schemas /\ Cardinality(schemas) < MaxSchemas
    /\ schemas' = schemas \cup {s}
    /\ UNCHANGED <<stream, floor, tables, replays, call, saved, restarts, history>>

\* append.
AppendEvent(e) ==
    /\ SchemaOf[e] \in schemas
    /\ ~Known(e) /\ InOrder(e)
    /\ Cardinality(Retained) < MaxEvents
    /\ stream' = Append(stream, e)
    /\ UNCHANGED <<schemas, floor, tables, replays, call, saved, restarts, history>>

\* prune_before.
Prune(before) ==
    /\ floor' = IF before - 1 <= floor THEN floor
                ELSE IF before - 1 <= Len(stream) THEN before - 1 ELSE Len(stream)
    /\ UNCHANGED <<schemas, stream>>

-----------------------------------------------------------------------------
(* Registration and restart.                                               *)

\* register_consumer without a checkpoint.
RegisterFresh(c) ==
    /\ checkpoint[c] = None
    /\ checkpoint' = [checkpoint EXCEPT ![c] = 0]
    /\ UNCHANGED <<store, acked, attempts, deadLetters, replays, call, saved, restarts, history>>

\* register_consumer with the checkpoint the consumer kept.  Whether that is
\* too old is asked of the first event retained, if there is one.
Restorable(n) ==
    /\ n <= Len(stream)
    /\ Retained # {} => n >= floor

RegisterRestored(c) ==
    /\ checkpoint[c] = None /\ saved[c] # None
    /\ Restorable(saved[c])
    /\ checkpoint' = [checkpoint EXCEPT ![c] = saved[c]]
    /\ UNCHANGED <<store, acked, attempts, deadLetters, replays, call, saved, restarts, history>>

\* A consumer keeps a checkpoint it was given, or not.
Save(c) ==
    /\ c \in Registered /\ saved[c] # checkpoint[c]
    /\ saved' = [saved EXCEPT ![c] = checkpoint[c]]
    /\ UNCHANGED <<store, tables, replays, call, restarts, history>>

\* A new service over the same store, once the calls to the old one are over.
Restart ==
    /\ restarts < MaxRestarts
    /\ \A w \in Workers : call[w] = Idle
    /\ restarts' = restarts + 1
    /\ checkpoint' = [c \in Consumers |-> None]
    /\ acked' = [c \in Consumers |-> {}]
    /\ attempts' = Entries(0)
    /\ deadLetters' = {}
    /\ replays' = [r \in Replays |-> None]
    /\ UNCHANGED <<store, call, saved, history>>

-----------------------------------------------------------------------------
(* Delivery.  A worker polls, works on the next event, and reports.        *)

\* Mutant: an acknowledgement may run ahead of the checkpoint.
InTurnOrLater(c, n) == n \in Retained /\ n > checkpoint[c]

\* The checks acknowledge and record_delivery_failure share.
InTurn(c, n) == n \in Retained /\ n = checkpoint[c] + 1

\* acknowledge up to event_at, by a worker that has handled the event.
AckBegin(w, c) ==
    \E n \in Retained :
        /\ call[w] = Idle /\ c \in Registered /\ InTurn(c, n)
        /\ stream[n] \notin Poison
        /\ call' = [call EXCEPT ![w] =
                        [at |-> "move", consumer |-> c, sequence |-> n, dead |-> FALSE]]
        /\ handled' = [handled EXCEPT ![c] = @ \cup {n}]
        /\ UNCHANGED <<store, tables, replays, saved, restarts, failures>>

\* Mutant: the attempts are looked for under another key.
TriesAfresh(c, n) == 1

\* _attempts.get, with this attempt.
Tries(c, n) == attempts[c][n] + 1

\* Mutant: one attempt too few.
NearlyExhausted(tries) == tries + 1 >= MaxAttempts

Exhausted(tries) == tries >= MaxAttempts

\* record_delivery_failure up to _attempts.get.
FailBegin(w, c) ==
    \E n \in Retained :
        /\ call[w] = Idle /\ c \in Registered
        /\ <<c, n>> \notin deadLetters
        /\ InTurn(c, n)
        /\ call' = [call EXCEPT ![w] = [at |-> "count", consumer |-> c, sequence |-> n,
                                        tries |-> Tries(c, n)]]
        /\ failures' = [failures EXCEPT ![c][n] = IF @ < MaxAttempts THEN @ + 1 ELSE @]
        /\ UNCHANGED <<store, tables, replays, saved, restarts, handled>>

\* Its count, and the dead letter after the last attempt; without room for
\* that it raises, with the attempt counted.  Counts stop at MaxAttempts,
\* since nothing tells higher ones apart.
CountFailure(w) ==
    LET c == call[w].consumer
        n == call[w].sequence
        given == Exhausted(call[w].tries) /\ Cardinality(deadLetters) < MaxDeadLetters
    IN
    /\ call[w].at = "count"
    /\ attempts' = [attempts EXCEPT ![c][n] =
                        IF call[w].tries < MaxAttempts THEN call[w].tries ELSE MaxAttempts]
    /\ IF given
       THEN /\ deadLetters' = deadLetters \cup {<<c, n>>}
            /\ handled' = [handled EXCEPT ![c] = @ \cup {n}]
            /\ call' = [call EXCEPT ![w] =
                            [at |-> "move", consumer |-> c, sequence |-> n, dead |-> TRUE]]
       ELSE /\ call' = [call EXCEPT ![w] = Idle]
            /\ UNCHANGED <<deadLetters, handled>>
    /\ UNCHANGED <<store, checkpoint, acked, replays, saved, restarts, failures>>

\* The checkpoint is written ...
Move(w) ==
    /\ call[w].at = "move"
    /\ checkpoint' = [checkpoint EXCEPT ![call[w].consumer] = call[w].sequence]
    /\ call' = [call EXCEPT ![w].at = "note"]
    /\ UNCHANGED <<store, acked, attempts, deadLetters, replays, saved, restarts, history>>

\* ... and then _acked_ids; an acknowledgement also forgets the attempts.
Note(w) ==
    LET c == call[w].consumer
        n == call[w].sequence
    IN
    /\ call[w].at = "note"
    /\ acked' = [acked EXCEPT ![c] = @ \cup {n}]
    /\ attempts' = [attempts EXCEPT ![c][n] = IF call[w].dead THEN @ ELSE 0]
    /\ call' = [call EXCEPT ![w] = Idle]
    /\ UNCHANGED <<store, checkpoint, deadLetters, replays, saved, restarts, history>>

Deliver(c) == \E w \in Workers : AckBegin(w, c) \/ FailBegin(w, c)

-----------------------------------------------------------------------------
(* Retention and replay.                                                   *)

\* Mutant: the event at before_sequence counts as pruned as well.
AllPast(before) == \A c \in Registered : checkpoint[c] + 2 >= before

\* No registered consumer still needs an event before this one.
NoneNeeds(before) == \A c \in Registered : checkpoint[c] >= before - 1

\* prune_retention up to the check; consulted is for PruneKeepsUnhandled.
PruneBegin(w, before) ==
    /\ call[w] = Idle
    /\ NoneNeeds(before)
    /\ call' = [call EXCEPT ![w] =
                    [at |-> "prune", before |-> before, consulted |-> Registered]]
    /\ UNCHANGED <<store, tables, replays, saved, restarts, history>>

PruneStore(w) ==
    /\ call[w].at = "prune"
    /\ Prune(call[w].before)
    /\ call' = [call EXCEPT ![w] = Idle]
    /\ UNCHANGED <<tables, replays, saved, restarts, history>>

\* replay.  A dry run is the same; a repeated request changes nothing.
Replay(r) ==
    LET found == {n \in Retained : ReplayRange[r][1] <= n /\ n <= ReplayRange[r][2]} IN
    /\ replays[r] = None
    /\ found # {} /\ Cardinality(found) <= MaxReplayEvents
    /\ replays' = [replays EXCEPT ![r] = found]
    /\ UNCHANGED <<store, tables, call, saved, restarts, history>>

-----------------------------------------------------------------------------
Continue(w) == CountFailure(w) \/ Move(w) \/ Note(w) \/ PruneStore(w)

Next ==
    \/ \E e \in Envelopes : RegisterSchema(SchemaOf[e]) \/ AppendEvent(e)
    \/ \E c \in Consumers :
        RegisterFresh(c) \/ RegisterRestored(c) \/ Save(c) \/ Deliver(c)
    \/ \E w \in Workers :
        Continue(w) \/ \E before \in 1..Cardinality(Envelopes) + 1 : PruneBegin(w, before)
    \/ \E r \in Replays : Replay(r)
    \/ Restart

\* Workers inside a call go on, and somebody works for every consumer.
Fairness ==
    /\ \A w \in Workers : WF_vars(Continue(w))
    /\ \A c \in Consumers : SF_vars(Deliver(c))

Spec == Init /\ [][Next]_vars /\ Fairness

-----------------------------------------------------------------------------
(* Properties.                                                             *)

(* No checkpoint, in the service or kept by its consumer, has passed an    *)
(* event the consumer has neither handled nor given up, although workers   *)
(* acknowledge, fail and restart at any time (event_pipeline.py:769-796).  *)
NoEventIsSkipped ==
    \A c \in Consumers :
        /\ checkpoint[c] # None => 1..checkpoint[c] \subseteq handled[c]
        /\ saved[c] # None => 1..saved[c] \subseteq handled[c]

(* A dead letter has had its attempts, even when two workers count at once *)
(* and lose one of the counts (event_pipeline.py:825-834).                 *)
NoEarlyDeadLetter ==
    \A d \in deadLetters : failures[d[1]][d[2]] = MaxAttempts

(* Pruning drops no event which a consumer registered at its check has not *)
(* handled, although the checkpoints go on moving between the check and    *)
(* the removal (event_pipeline.py:894-911).                                *)
PruneKeepsUnhandled ==
    [][\A w \in Workers : floor' # floor /\ call[w].at = "prune" /\ call'[w] = Idle =>
        \A c \in call[w].consulted : floor + 1..floor' \subseteq handled[c]]_vars

Busy(c) == \E w \in Workers : call[w].at \in {"count", "move", "note"} /\ call[w].consumer = c

\* A worker that was slow to acknowledge moved the checkpoint back below an
\* event given up: its failures are no longer counted.
BehindItsDeadLetter(c, n) ==
    /\ <<c, n>> \in deadLetters
    /\ stream[n] \in Poison
    /\ ~Busy(c)

NoRoomToGiveUp(c, n) ==
    <<c, n>> \notin deadLetters /\ Cardinality(deadLetters) >= MaxDeadLetters

(* A consumer whose next event is retained moves on, past events it can    *)
(* never handle as well, unless the event was pruned under it or it is at  *)
(* one of the code's two dead ends: there is no room to give up the event, *)
(* or it was given up and the checkpoint moved back below it               *)
(* (event_pipeline.py:802-840).                                            *)
ConsumersProgress ==
    \A c \in Consumers, n \in Positions :
        (checkpoint[c] = n - 1 /\ n \in Retained) ~>
            \/ checkpoint[c] # n - 1
            \/ n <= floor
            \/ BehindItsDeadLetter(c, n)
            \/ NoRoomToGiveUp(c, n)
=============================================================================
