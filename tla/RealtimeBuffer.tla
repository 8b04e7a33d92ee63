--------------------------- MODULE RealtimeBuffer ---------------------------
(***************************************************************************)
(* RealtimeAuthorityBuffer of src/kodepoia/backend/authority.py, fed with  *)
(* the events of Authority and read by subscribers.  Nothing in the code   *)
(* says who publishes or acknowledges: any event of the log may be         *)
(* published, in any order and again, as threads that publish what they    *)
(* committed would, and any number may be acknowledged.                    *)
(***************************************************************************)
EXTENDS Authority, SequencesExt

CONSTANTS
    Subscribers,
    MaxEvents,   \* max_events
    Size,        \* the bytes of each event, by its command
    MaxBytes     \* max_bytes

ASSUME BufferAssumption ==
    /\ MaxEvents \in Nat \ {0} /\ MaxBytes \in Nat \ {0}
    /\ Size \in [Commands -> Nat \ {0}]
    /\ None \notin Subscribers

VARIABLES
    buffer,      \* _events
    bytes,       \* _bytes
    floor,       \* _retention_floor
    accepted,    \* the numbers publish accepted above the floor
    cursor,      \* where each subscriber resumes
    seen         \* the events each subscriber was given, or has from a snapshot

channel == <<buffer, bytes, floor, accepted>>
service == <<vars, channel, cursor, seen>>

Sequences(q) == {q[i].sequence : i \in DOMAIN q}
SizeOf(e) == Size[e.command]

ServiceInit ==
    /\ Init
    /\ buffer = <<>> /\ bytes = 0 /\ floor = 0 /\ accepted = {}
    /\ cursor = [s \in Subscribers |-> 0]
    /\ seen = [s \in Subscribers |-> {}]

Process ==
    /\ Next
    /\ UNCHANGED <<channel, cursor, seen>>

(***************************************************************************)
(* publish.  An event it refuses leaves the buffer as it is; an empty      *)
(* buffer compares with nothing.                                           *)
(***************************************************************************)
Newer(e) == buffer # <<>> => e.sequence > Last(buffer).sequence
Room(e) == Len(buffer) < MaxEvents /\ bytes + SizeOf(e) <= MaxBytes

\* Mutant: the order is not looked at.
PublishAnyOrder(e) ==
    /\ Room(e)
    /\ buffer' = Append(buffer, e)
    /\ bytes' = bytes + SizeOf(e)
    /\ accepted' = IF e.sequence > floor THEN accepted \cup {e.sequence} ELSE accepted
    /\ UNCHANGED floor

Publish(e) ==
    /\ Newer(e)
    /\ Room(e)
    /\ buffer' = Append(buffer, e)
    /\ bytes' = bytes + SizeOf(e)
    /\ accepted' = IF e.sequence > floor THEN accepted \cup {e.sequence} ELSE accepted
    /\ UNCHANGED floor

Relay ==
    /\ \E i \in DOMAIN events : Publish(events[i])
    /\ UNCHANGED <<vars, cursor, seen>>

(***************************************************************************)
(* Subscribers resume from their cursor.                                   *)
(***************************************************************************)
After(n) == {m \in Sequences(buffer) : m > n}

\* resume: the events after the cursor.  What resume has nothing to return
\* for changes nothing.
Resume(s) ==
    /\ cursor[s] >= floor
    /\ After(cursor[s]) # {}
    /\ cursor' = [cursor EXCEPT ![s] = Last(buffer).sequence]
    /\ seen' = [seen EXCEPT ![s] = @ \cup After(cursor[s])]
    /\ UNCHANGED <<vars, channel>>

\* resume raises AuthorityResyncRequired: the subscriber reads a snapshot.
Resync(s) ==
    /\ cursor[s] < floor
    /\ cursor' = [cursor EXCEPT ![s] = eventSequence]
    /\ seen' = [seen EXCEPT ![s] = @ \cup 1..eventSequence]
    /\ UNCHANGED <<vars, channel>>

(***************************************************************************)
(* acknowledge removes the events up to n, for all subscribers.  Their     *)
(* numbers increase, so they are the first k, and the k-th has the         *)
(* highest.                                                                *)
(***************************************************************************)
Drop(k) ==
    /\ buffer' = SubSeq(buffer, k + 1, Len(buffer))
    /\ bytes' = FoldSeq(LAMBDA e, sum : sum + SizeOf(e), 0, SubSeq(buffer, k + 1, Len(buffer)))
    /\ floor' = IF buffer[k].sequence > floor THEN buffer[k].sequence ELSE floor

Acknowledge(n) ==
    /\ \E k \in 1..Len(buffer) :
        /\ \A i \in 1..Len(buffer) : i <= k <=> buffer[i].sequence <= n
        /\ Drop(k)
    /\ UNCHANGED <<vars, accepted, cursor, seen>>

ServiceNext ==
    \/ Process
    \/ Relay
    \/ \E s \in Subscribers : Resume(s) \/ Resync(s)
    \/ \E n \in 1..eventSequence : Acknowledge(n)

ServiceSpec == ServiceInit /\ [][ServiceNext]_service

-----------------------------------------------------------------------------
(* Properties.                                                             *)

(* A subscriber has, of every event publish accepted above the retention   *)
(* floor and up to the subscriber's cursor, the event or a snapshot that   *)
(* contains it, in whatever order events are published, again or not, and  *)
(* whatever the others acknowledge (authority.py:642-679).                 *)
NothingMissed ==
    \A s \in Subscribers, n \in accepted : n <= cursor[s] => n \in seen[s]
=============================================================================
