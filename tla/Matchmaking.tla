---------------------------- MODULE Matchmaking -----------------------------
(***************************************************************************)
(* Tickets and reservations of InMemoryMatchmakingService                  *)
(* (backend/matchmaking.py).  Every operation holds the service's lock and *)
(* first sweeps what the clock has ended.  run_matchmaking makes several   *)
(* reservations in a row and may fail between two of them, so it takes a   *)
(* step for each; the lock keeps everything else out until it returns.     *)
(***************************************************************************)
EXTENDS Naturals, Sequences, FiniteSets

CONSTANTS
    Tickets,            \* ids of tickets; a ticket's request is fixed
    account,            \* [Tickets -> accounts]
    criteria,           \* [Tickets -> members of Criteria]
    ttl,                \* [Tickets -> Nat], as asked in the request
    Criteria,           \* the criteria, a sequence in the order of their digests
    GroupSizes,
    ReservationTTL,
    MaxQueued,          \* max_queued_tickets
    MaxActive,          \* max_active_reservations
    MaxTime             \* bound of the clock

ASSUME TicketsAreFinite == IsFiniteSet(Tickets)
ASSUME SizesAreNaturals ==
    /\ GroupSizes \subseteq Nat \ {0, 1}
    /\ {ReservationTTL, MaxQueued, MaxActive} \subseteq Nat \ {0}
    /\ MaxTime \in Nat /\ ttl \in [Tickets -> Nat \ {0}]

VARIABLES
    now,
    sequence,           \* _ticket_sequence
    place,              \* queue_sequence of every ticket
    status,             \* of every ticket: none, queued, matched, cancelled, expired
    expires,            \* of every ticket
    reservations,       \* [tickets, expires, active], in the order they were made
    run                 \* the group size of the run that holds the lock, 0 for none

queue == <<sequence, place, expires>>
vars == <<now, queue, status, reservations, run>>

Init ==
    /\ now = 0 /\ run = 0
    /\ sequence = 0
    /\ place = [t \in Tickets |-> 0]
    /\ status = [t \in Tickets |-> "none"]
    /\ expires = [t \in Tickets |-> 0]
    /\ reservations = <<>>

\* A run reads the clock once, so no time passes in it.
Tick ==
    /\ run = 0
    /\ now < MaxTime
    /\ now' = now + 1
    /\ UNCHANGED <<queue, status, reservations, run>>

-----------------------------------------------------------------------------
(* _expire_locked                                                          *)
IsQueued(t) == status[t] = "queued" /\ now < expires[t]
IsActive(r) == r.active /\ now < r.expires

Swept ==
    [t \in Tickets |->
        IF status[t] = "queued" /\ ~IsQueued(t) THEN "expired" ELSE status[t]]
SweptReservations ==
    [i \in DOMAIN reservations |-> [reservations[i] EXCEPT !.active = IsActive(reservations[i])]]

\* What a query does, and an operation that raises after its sweep.
Sweep ==
    /\ run = 0
    /\ status' = Swept
    /\ reservations' = SweptReservations
    /\ UNCHANGED <<now, queue, run>>

HasPlace == Cardinality({t \in Tickets : IsQueued(t)}) < MaxQueued

Submit(t) ==
    /\ run = 0
    /\ status[t] = "none"
    /\ HasPlace
    /\ sequence' = sequence + 1
    /\ place' = [place EXCEPT ![t] = sequence + 1]
    /\ status' = [Swept EXCEPT ![t] = "queued"]
    /\ expires' = [expires EXCEPT ![t] = now + ttl[t]]
    /\ reservations' = SweptReservations
    /\ UNCHANGED <<now, run>>

Cancel(t) ==
    /\ run = 0
    /\ IsQueued(t)
    /\ status' = [Swept EXCEPT ![t] = "cancelled"]
    /\ reservations' = SweptReservations
    /\ UNCHANGED <<now, queue, run>>

-----------------------------------------------------------------------------
(* run_matchmaking: the sweep, and then a group at a time.                 *)

Begin(n) ==
    /\ run = 0
    /\ run' = n
    /\ status' = Swept
    /\ reservations' = SweptReservations
    /\ UNCHANGED <<now, queue>>

Waiting(k) == {t \in Tickets : status[t] = "queued" /\ criteria[t] = k}

\* Mutant: the queue is served by the request that ends first.
AheadByExpiry(t) ==
    {u \in Waiting(criteria[t]) :
        expires[u] < expires[t] \/ (expires[u] = expires[t] /\ place[u] < place[t])}
Ahead(t) == {u \in Waiting(criteria[t]) : place[u] < place[t]}

\* The oldest of those who wait with criteria k.
Selected(k) == {t \in Waiting(k) : Cardinality(Ahead(t)) < run}

\* Mutant: one reservation more than the bound.
HasRoomForOneMore == Cardinality({i \in DOMAIN reservations : reservations[i].active}) <= MaxActive
HasRoom == Cardinality({i \in DOMAIN reservations : reservations[i].active}) < MaxActive

Enough(i) == Cardinality(Waiting(Criteria[i])) >= run

\* The queue i is the next to give a group.
Turn(i) == run # 0 /\ HasRoom /\ Enough(i) /\ \A j \in 1..(i - 1) : ~Enough(j)

\* MatchReservation takes no two tickets of one account.
IsRefused(group) == Cardinality({account[t] : t \in group}) < Cardinality(group)

Assign(group) == status' = [t \in Tickets |-> IF t \in group THEN "matched" ELSE status[t]]

Reserve(i) ==
    LET group == Selected(Criteria[i]) IN
    /\ Turn(i)
    /\ ~IsRefused(group)
    /\ reservations' = Append(reservations,
         [tickets |-> group, expires |-> now + ReservationTTL, active |-> TRUE])
    /\ Assign(group)
    /\ UNCHANGED <<now, queue, run>>

\* Mutant: the tickets are marked before their reservation is accepted.
RefuseAssigned(i) ==
    /\ Turn(i)
    /\ IsRefused(Selected(Criteria[i]))
    /\ Assign(Selected(Criteria[i]))
    /\ run' = 0
    /\ UNCHANGED <<now, queue, reservations>>

\* The run raises there and keeps what it has made.
Refuse(i) ==
    /\ Turn(i)
    /\ IsRefused(Selected(Criteria[i]))
    /\ run' = 0
    /\ UNCHANGED <<now, queue, status, reservations>>

Return ==
    /\ run # 0
    /\ \A i \in DOMAIN Criteria : ~Turn(i)
    /\ run' = 0
    /\ UNCHANGED <<now, queue, status, reservations>>

Match ==
    \/ \E n \in GroupSizes : Begin(n)
    \/ \E i \in DOMAIN Criteria : Reserve(i) \/ Refuse(i)
    \/ Return

Next ==
    \/ Tick
    \/ Sweep
    \/ \E t \in Tickets : Submit(t) \/ Cancel(t)
    \/ Match

Spec == Init /\ [][Next]_vars

-----------------------------------------------------------------------------
(* A ticket is matched exactly when one reservation, and only one, holds   *)
(* it, whatever run failed half-way (R14_7_ACCEPTANCE.md "matched tickets  *)
(* are not double-assigned").                                              *)
AssignmentsAgree ==
    \A t \in Tickets :
        LET held == {i \in DOMAIN reservations : t \in reservations[i].tickets}
        IN  Cardinality(held) = IF status[t] = "matched" THEN 1 ELSE 0

(* Of two tickets with the same criteria, one still waiting was not        *)
(* submitted before one that was matched ("deterministic oldest-first").   *)
OldestFirst ==
    \A t, u \in Tickets :
        /\ place[t] < place[u]
        /\ criteria[t] = criteria[u]
        /\ status[u] = "matched"
        => status[t] # "queued"

(* "queue/reservation capacity is bounded".                                *)
WithinCapacity ==
    /\ Cardinality({i \in DOMAIN reservations : reservations[i].active}) <= MaxActive
    /\ Cardinality({t \in Tickets : status[t] = "queued"}) <= MaxQueued
=============================================================================
