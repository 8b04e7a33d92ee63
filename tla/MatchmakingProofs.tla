------------------------- MODULE MatchmakingProofs --------------------------
(***************************************************************************)
(* Proofs about Matchmaking for any tickets, criteria, group sizes and     *)
(* bounds: tickets and reservations agree, the oldest go first, and the    *)
(* capacities hold, at every step of a run and wherever it fails.          *)
(***************************************************************************)
EXTENDS Matchmaking, FiniteSetTheorems, TLAPS

Reservation == [tickets : SUBSET Tickets, expires : Nat, active : BOOLEAN]
Statuses == {"none", "queued", "matched", "cancelled", "expired"}

TypeOK ==
    /\ now \in Nat /\ sequence \in Nat
    /\ place \in [Tickets -> Nat] /\ expires \in [Tickets -> Nat]
    /\ status \in [Tickets -> Statuses]
    /\ reservations \in Seq(Reservation)
    /\ run \in GroupSizes \cup {0}

(* The next ticket is younger than all.                                    *)
PlacesAreGiven == \A t \in Tickets : place[t] <= sequence

(* AssignmentsAgree without counting.                                      *)
Held(t) == {i \in DOMAIN reservations : t \in reservations[i].tickets}
HeldOnce ==
    \A t \in Tickets :
        /\ status[t] = "matched" <=> Held(t) # {}
        /\ \A i, j \in Held(t) : i = j

Queued == {t \in Tickets : status[t] = "queued"}
Active == {i \in DOMAIN reservations : reservations[i].active}

IInv == TypeOK /\ PlacesAreGiven /\ HeldOnce /\ OldestFirst /\ WithinCapacity

-----------------------------------------------------------------------------
(* The sweep. *)

LEMMA SweptTickets ==
  ASSUME TypeOK
  PROVE  /\ Swept \in [Tickets -> Statuses]
         /\ \A t \in Tickets :
              /\ Swept[t] = "queued" <=> IsQueued(t)
              /\ Swept[t] = "queued" => status[t] = "queued"
              /\ Swept[t] = "matched" <=> status[t] = "matched"
<1>1. ASSUME NEW t \in Tickets
      PROVE  /\ Swept[t] \in Statuses
             /\ Swept[t] = "queued" <=> IsQueued(t)
             /\ Swept[t] = "queued" => status[t] = "queued"
             /\ Swept[t] = "matched" <=> status[t] = "matched"
  BY DEF TypeOK, Swept, IsQueued, Statuses
<1>2. Swept = [t \in Tickets |-> Swept[t]]
  BY DEF Swept
<1>3. QED
  BY <1>1, <1>2

(* The reservations are the same, and none becomes active again.           *)
SameReservations(old, new) ==
    /\ new \in Seq(Reservation) /\ Len(new) = Len(old)
    /\ \A i \in 1..Len(old) :
         new[i].tickets = old[i].tickets /\ (new[i].active => old[i].active)

LEMMA SweptReservationsSame ==
  ASSUME TypeOK
  PROVE  SameReservations(reservations, SweptReservations)
<1>1. /\ Len(reservations) \in Nat /\ DOMAIN reservations = 1..Len(reservations)
      /\ \A i \in 1..Len(reservations) : reservations[i] \in Reservation
  BY DEF TypeOK
<1>2. ASSUME NEW r \in Reservation
      PROVE  /\ [r EXCEPT !.active = IsActive(r)] \in Reservation
             /\ [r EXCEPT !.active = IsActive(r)].tickets = r.tickets
             /\ [r EXCEPT !.active = IsActive(r)].active => r.active
  <2>1. IsActive(r) \in BOOLEAN /\ (IsActive(r) => r.active)
    BY Zenon DEF IsActive, Reservation
  <2> DEFINE a == IsActive(r)
  <2>2. a \in BOOLEAN /\ (a => r.active)
    BY <2>1
  <2> HIDE DEF a
  <2>3. /\ [r EXCEPT !.active = a] \in Reservation
        /\ [r EXCEPT !.active = a].tickets = r.tickets
        /\ [r EXCEPT !.active = a].active = a
    BY <2>2 DEF Reservation
  <2>4. QED
    BY <2>2, <2>3 DEF a
<1>3. /\ DOMAIN SweptReservations = 1..Len(reservations)
      /\ \A i \in 1..Len(reservations) :
           SweptReservations[i] = [reservations[i] EXCEPT !.active = IsActive(reservations[i])]
  BY <1>1 DEF SweptReservations
<1>4. \A i \in 1..Len(reservations) :
        /\ SweptReservations[i] \in Reservation
        /\ SweptReservations[i].tickets = reservations[i].tickets
        /\ SweptReservations[i].active => reservations[i].active
  <2> SUFFICES ASSUME NEW i \in 1..Len(reservations)
               PROVE  /\ SweptReservations[i] \in Reservation
                      /\ SweptReservations[i].tickets = reservations[i].tickets
                      /\ SweptReservations[i].active => reservations[i].active
    OBVIOUS
  <2> DEFINE r == reservations[i]
             s == [r EXCEPT !.active = IsActive(r)]
  <2>1. r \in Reservation /\ SweptReservations[i] = s
    BY <1>1, <1>3
  <2>2. s \in Reservation /\ s.tickets = r.tickets /\ (s.active => r.active)
    BY Zenon, <1>2, <2>1
  <2> HIDE DEF s
  <2>3. QED
    BY <2>1, <2>2
<1>5. SweptReservations \in Seq(Reservation) /\ Len(SweptReservations) = Len(reservations)
  <2>1. SweptReservations = [i \in 1..Len(reservations) |-> SweptReservations[i]]
    BY <1>1 DEF SweptReservations
  <2>2. QED
    BY <1>1, <1>3, <1>4, <2>1
<1>6. QED
  BY <1>4, <1>5 DEF SameReservations

-----------------------------------------------------------------------------
(* Steps that reserve nothing. *)

LEMMA Unreserved ==
  ASSUME IInv, TypeOK', SameReservations(reservations, reservations'),
         \A t \in Tickets : status'[t] = "matched" <=> status[t] = "matched"
  PROVE  HeldOnce' /\ Cardinality(Active') <= MaxActive
<1>1. Len(reservations') = Len(reservations) /\ Len(reservations) \in Nat
  BY DEF SameReservations, IInv, TypeOK
<1>2. \A t \in Tickets : Held(t)' = Held(t)
  BY <1>1 DEF SameReservations, Held, IInv, TypeOK
<1>3. HeldOnce'
  BY <1>2 DEF HeldOnce, IInv
<1>4. Active' \subseteq Active /\ Active \subseteq 1..Len(reservations)
  BY <1>1 DEF SameReservations, Active, IInv, TypeOK
<1>5. IsFiniteSet(Active)
  <2>1. IsFiniteSet(1..Len(reservations))
    BY <1>1, 1 \in Int, Len(reservations) \in Int, FS_Interval
  <2>2. QED
    BY <1>4, <2>1, FS_Subset
<1>6. /\ Cardinality(Active') <= Cardinality(Active)
      /\ Cardinality(Active') \in Nat /\ Cardinality(Active) \in Nat
  BY <1>4, <1>5, FS_Subset, FS_CardinalityType
<1>7. Cardinality(Active) <= MaxActive /\ MaxActive \in Nat
  BY SizesAreNaturals DEF IInv, WithinCapacity, Active
<1>8. QED
  BY <1>3, <1>6, <1>7

LEMMA Settles ==
  ASSUME IInv, TypeOK', SameReservations(reservations, reservations'),
         UNCHANGED <<sequence, place>>,
         \A t \in Tickets : /\ status'[t] = "matched" <=> status[t] = "matched"
                            /\ status'[t] = "queued" => status[t] = "queued"
  PROVE  IInv'
<1>1. HeldOnce' /\ Cardinality(Active') <= MaxActive
  BY Unreserved
<1>2. PlacesAreGiven' /\ OldestFirst'
  BY DEF IInv, PlacesAreGiven, OldestFirst
<1>3. Cardinality(Queued') <= MaxQueued
  <2>1. Queued' \subseteq Queued /\ Queued \subseteq Tickets
    BY DEF Queued
  <2>2. /\ Cardinality(Queued') <= Cardinality(Queued)
        /\ Cardinality(Queued') \in Nat /\ Cardinality(Queued) \in Nat
    BY <2>1, TicketsAreFinite, FS_Subset, FS_CardinalityType
  <2>3. Cardinality(Queued) <= MaxQueued /\ MaxQueued \in Nat
    BY SizesAreNaturals DEF IInv, WithinCapacity, Queued
  <2>4. QED
    BY <2>2, <2>3
<1>4. WithinCapacity'
  BY <1>1, <1>3 DEF WithinCapacity, Active, Queued
<1>5. QED
  BY <1>1, <1>2, <1>4 DEF IInv

LEMMA SubmitStep ==
  ASSUME IInv, NEW t \in Tickets, Submit(t)
  PROVE  IInv'
<1>1. /\ status[t] = "none" /\ HasPlace /\ sequence' = sequence + 1
      /\ place' = [place EXCEPT ![t] = sequence + 1]
      /\ status' = [Swept EXCEPT ![t] = "queued"]
      /\ expires' = [expires EXCEPT ![t] = now + ttl[t]]
      /\ reservations' = SweptReservations /\ UNCHANGED <<now, run>>
  BY DEF Submit
<1>2. TypeOK
  BY DEF IInv
<1>3. SameReservations(reservations, reservations')
  BY <1>1, <1>2, SweptReservationsSame
<1>4. /\ status' \in [Tickets -> Statuses] /\ status'[t] = "queued"
      /\ \A u \in Tickets \ {t} : status'[u] = Swept[u]
  BY <1>1, <1>2, SweptTickets DEF Statuses
<1>5. /\ place' \in [Tickets -> Nat] /\ place'[t] = sequence + 1
      /\ \A u \in Tickets \ {t} : place'[u] = place[u]
  BY <1>1, <1>2 DEF TypeOK
<1>6. TypeOK'
  <2>1. now + ttl[t] \in Nat
    BY <1>2, SizesAreNaturals DEF TypeOK
  <2>2. expires' \in [Tickets -> Nat]
    BY <1>1, <1>2, <2>1 DEF TypeOK
  <2>3. QED
    BY <1>1, <1>2, <1>3, <1>4, <1>5, <2>2 DEF TypeOK, SameReservations
<1>7. \A u \in Tickets : /\ status'[u] = "matched" <=> status[u] = "matched"
                         /\ status'[u] = "queued" => IsQueued(u) \/ u = t
                         /\ status'[u] = "queued" => status[u] = "queued" \/ u = t
  BY <1>1, <1>2, <1>4, SweptTickets
<1>8. HeldOnce' /\ Cardinality(Active') <= MaxActive
  BY <1>3, <1>6, <1>7, Unreserved
<1>9. PlacesAreGiven'
  BY <1>1, <1>2, <1>5 DEF IInv, PlacesAreGiven, TypeOK
<1>10. OldestFirst'
  <2> SUFFICES ASSUME NEW u \in Tickets, NEW v \in Tickets, place'[u] < place'[v],
                      criteria[u] = criteria[v], status'[v] = "matched"
               PROVE  status'[u] # "queued"
    BY DEF OldestFirst
  <2>1. v # t /\ place'[v] = place[v] /\ place[v] <= sequence /\ status[v] = "matched"
    BY <1>4, <1>5, <1>7 DEF IInv, PlacesAreGiven
  <2>2. u # t /\ place'[u] = place[u]
    BY <1>2, <1>5, <2>1 DEF TypeOK
  <2>3. QED
    BY <1>7, <2>1, <2>2 DEF IInv, OldestFirst
<1>11. Cardinality(Queued') <= MaxQueued
  <2> DEFINE Q == {u \in Tickets : IsQueued(u)}
  <2>1. IsFiniteSet(Q) /\ Queued' \subseteq Q \cup {t} /\ Cardinality(Q) < MaxQueued
    BY <1>1, <1>7, TicketsAreFinite, FS_Subset DEF Queued, HasPlace
  <2> HIDE DEF Q
  <2>2. /\ IsFiniteSet(Q \cup {t}) /\ Cardinality(Q) \in Nat
        /\ Cardinality(Q \cup {t}) \in {Cardinality(Q), Cardinality(Q) + 1}
    BY <2>1, FS_AddElement, FS_CardinalityType
  <2>3. Cardinality(Queued') \in Nat /\ Cardinality(Queued') <= Cardinality(Q \cup {t})
    BY <2>1, <2>2, FS_Subset, FS_CardinalityType
  <2>4. QED
    BY <2>1, <2>2, <2>3, SizesAreNaturals
<1>12. QED
  BY <1>6, <1>8, <1>9, <1>10, <1>11 DEF IInv, WithinCapacity, Active, Queued

-----------------------------------------------------------------------------
(* A run. *)

(* Whoever waited longer than someone selected is selected as well.        *)
LEMMA OlderIsSelected ==
  ASSUME TypeOK, NEW k, NEW u \in Selected(k), NEW t \in Waiting(k), place[t] < place[u]
  PROVE  t \in Selected(k)
<1>1. u \in Tickets /\ t \in Tickets /\ criteria[t] = k /\ criteria[u] = k /\ Cardinality(Ahead(u)) < run
  BY DEF Selected, Waiting
<1>2. place[t] \in Nat /\ place[u] \in Nat /\ \A v \in Tickets : place[v] \in Nat
  BY <1>1 DEF TypeOK
<1>3. Ahead(t) \subseteq Ahead(u) /\ Ahead(u) \subseteq Tickets
  BY <1>1, <1>2 DEF Ahead, Waiting
<1>4. /\ Cardinality(Ahead(t)) <= Cardinality(Ahead(u))
      /\ Cardinality(Ahead(t)) \in Nat /\ Cardinality(Ahead(u)) \in Nat
  BY <1>3, TicketsAreFinite, FS_Subset, FS_CardinalityType
<1>5. run \in Nat
  BY SizesAreNaturals DEF TypeOK
<1>6. QED
  BY <1>1, <1>4, <1>5 DEF Selected

LEMMA ReserveStep ==
  ASSUME IInv, NEW i \in DOMAIN Criteria, Reserve(i)
  PROVE  IInv'
<1> DEFINE k == Criteria[i]
           group == Selected(k)
           made == [tickets |-> group, expires |-> now + ReservationTTL, active |-> TRUE]
           n == Len(reservations)
<1>1. /\ HasRoom /\ reservations' = Append(reservations, made)
      /\ status' = [t \in Tickets |-> IF t \in group THEN "matched" ELSE status[t]]
      /\ UNCHANGED <<now, sequence, place, expires, run>>
  BY DEF Reserve, Turn, Assign, queue
<1>2. /\ TypeOK /\ HeldOnce /\ OldestFirst /\ PlacesAreGiven
      /\ group \subseteq Waiting(k) /\ group \subseteq Tickets
      /\ \A t \in group : status[t] = "queued" /\ criteria[t] = k
  BY DEF IInv, Selected, Waiting
<1>3. made \in Reservation /\ made.tickets = group /\ made.active
  <2>1. now + ReservationTTL \in Nat
    BY <1>2, SizesAreNaturals DEF TypeOK
  <2>2. QED
    BY <1>2, <2>1 DEF Reservation
<1>4. \A t \in group, u \in Waiting(k) : place[u] < place[t] => u \in group
  BY <1>2, OlderIsSelected
<1> HIDE DEF group, made
<1>5. /\ n \in Nat /\ reservations' \in Seq(Reservation) /\ Len(reservations') = n + 1
      /\ reservations'[n + 1] = made
      /\ \A m \in 1..n : reservations'[m] = reservations[m]
      /\ DOMAIN reservations = 1..n /\ DOMAIN reservations' = 1..(n + 1)
  BY <1>1, <1>2, <1>3 DEF TypeOK
<1>6. /\ status' \in [Tickets -> Statuses]
      /\ \A t \in group : status'[t] = "matched"
      /\ \A t \in Tickets \ group : status'[t] = status[t]
  BY <1>1, <1>2 DEF TypeOK, Statuses
<1>7. TypeOK' /\ PlacesAreGiven'
  BY <1>1, <1>2, <1>5, <1>6 DEF TypeOK, PlacesAreGiven
<1> HIDE DEF n
<1>8. HeldOnce'
  <2> SUFFICES ASSUME NEW t \in Tickets
               PROVE  /\ status'[t] = "matched" <=> Held(t)' # {}
                      /\ \A x, y \in Held(t)' : x = y
    BY DEF HeldOnce
  <2>1. CASE t \in group
    <3>1. Held(t) = {}
      BY <1>2, <2>1 DEF HeldOnce
    <3>2. Held(t)' = {n + 1}
      BY <1>3, <1>5, <2>1, <3>1 DEF Held
    <3>3. QED
      BY <1>6, <2>1, <3>2
  <2>2. CASE t \notin group
    <3>1. Held(t)' = Held(t)
      BY <1>3, <1>5, <2>2 DEF Held
    <3>2. status'[t] = status[t]
      BY <1>6, <2>2
    <3>3. QED
      BY <1>2, <3>1, <3>2 DEF HeldOnce
  <2>3. QED
    BY <2>1, <2>2
<1>9. OldestFirst'
  <2> SUFFICES ASSUME NEW t \in Tickets, NEW u \in Tickets, place[t] < place[u],
                      criteria[t] = criteria[u], status'[u] = "matched", status'[t] = "queued"
               PROVE  FALSE
    BY <1>1 DEF OldestFirst
  <2>1. t \notin group /\ status[t] = "queued"
    BY <1>6
  <2>2. CASE u \in group
    <3>1. t \in Waiting(k)
      BY <1>2, <2>1, <2>2 DEF Waiting
    <3>2. QED
      BY <1>4, <2>1, <2>2, <3>1
  <2>3. CASE u \notin group
    BY <1>2, <1>6, <2>1, <2>3 DEF OldestFirst
  <2>4. QED
    BY <2>2, <2>3
<1>10. Cardinality(Active') <= MaxActive
  <2>1. IsFiniteSet(Active) /\ n + 1 \notin Active /\ Cardinality(Active) < MaxActive
    <3>1. Active \subseteq 1..n /\ IsFiniteSet(1..n)
      BY <1>5, FS_Interval DEF Active
    <3>2. QED
      BY <1>1, <1>5, <3>1, FS_Subset DEF HasRoom, Active
  <2>2. Active' = Active \cup {n + 1}
    BY <1>3, <1>5 DEF Active
  <2>3. Cardinality(Active') = Cardinality(Active) + 1 /\ Cardinality(Active) \in Nat
    BY <2>1, <2>2, FS_AddElement, FS_CardinalityType
  <2>4. QED
    BY <2>1, <2>3, SizesAreNaturals
<1>11. Cardinality(Queued') <= MaxQueued
  <2>1. Queued' \subseteq Queued /\ Queued \subseteq Tickets
    BY <1>6 DEF Queued
  <2>2. /\ Cardinality(Queued') <= Cardinality(Queued)
        /\ Cardinality(Queued') \in Nat /\ Cardinality(Queued) \in Nat
    BY <2>1, TicketsAreFinite, FS_Subset, FS_CardinalityType
  <2>3. Cardinality(Queued) <= MaxQueued /\ MaxQueued \in Nat
    BY SizesAreNaturals DEF IInv, WithinCapacity, Queued
  <2>4. QED
    BY <2>2, <2>3
<1>12. QED
  BY <1>7, <1>8, <1>9, <1>10, <1>11 DEF IInv, WithinCapacity, Active, Queued

-----------------------------------------------------------------------------
LEMMA NextStep ==
  ASSUME IInv, [Next]_vars
  PROVE  IInv'
<1>1. TypeOK /\ SameReservations(reservations, reservations)
  BY DEF IInv, TypeOK, SameReservations
(* A step that changes no ticket and no reservation. *)
<1>2. ASSUME UNCHANGED <<queue, status, reservations>>, now' \in Nat, run' \in GroupSizes \cup {0}
      PROVE  IInv'
  <2>1. TypeOK'
    BY <1>1, <1>2 DEF queue, TypeOK
  <2>2. QED
    BY <1>1, <1>2, <2>1, Settles DEF queue
(* A step that sweeps, and may end one ticket more. *)
<1>3. ASSUME reservations' = SweptReservations, UNCHANGED <<now, queue>>,
             run' \in GroupSizes \cup {0},
             status' = Swept \/ \E t \in Tickets : status[t] = "queued" /\ status' = [Swept EXCEPT ![t] = "cancelled"]
      PROVE  IInv'
  <2>1. SameReservations(reservations, reservations')
    BY <1>1, <1>3, SweptReservationsSame
  <2>2. /\ status' \in [Tickets -> Statuses]
        /\ \A t \in Tickets : /\ status'[t] = "matched" <=> status[t] = "matched"
                              /\ status'[t] = "queued" => status[t] = "queued"
    <3>1. CASE status' = Swept
      BY <1>1, <3>1, SweptTickets
    <3>2. ASSUME NEW t \in Tickets, status[t] = "queued", status' = [Swept EXCEPT ![t] = "cancelled"]
          PROVE  /\ status' \in [Tickets -> Statuses]
                 /\ \A u \in Tickets : /\ status'[u] = "matched" <=> status[u] = "matched"
                                       /\ status'[u] = "queued" => status[u] = "queued"
      BY <1>1, <3>2, SweptTickets DEF Statuses
    <3>3. QED
      BY <1>3, <3>1, <3>2
  <2>3. TypeOK'
    BY <1>1, <1>3, <2>1, <2>2 DEF queue, TypeOK, SameReservations
  <2>4. QED
    BY <1>3, <2>1, <2>2, <2>3, Settles DEF queue
<1>4. CASE UNCHANGED vars
  BY <1>1, <1>2, <1>4 DEF vars, TypeOK
<1>5. CASE Tick
  BY <1>1, <1>2, <1>5 DEF Tick, TypeOK
<1>6. CASE Sweep
  BY <1>1, <1>3, <1>6 DEF Sweep, TypeOK
<1>7. ASSUME NEW t \in Tickets, Submit(t) PROVE IInv'
  BY <1>7, SubmitStep
<1>8. ASSUME NEW t \in Tickets, Cancel(t) PROVE IInv'
  BY <1>1, <1>3, <1>8 DEF Cancel, IsQueued, TypeOK
<1>9. ASSUME NEW n \in GroupSizes, Begin(n) PROVE IInv'
  BY <1>3, <1>9 DEF Begin
<1>10. ASSUME NEW i \in DOMAIN Criteria, Reserve(i) PROVE IInv'
  BY <1>10, ReserveStep
<1>11. ASSUME Return \/ \E i \in DOMAIN Criteria : Refuse(i) PROVE IInv'
  BY <1>1, <1>2, <1>11 DEF Return, Refuse, TypeOK
<1>12. QED
  BY <1>4, <1>5, <1>6, <1>7, <1>8, <1>9, <1>10, <1>11 DEF Next, Match

LEMMA Inductive == Spec => []IInv
<1>1. Init => IInv
  <2> SUFFICES ASSUME Init PROVE IInv
    OBVIOUS
  <2>1. TypeOK /\ PlacesAreGiven /\ OldestFirst
    BY DEF Init, TypeOK, PlacesAreGiven, OldestFirst, Statuses
  <2>2. HeldOnce
    BY DEF Init, HeldOnce, Held
  <2>3. {i \in DOMAIN reservations : reservations[i].active} = {} /\ {t \in Tickets : status[t] = "queued"} = {}
    BY DEF Init
  <2>4. WithinCapacity
    <3>1. Cardinality({}) = 0
      BY FS_EmptySet
    <3>2. MaxActive \in Nat /\ MaxQueued \in Nat
      BY SizesAreNaturals
    <3>3. 0 <= MaxActive /\ 0 <= MaxQueued
      BY <3>2
    <3>4. QED
      BY <2>3, <3>1, <3>3 DEF WithinCapacity
  <2>5. QED
    BY <2>1, <2>2, <2>4 DEF IInv
<1>2. QED
  BY <1>1, NextStep, PTL DEF Spec

(* The tables stay in their types.                                         *)
THEOREM TypeCorrect == Spec => []TypeOK
<1>1. IInv => TypeOK
  BY DEF IInv
<1>2. QED
  BY <1>1, Inductive, PTL

(* A ticket is matched exactly when one reservation, and only one, holds   *)
(* it, although a run writes the two one after the other, for one group    *)
(* after the other, and may fail on the way (matchmaking.py:592-628).      *)
THEOREM TicketsAgree == Spec => []AssignmentsAgree
<1>1. IInv => AssignmentsAgree
  <2> SUFFICES ASSUME IInv, NEW t \in Tickets
               PROVE  Cardinality(Held(t)) = IF status[t] = "matched" THEN 1 ELSE 0
    BY DEF AssignmentsAgree, Held
  <2>1. CASE Held(t) = {}
    BY <2>1, FS_EmptySet DEF IInv, HeldOnce
  <2>2. CASE Held(t) # {}
    <3>1. PICK i : Held(t) = {i}
      BY <2>2 DEF IInv, HeldOnce
    <3>2. status[t] = "matched"
      BY <2>2 DEF IInv, HeldOnce
    <3>3. QED
      BY <3>1, <3>2, FS_Singleton
  <2>3. QED
    BY <2>1, <2>2
<1>2. QED
  BY <1>1, Inductive, PTL

(* Of two tickets with the same criteria the older is served first,        *)
(* whatever expires or is cancelled in between (matchmaking.py:585-597).   *)
THEOREM OldestServedFirst == Spec => []OldestFirst
<1>1. IInv => OldestFirst
  BY DEF IInv
<1>2. QED
  BY <1>1, Inductive, PTL

(* Neither the queue nor the active reservations exceed their bounds       *)
(* (matchmaking.py:534-535, 582-594).                                      *)
THEOREM CapacityHolds == Spec => []WithinCapacity
<1>1. IInv => WithinCapacity
  BY DEF IInv
<1>2. QED
  BY <1>1, Inductive, PTL
=============================================================================
