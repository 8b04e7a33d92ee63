------------------------ MODULE EventPipelineProofs -------------------------
(***************************************************************************)
(* Proofs about EventPipeline for any events, consumers and workers, any   *)
(* capacities and any number of restarts: no checkpoint passes an event    *)
(* its consumer has not dealt with, a dead letter has had its attempts,    *)
(* and pruning drops nothing that a consumer it asked still needs.         *)
(***************************************************************************)
EXTENDS EventPipeline, FiniteSetTheorems, TLAPS

-----------------------------------------------------------------------------
(* Types. *)

Moving == [at : {"move", "note"}, consumer : Consumers, sequence : Positions, dead : BOOLEAN]
Counting == [at : {"count"}, consumer : Consumers, sequence : Positions, tries : Nat \ {0}]
Pruning == [at : {"prune"}, before : Nat \ {0}, consulted : SUBSET Consumers]
Calls == {Idle} \cup Moving \cup Counting \cup Pruning

Tables == [Consumers -> [Positions -> 0..MaxAttempts]]

TypeOK ==
    /\ stream \in Seq(Envelopes)
    /\ floor \in 0..Len(stream)
    /\ checkpoint \in [Consumers -> Nat \cup {None}]
    /\ saved \in [Consumers -> Nat \cup {None}]
    /\ acked \in [Consumers -> SUBSET Positions]
    /\ attempts \in Tables
    /\ failures \in Tables
    /\ deadLetters \subseteq Consumers \X Positions
    /\ handled \in [Consumers -> SUBSET Positions]
    /\ call \in [Workers -> Calls]

(* An event is appended once, so the stream is no longer than there are    *)
(* events and every sequence has its place in the tables.                  *)
AppendedOnce == \A i, j \in 1..Len(stream) : stream[i] = stream[j] => i = j

-----------------------------------------------------------------------------
(* What a call in hand says of the past, however old what it read is.      *)

\* An acknowledgement and a dead letter come after everything up to theirs,
\* a failure after everything before it.
CallsAreInTurn ==
    \A w \in Workers :
        /\ call[w].at \in {"move", "note"} =>
             1..call[w].sequence \subseteq handled[call[w].consumer]
        /\ call[w].at = "count" =>
             1..(call[w].sequence - 1) \subseteq handled[call[w].consumer]
        /\ call[w].at = "prune" =>
             \A c \in call[w].consulted : 1..(call[w].before - 1) \subseteq handled[c]

\* Attempts may be lost, never invented.
AttemptsHappened ==
    /\ \A c \in Consumers, n \in Positions : attempts[c][n] <= failures[c][n]
    /\ \A w \in Workers :
        call[w].at = "count" =>
            LET f == failures[call[w].consumer][call[w].sequence] IN
            call[w].tries <= f \/ f = MaxAttempts

Deliveries == NoEventIsSkipped /\ CallsAreInTurn
DeadLetters == AttemptsHappened /\ NoEarlyDeadLetter

IInv == TypeOK /\ AppendedOnce /\ Deliveries /\ DeadLetters

-----------------------------------------------------------------------------
LEMMA StreamFits ==
  ASSUME stream \in Seq(Envelopes), AppendedOnce
  PROVE  /\ DOMAIN stream = 1..Len(stream) /\ Len(stream) \in Nat
         /\ 1..Len(stream) \subseteq Positions
<1>1. /\ DOMAIN stream = 1..Len(stream) /\ Len(stream) \in Nat
      /\ stream \in [1..Len(stream) -> Envelopes]
  OBVIOUS
<1>2. stream \in Injection(1..Len(stream), Envelopes)
  BY <1>1 DEF AppendedOnce, Injection, IsInjective
<1>3. IsFiniteSet(Envelopes)
  BY EventAssumption
<1>4. Cardinality(1..Len(stream)) <= Cardinality(Envelopes)
  BY <1>2, <1>3, FS_Injection
<1>5. Cardinality(1..Len(stream)) = Len(stream)
  BY <1>1, FS_Interval
<1>6. Cardinality(Envelopes) \in Nat
  BY <1>3, FS_CardinalityType
<1>7. QED
  BY <1>1, <1>4, <1>5, <1>6 DEF Positions

(* The label of a call says what it holds.                                 *)
LEMMA CallTyped ==
  ASSUME call \in [Workers -> Calls], NEW w \in Workers
  PROVE  /\ call[w].at \in {"move", "note"} =>
              /\ call[w] \in Moving
              /\ call[w].consumer \in Consumers /\ call[w].sequence \in Positions
              /\ call[w].dead \in BOOLEAN
         /\ call[w].at = "count" =>
              /\ call[w].consumer \in Consumers /\ call[w].sequence \in Positions
              /\ call[w].tries \in Nat \ {0}
         /\ call[w].at = "prune" =>
              call[w].before \in Nat \ {0} /\ call[w].consulted \subseteq Consumers
<1>1. call[w] = Idle \/ call[w] \in Moving \/ call[w] \in Counting \/ call[w] \in Pruning
  BY DEF Calls
<1>2. Idle.at = "idle"
  BY DEF Idle
<1>3. CASE call[w] = Idle
  BY <1>2, <1>3
<1>4. CASE call[w] \in Moving
  BY <1>4 DEF Moving
<1>5. CASE call[w] \in Counting
  BY <1>5 DEF Counting
<1>6. CASE call[w] \in Pruning
  BY <1>6 DEF Pruning
<1>7. QED
  BY <1>1, <1>3, <1>4, <1>5, <1>6

(* The actions of a worker, by what it does to the tables.                 *)
LEMMA NextCases ==
  ASSUME [Next]_vars
  PROVE  \/ UNCHANGED <<stream, floor, tables, call, saved, history>>
         \/ \E e \in Envelopes : AppendEvent(e)
         \/ \E c \in Consumers : RegisterFresh(c) \/ RegisterRestored(c) \/ Save(c)
         \/ \E w \in Workers, c \in Consumers : AckBegin(w, c) \/ FailBegin(w, c)
         \/ \E w \in Workers : CountFailure(w) \/ Move(w) \/ Note(w) \/ PruneStore(w)
         \/ \E w \in Workers, before \in 1..Cardinality(Envelopes) + 1 : PruneBegin(w, before)
         \/ Restart
<1>1. ASSUME NEW e \in Envelopes, RegisterSchema(SchemaOf[e])
      PROVE  UNCHANGED <<stream, floor, tables, call, saved, history>>
  BY <1>1 DEF RegisterSchema
<1>2. ASSUME NEW r \in Replays, Replay(r)
      PROVE  UNCHANGED <<stream, floor, tables, call, saved, history>>
  BY <1>2 DEF Replay, store
<1>3. CASE UNCHANGED vars
  BY <1>3 DEF vars, store
<1>4. QED
  BY <1>1, <1>2, <1>3, Zenon DEF Next, Deliver, Continue

-----------------------------------------------------------------------------
(* Types. *)

Basics == TypeOK /\ AppendedOnce

LEMMA BasicsStep ==
  ASSUME Basics, [Next]_vars
  PROVE  Basics'
<1>a. /\ Len(stream) \in Nat /\ DOMAIN stream = 1..Len(stream)
      /\ 1..Len(stream) \subseteq Positions
  BY StreamFits DEF Basics, TypeOK
<1>b. /\ Retained \subseteq Positions /\ \A n \in Retained : n \in Nat \ {0}
      /\ 0 \in 0..MaxAttempts /\ MaxAttempts \in Nat \ {0} /\ None \notin Nat
  BY <1>a, EventAssumption DEF Retained, Positions
<1>c. Entries(0) \in Tables
  BY <1>b DEF Entries, Tables
<1> USE DEF Basics, TypeOK, Tables
<1>1. CASE UNCHANGED <<stream, floor, tables, call, saved, history>>
  BY <1>1 DEF AppendedOnce, tables, history
<1>2. ASSUME NEW e \in Envelopes, AppendEvent(e) PROVE Basics'
  <2>1. stream' = Append(stream, e) /\ \A n \in 1..Len(stream) : stream[n] # e
    BY <1>2, <1>a DEF AppendEvent, Known
  <2>2. stream' \in Seq(Envelopes) /\ Len(stream') = Len(stream) + 1
    BY <2>1
  <2>3. AppendedOnce'
    BY <2>1, <1>a DEF AppendedOnce
  <2>4. QED
    BY <1>2, <1>a, <2>2, <2>3 DEF AppendEvent, tables, history
<1>3. ASSUME NEW c \in Consumers, RegisterFresh(c) \/ RegisterRestored(c) \/ Save(c)
      PROVE  Basics'
  <2>1. CASE RegisterFresh(c)
    BY <2>1 DEF RegisterFresh, AppendedOnce, store, history
  <2>2. CASE RegisterRestored(c)
    BY <2>2 DEF RegisterRestored, AppendedOnce, store, history
  <2>3. CASE Save(c)
    BY <2>3 DEF Save, AppendedOnce, store, tables, history
  <2>4. QED
    BY <1>3, <2>1, <2>2, <2>3
<1>4. ASSUME NEW w \in Workers, NEW c \in Consumers, AckBegin(w, c) PROVE Basics'
  <2>1. PICK n \in Retained :
          /\ call' = [call EXCEPT ![w] =
                         [at |-> "move", consumer |-> c, sequence |-> n, dead |-> FALSE]]
          /\ handled' = [handled EXCEPT ![c] = @ \cup {n}]
          /\ UNCHANGED <<store, tables, replays, saved, restarts, failures>>
    BY <1>4 DEF AckBegin
  <2>2. [at |-> "move", consumer |-> c, sequence |-> n, dead |-> FALSE] \in Calls
    BY <1>b DEF Calls, Moving
  <2>3. QED
    BY <2>1, <2>2, <1>b DEF AppendedOnce, store, tables
<1>5. ASSUME NEW w \in Workers, NEW c \in Consumers, FailBegin(w, c) PROVE Basics'
  <2>1. PICK n \in Retained :
          /\ call' = [call EXCEPT ![w] = [at |-> "count", consumer |-> c, sequence |-> n,
                                          tries |-> Tries(c, n)]]
          /\ failures' = [failures EXCEPT ![c][n] = IF @ < MaxAttempts THEN @ + 1 ELSE @]
          /\ UNCHANGED <<store, tables, replays, saved, restarts, handled>>
    BY <1>5 DEF FailBegin
  <2>2. [at |-> "count", consumer |-> c, sequence |-> n, tries |-> Tries(c, n)] \in Calls
    BY <1>b DEF Calls, Counting, Tries
  <2>3. failures' \in Tables
    BY <2>1, <1>b
  <2>4. QED
    BY <2>1, <2>2, <2>3, <1>b DEF AppendedOnce, store, tables
<1>6. ASSUME NEW w \in Workers, CountFailure(w) PROVE Basics'
  <2> DEFINE c == call[w].consumer
             n == call[w].sequence
  <2>1. c \in Consumers /\ n \in Positions /\ call[w].tries \in Nat
    BY <1>6, CallTyped DEF CountFailure
  <2>2. [at |-> "move", consumer |-> c, sequence |-> n, dead |-> TRUE] \in Calls
    BY <2>1 DEF Calls, Moving
  <2>3. Idle \in Calls
    BY DEF Calls
  <2>4. attempts' \in Tables
    BY <1>6, <1>b, <2>1 DEF CountFailure
  <2>5. /\ call' \in [Workers -> Calls] /\ handled' \in [Consumers -> SUBSET Positions]
        /\ deadLetters' \subseteq Consumers \X Positions
    <3>1. \/ /\ deadLetters' = deadLetters \cup {<<c, n>>}
             /\ handled' = [handled EXCEPT ![c] = @ \cup {n}]
             /\ call' = [call EXCEPT ![w] =
                            [at |-> "move", consumer |-> c, sequence |-> n, dead |-> TRUE]]
          \/ call' = [call EXCEPT ![w] = Idle] /\ UNCHANGED <<deadLetters, handled>>
      BY <1>6, Zenon DEF CountFailure
    <3>2. <<c, n>> \in Consumers \X Positions /\ {n} \subseteq Positions
      BY <2>1
    <3>3. CASE handled' = [handled EXCEPT ![c] = @ \cup {n}] /\ deadLetters' = deadLetters \cup {<<c, n>>}
               /\ call' = [call EXCEPT ![w] =
                              [at |-> "move", consumer |-> c, sequence |-> n, dead |-> TRUE]]
      <4> HIDE DEF c, n
      <4>1. handled' \in [Consumers -> SUBSET Positions]
        BY <3>2, <3>3, <2>1
      <4>2. QED
        BY <2>2, <3>2, <3>3, <4>1
    <3>4. CASE call' = [call EXCEPT ![w] = Idle] /\ UNCHANGED <<deadLetters, handled>>
      BY <2>3, <3>4
    <3>5. QED
      BY <3>1, <3>3, <3>4
  <2>6. UNCHANGED <<store, checkpoint, acked, replays, saved, restarts, failures>>
    BY <1>6 DEF CountFailure
  <2>7. QED
    BY <2>4, <2>5, <2>6 DEF AppendedOnce, store
<1>7. ASSUME NEW w \in Workers, Move(w) PROVE Basics'
  <2>1. /\ call[w].at = "move" /\ call[w] \in Moving
        /\ call[w].consumer \in Consumers /\ call[w].sequence \in Nat
    BY <1>7, CallTyped DEF Move, Positions
  <2>2. [call[w] EXCEPT !.at = "note"] \in Calls
    BY <2>1 DEF Calls, Moving
  <2>3. call' = [call EXCEPT ![w] = [call[w] EXCEPT !.at = "note"]]
    BY <1>7 DEF Move
  <2>4. QED
    BY <1>7, <2>1, <2>2, <2>3 DEF Move, AppendedOnce, store, history
<1>8. ASSUME NEW w \in Workers, Note(w) PROVE Basics'
  <2>1. call[w].consumer \in Consumers /\ call[w].sequence \in Positions
    BY <1>8, CallTyped DEF Note
  <2>2. attempts' \in Tables
    BY <1>8, <1>b, <2>1 DEF Note
  <2>3. QED
    BY <1>8, <2>1, <2>2 DEF Note, AppendedOnce, store, history, Calls
<1>9. ASSUME NEW w \in Workers, PruneStore(w) PROVE Basics'
  <2>1. call[w].before \in Nat \ {0}
    BY <1>9, CallTyped DEF PruneStore
  <2>2. floor' \in 0..Len(stream) /\ UNCHANGED stream
    BY <1>9, <1>a, <2>1 DEF PruneStore, Prune
  <2>3. QED
    BY <1>9, <2>2 DEF PruneStore, AppendedOnce, tables, history, Calls
<1>10. ASSUME NEW w \in Workers, NEW before \in 1..Cardinality(Envelopes) + 1,
              PruneBegin(w, before)
       PROVE  Basics'
  <2>1. Cardinality(Envelopes) \in Nat
    BY EventAssumption, FS_CardinalityType
  <2>2. [at |-> "prune", before |-> before, consulted |-> Registered] \in Calls
    BY <2>1 DEF Calls, Pruning, Registered
  <2>3. QED
    BY <1>10, <2>2 DEF PruneBegin, AppendedOnce, store, tables, history
<1>11. CASE Restart
  BY <1>11, <1>c DEF Restart, AppendedOnce, store, history
<1> HIDE DEF Basics, TypeOK
<1>12. QED
  BY <1>1, <1>2, <1>3, <1>4, <1>5, <1>6, <1>7, <1>8, <1>9, <1>10, <1>11, NextCases, Zenon

-----------------------------------------------------------------------------
(* Deliveries. *)

LEMMA DeliveriesStep ==
  ASSUME Basics, Deliveries, [Next]_vars
  PROVE  Deliveries'
<1>a. /\ \A n \in Retained : n \in Nat \ {0} /\ n \in Positions
      /\ 0 \in Nat /\ None \notin Nat /\ Positions \subseteq Nat \ {0}
  BY StreamFits, EventAssumption DEF Retained, Positions, Basics, TypeOK
<1>b. \A w \in Workers : call[w].at \in {"move", "note", "count"} => call[w].consumer \in Consumers
                                                         /\ call[w].sequence \in Nat \ {0}
  BY <1>a, CallTyped DEF Basics, TypeOK
<1>c. /\ checkpoint \in [Consumers -> Nat \cup {None}] /\ saved \in [Consumers -> Nat \cup {None}]
      /\ handled \in [Consumers -> SUBSET Positions] /\ call \in [Workers -> Calls]
  BY DEF Basics, TypeOK
<1>d. /\ Idle.at = "idle"
      /\ \A w \in Workers : call[w].at = "prune" => call[w].consulted \subseteq Consumers
  BY <1>c, CallTyped DEF Idle
<1> USE DEF Deliveries, NoEventIsSkipped, CallsAreInTurn
<1>1. CASE UNCHANGED <<checkpoint, saved, handled, call>>
  BY <1>1
<1>2. CASE UNCHANGED <<stream, floor, tables, call, saved, history>>
  BY <1>1, <1>2 DEF tables, history
<1>3. ASSUME NEW e \in Envelopes, AppendEvent(e) PROVE Deliveries'
  BY <1>1, <1>3 DEF AppendEvent, tables, history
<1>4. ASSUME NEW c \in Consumers, RegisterFresh(c) \/ RegisterRestored(c) \/ Save(c)
      PROVE  Deliveries'
  <2>1. CASE RegisterFresh(c)
    BY <1>a, <1>c, <2>1 DEF RegisterFresh, history
  <2>2. CASE RegisterRestored(c)
    BY <1>c, <2>2 DEF RegisterRestored, history
  <2>3. CASE Save(c)
    BY <1>c, <2>3 DEF Save, tables, history
  <2>4. QED
    BY <1>4, <2>1, <2>2, <2>3
<1>5. ASSUME NEW w \in Workers, NEW c \in Consumers, AckBegin(w, c) PROVE Deliveries'
  <2>1. PICK n \in Retained :
          /\ c \in Registered /\ InTurn(c, n)
          /\ call' = [call EXCEPT ![w] =
                         [at |-> "move", consumer |-> c, sequence |-> n, dead |-> FALSE]]
          /\ handled' = [handled EXCEPT ![c] = @ \cup {n}]
          /\ UNCHANGED <<tables, saved>>
    BY <1>5 DEF AckBegin
  <2>2. checkpoint[c] \in Nat /\ n = checkpoint[c] + 1 /\ 1..n = 1..checkpoint[c] \cup {n}
    BY <2>1, <1>a, <1>c DEF Registered, InTurn
  <2>3. 1..n \subseteq handled'[c]
    BY <2>1, <2>2, <1>c DEF Registered
  <2>4. \A d \in Consumers : handled[d] \subseteq handled'[d]
    BY <2>1, <1>c
  <2>5. NoEventIsSkipped'
    BY <2>1, <2>4 DEF tables
  <2>6. CallsAreInTurn'
    BY <2>1, <2>3, <2>4, <1>b, <1>c, <1>d
  <2>7. QED
    BY <2>5, <2>6
<1>6. ASSUME NEW w \in Workers, NEW c \in Consumers, FailBegin(w, c) PROVE Deliveries'
  <2>1. PICK n \in Retained :
          /\ c \in Registered /\ InTurn(c, n)
          /\ call' = [call EXCEPT ![w] = [at |-> "count", consumer |-> c, sequence |-> n,
                                          tries |-> Tries(c, n)]]
          /\ UNCHANGED <<tables, saved, handled>>
    BY <1>6 DEF FailBegin
  <2>2. checkpoint[c] \in Nat /\ n - 1 = checkpoint[c]
    BY <2>1, <1>a, <1>c DEF Registered, InTurn
  <2>3. 1..(n - 1) \subseteq handled[c]
    BY <2>1, <2>2 DEF Registered
  <2>4. QED
    BY <2>1, <2>3, <1>c DEF tables
<1>7. ASSUME NEW w \in Workers, CountFailure(w) PROVE Deliveries'
  <2> DEFINE c == call[w].consumer
             n == call[w].sequence
  <2>1. c \in Consumers /\ n \in Nat \ {0} /\ 1..(n - 1) \subseteq handled[c]
    BY <1>7, <1>b DEF CountFailure
  <2>2. UNCHANGED <<checkpoint, saved>>
    BY <1>7 DEF CountFailure
  <2>3. \/ /\ handled' = [handled EXCEPT ![c] = @ \cup {n}]
           /\ call' = [call EXCEPT ![w] =
                          [at |-> "move", consumer |-> c, sequence |-> n, dead |-> TRUE]]
        \/ call' = [call EXCEPT ![w] = Idle] /\ UNCHANGED handled
    BY <1>7, Zenon DEF CountFailure
  <2> HIDE DEF c, n
  <2>4. CASE call' = [call EXCEPT ![w] = Idle] /\ UNCHANGED handled
    BY <2>2, <2>4, <1>c, <1>d
  <2>5. CASE /\ handled' = [handled EXCEPT ![c] = @ \cup {n}]
             /\ call' = [call EXCEPT ![w] =
                            [at |-> "move", consumer |-> c, sequence |-> n, dead |-> TRUE]]
    <3>1. 1..n = 1..(n - 1) \cup {n}
      BY <2>1
    <3>2. 1..n \subseteq handled'[c] /\ \A d \in Consumers : handled[d] \subseteq handled'[d]
      BY <2>1, <2>5, <3>1, <1>c
    <3>3. NoEventIsSkipped'
      BY <2>2, <3>2
    <3>4. CallsAreInTurn'
      BY <2>5, <3>2, <1>b, <1>c, <1>d
    <3>5. QED
      BY <3>3, <3>4
  <2>6. QED
    BY <2>3, <2>4, <2>5
<1>8. ASSUME NEW w \in Workers, Move(w) PROVE Deliveries'
  <2>1. /\ call[w].at = "move"
        /\ checkpoint' = [checkpoint EXCEPT ![call[w].consumer] = call[w].sequence]
        /\ call' = [call EXCEPT ![w] = [call[w] EXCEPT !.at = "note"]]
        /\ UNCHANGED <<saved, handled>>
    BY <1>8 DEF Move, history
  <2>2. /\ call[w] \in Moving /\ call[w].consumer \in Consumers
        /\ 1..call[w].sequence \subseteq handled[call[w].consumer]
    BY <2>1, <1>c, CallTyped
  <2>3. /\ [call[w] EXCEPT !.at = "note"].at = "note"
        /\ [call[w] EXCEPT !.at = "note"].consumer = call[w].consumer
        /\ [call[w] EXCEPT !.at = "note"].sequence = call[w].sequence
    BY <2>2 DEF Moving
  <2>4. NoEventIsSkipped'
    BY <2>1, <2>2, <1>c
  <2>5. CallsAreInTurn'
    BY <2>1, <2>2, <2>3, <1>c
  <2>6. QED
    BY <2>4, <2>5
<1>9. ASSUME NEW w \in Workers, Note(w) \/ PruneStore(w) PROVE Deliveries'
  <2>1. call' = [call EXCEPT ![w] = Idle] /\ UNCHANGED <<checkpoint, saved, handled>>
    BY <1>9 DEF Note, PruneStore, tables, history
  <2>2. QED
    BY <2>1, <1>c, <1>d
<1>10. ASSUME NEW w \in Workers, NEW before \in 1..Cardinality(Envelopes) + 1,
              PruneBegin(w, before)
       PROVE  Deliveries'
  <2>1. /\ call' = [call EXCEPT ![w] =
                       [at |-> "prune", before |-> before, consulted |-> Registered]]
        /\ NoneNeeds(before)
        /\ UNCHANGED <<checkpoint, saved, handled>>
    BY <1>10 DEF PruneBegin, tables, history
  <2>2. ASSUME NEW c \in Registered PROVE 1..(before - 1) \subseteq handled[c]
    <3>1. c \in Consumers /\ checkpoint[c] \in Nat /\ checkpoint[c] >= before - 1
      BY <2>1, <1>c DEF Registered, NoneNeeds
    <3>2. 1..checkpoint[c] \subseteq handled[c]
      BY <1>a, <3>1
    <3>3. before \in Nat
      BY EventAssumption, FS_CardinalityType
    <3>4. QED
      BY <3>1, <3>2, <3>3
  <2>3. CallsAreInTurn'
    BY <2>1, <2>2, <1>c
  <2>4. QED
    BY <2>1, <2>3
<1>11. CASE Restart
  <2>1. /\ \A c \in Consumers : checkpoint'[c] = None
        /\ UNCHANGED <<saved, handled, call>>
    BY <1>11 DEF Restart, history
  <2>2. QED
    BY <2>1
<1> HIDE DEF Deliveries
<1>12. QED
  BY <1>2, <1>3, <1>4, <1>5, <1>6, <1>7, <1>8, <1>9, <1>10, <1>11, NextCases, Zenon

-----------------------------------------------------------------------------
(* Dead letters. *)

LEMMA DeadLettersStep ==
  ASSUME Basics, DeadLetters, [Next]_vars
  PROVE  DeadLetters'
<1>a. /\ \A n \in Retained : n \in Positions
      /\ MaxAttempts \in Nat \ {0}
  BY StreamFits, EventAssumption DEF Retained, Basics, TypeOK
<1>b. /\ attempts \in Tables /\ failures \in Tables /\ call \in [Workers -> Calls]
      /\ deadLetters \subseteq Consumers \X Positions
  BY DEF Basics, TypeOK
<1>c. /\ \A w \in Workers : call[w].at = "count" =>
            /\ call[w].consumer \in Consumers /\ call[w].sequence \in Positions
            /\ call[w].tries \in Nat \ {0}
      /\ Idle.at = "idle"
  BY <1>b, CallTyped DEF Idle
<1> USE DEF DeadLetters, AttemptsHappened, NoEarlyDeadLetter, Tables
<1>1. CASE UNCHANGED <<attempts, failures, deadLetters, call>>
  BY <1>1
<1>2. CASE UNCHANGED <<stream, floor, tables, call, saved, history>>
  BY <1>1, <1>2 DEF tables, history
<1>3. ASSUME NEW e \in Envelopes, AppendEvent(e) PROVE DeadLetters'
  BY <1>1, <1>3 DEF AppendEvent, tables, history
<1>4. ASSUME NEW c \in Consumers, RegisterFresh(c) \/ RegisterRestored(c) \/ Save(c)
      PROVE  DeadLetters'
  BY <1>1, <1>4 DEF RegisterFresh, RegisterRestored, Save, tables, history
\* A call that does not count, and a table that stays: nothing to show.
<1>5. ASSUME NEW w \in Workers, NEW to, call' = [call EXCEPT ![w] = to], to.at # "count",
             UNCHANGED <<attempts, failures, deadLetters>>
      PROVE  DeadLetters'
  BY <1>b, <1>5
<1>6. ASSUME NEW w \in Workers, NEW c \in Consumers, AckBegin(w, c) PROVE DeadLetters'
  <2>1. PICK n \in Retained :
          /\ call' = [call EXCEPT ![w] =
                         [at |-> "move", consumer |-> c, sequence |-> n, dead |-> FALSE]]
          /\ UNCHANGED <<tables, failures>>
    BY <1>6 DEF AckBegin
  <2>2. QED
    BY <2>1, <1>5 DEF tables
<1>7. ASSUME NEW w \in Workers, NEW c \in Consumers, FailBegin(w, c) PROVE DeadLetters'
  <2>1. PICK n \in Retained :
          /\ call' = [call EXCEPT ![w] = [at |-> "count", consumer |-> c, sequence |-> n,
                                          tries |-> Tries(c, n)]]
          /\ failures' = [failures EXCEPT ![c][n] = IF @ < MaxAttempts THEN @ + 1 ELSE @]
          /\ UNCHANGED tables
    BY <1>7 DEF FailBegin
  <2>2. /\ n \in Positions /\ attempts[c][n] \in Nat /\ attempts[c][n] <= failures[c][n]
        /\ failures[c][n] \in 0..MaxAttempts
    BY <2>1, <1>a, <1>b
  <2>3. /\ \A d \in Consumers, m \in Positions :
              /\ failures[d][m] <= failures'[d][m]
              /\ failures[d][m] = MaxAttempts => failures'[d][m] = MaxAttempts
        /\ \/ failures'[c][n] = MaxAttempts
           \/ failures'[c][n] = failures[c][n] + 1
        /\ failures' \in Tables
    <3>1. failures'[c] = [failures[c] EXCEPT ![n] = IF @ < MaxAttempts THEN @ + 1 ELSE @]
      BY <2>1, <1>b
    <3>2. failures'[c][n] = IF failures[c][n] < MaxAttempts THEN failures[c][n] + 1
                                                        ELSE failures[c][n]
      BY <2>2, <3>1, <1>b
    <3>3. failures' \in Tables
      BY <2>1, <2>2, <1>a, <1>b
    <3>4. ASSUME NEW d \in Consumers, NEW m \in Positions, d # c \/ m # n
          PROVE  failures'[d][m] = failures[d][m]
      BY <2>1, <3>1, <3>4, <1>b
    <3>5. \A d \in Consumers, m \in Positions : failures[d][m] \in 0..MaxAttempts
      BY <1>b
    <3>6. /\ failures[c][n] <= failures'[c][n]
          /\ failures[c][n] = MaxAttempts => failures'[c][n] = MaxAttempts
          /\ failures'[c][n] = MaxAttempts \/ failures'[c][n] = failures[c][n] + 1
      BY <2>2, <3>2, <1>a
    <3>7. ASSUME NEW d \in Consumers, NEW m \in Positions
          PROVE  /\ failures[d][m] <= failures'[d][m]
                 /\ failures[d][m] = MaxAttempts => failures'[d][m] = MaxAttempts
      <4>1. CASE d = c /\ m = n
        BY <3>6, <4>1
      <4>2. CASE d # c \/ m # n
        BY <3>4, <3>5, <4>2, <1>a
      <4>3. QED
        BY <4>1, <4>2
    <3>8. QED
      BY <3>3, <3>6, <3>7
  <2>4. Tries(c, n) <= failures'[c][n] \/ failures'[c][n] = MaxAttempts
    BY <2>2, <2>3, <1>a DEF Tries
  <2>5. ASSUME NEW v \in Workers, call'[v].at = "count"
        PROVE  LET f == failures'[call'[v].consumer][call'[v].sequence] IN
               call'[v].tries <= f \/ f = MaxAttempts
    <3>1. CASE v = w
      BY <2>1, <2>4, <3>1, <1>b
    <3>2. CASE v # w
      <4>1. call'[v] = call[v]
        BY <2>1, <3>2, <1>b
      <4>2. /\ call[v].consumer \in Consumers /\ call[v].sequence \in Positions
            /\ call[v].tries \in Nat
        BY <2>5, <4>1, <1>c
      <4>3. LET f == failures[call[v].consumer][call[v].sequence] IN
            call[v].tries <= f \/ f = MaxAttempts
        BY <2>5, <4>1
      <4>4. QED
        BY <4>1, <4>2, <4>3, <2>3, <1>a, <1>b
    <3>3. QED
      BY <3>1, <3>2
  <2>6. \A d \in Consumers, m \in Positions : attempts'[d][m] <= failures'[d][m]
    BY <2>1, <2>3, <1>a, <1>b DEF tables
  <2>7. NoEarlyDeadLetter'
    BY <2>1, <2>3, <1>b DEF tables
  <2>8. QED
    BY <2>5, <2>6, <2>7
<1>8. ASSUME NEW w \in Workers, CountFailure(w) PROVE DeadLetters'
  <2> DEFINE c == call[w].consumer
             n == call[w].sequence
             tries == call[w].tries
  <2>1. /\ c \in Consumers /\ n \in Positions /\ tries \in Nat \ {0}
        /\ tries <= failures[c][n] \/ failures[c][n] = MaxAttempts
    BY <1>8, <1>c DEF CountFailure
  <2>2. /\ attempts' = [attempts EXCEPT ![c][n] = IF tries < MaxAttempts THEN tries ELSE MaxAttempts]
        /\ failures' = failures
    BY <1>8 DEF CountFailure
  <2>3. \/ /\ deadLetters' = deadLetters \cup {<<c, n>>}
           /\ tries >= MaxAttempts
           /\ call' = [call EXCEPT ![w] =
                          [at |-> "move", consumer |-> c, sequence |-> n, dead |-> TRUE]]
        \/ call' = [call EXCEPT ![w] = Idle] /\ UNCHANGED deadLetters
    BY <1>8, Zenon DEF CountFailure, Exhausted
  <2> HIDE DEF c, n, tries
  <2>4. failures[c][n] \in 0..MaxAttempts /\ (tries >= MaxAttempts => failures[c][n] = MaxAttempts)
    <3>1. failures[c] \in [Positions -> 0..MaxAttempts]
      BY <2>1, <1>b
    <3>2. failures[c][n] \in 0..MaxAttempts
      BY <2>1, <3>1
    <3>3. QED
      BY <2>1, <3>2, <1>a
  <2>5. \A d \in Consumers, m \in Positions : attempts'[d][m] <= failures'[d][m]
    BY <2>1, <2>2, <2>4, <1>a, <1>b
  <2>6. NoEarlyDeadLetter'
    BY <2>2, <2>3, <2>4
  <2>7. \A v \in Workers : call'[v].at = "count" => call'[v] = call[v]
    BY <2>3, <1>b, <1>c
  <2>8. \A v \in Workers :
          call'[v].at = "count" =>
            LET f == failures'[call'[v].consumer][call'[v].sequence] IN
            call'[v].tries <= f \/ f = MaxAttempts
    BY <2>2, <2>7
  <2>9. QED
    BY <2>5, <2>6, <2>8
<1>9. ASSUME NEW w \in Workers, Move(w) PROVE DeadLetters'
  <2>1. [call[w] EXCEPT !.at = "note"].at = "note"
    BY <1>9, <1>b, CallTyped DEF Move, Moving
  <2>2. call' = [call EXCEPT ![w] = [call[w] EXCEPT !.at = "note"]]
    BY <1>9 DEF Move
  <2>3. UNCHANGED <<attempts, failures, deadLetters>>
    BY <1>9 DEF Move, history
  <2>4. QED
    BY <2>1, <2>2, <2>3, <1>5
<1>10. ASSUME NEW w \in Workers, Note(w) PROVE DeadLetters'
  <2>1. call[w].consumer \in Consumers /\ call[w].sequence \in Positions
    BY <1>10, <1>b, CallTyped DEF Note
  <2>2. /\ \A d \in Consumers, m \in Positions : attempts'[d][m] <= attempts[d][m]
        /\ attempts' \in Tables
    BY <1>10, <2>1, <1>a, <1>b DEF Note
  <2>3. call' = [call EXCEPT ![w] = Idle] /\ UNCHANGED <<deadLetters, failures>>
    BY <1>10 DEF Note, history
  <2>4. \A d \in Consumers, m \in Positions : attempts'[d][m] <= failures'[d][m]
    BY <2>2, <2>3, <1>a, <1>b
  <2>5. QED
    BY <2>3, <2>4, <1>b, <1>c
<1>11. ASSUME NEW w \in Workers, PruneStore(w) PROVE DeadLetters'
  BY <1>11, <1>5, <1>c DEF PruneStore, tables, history
<1>12. ASSUME NEW w \in Workers, NEW before \in 1..Cardinality(Envelopes) + 1,
              PruneBegin(w, before)
       PROVE  DeadLetters'
  BY <1>12, <1>5 DEF PruneBegin, tables, history
<1>13. CASE Restart
  <2>1. /\ attempts' = Entries(0) /\ deadLetters' = {}
        /\ UNCHANGED <<failures, call>>
    BY <1>13 DEF Restart, history
  <2>2. QED
    BY <2>1, <1>a, <1>b DEF Entries
<1> HIDE DEF DeadLetters
<1>14. QED
  BY <1>2, <1>3, <1>4, <1>6, <1>7, <1>8, <1>9, <1>10, <1>11, <1>12, <1>13, NextCases, Zenon

-----------------------------------------------------------------------------
LEMMA Inductive == Spec => []IInv
<1>1. Init => IInv
  <2> SUFFICES ASSUME Init PROVE IInv
    OBVIOUS
  <2>1. 0 \in 0..MaxAttempts /\ None \notin Nat /\ Idle \in Calls /\ Idle.at = "idle"
    BY EventAssumption DEF Calls, Idle
  <2>2. TypeOK
    BY <2>1 DEF Init, TypeOK, Tables, Entries
  <2>3. AppendedOnce
    BY DEF Init, AppendedOnce
  <2>4. Deliveries
    BY <2>1 DEF Init, Deliveries, NoEventIsSkipped, CallsAreInTurn
  <2>5. DeadLetters
    BY <2>1 DEF Init, DeadLetters, AttemptsHappened, NoEarlyDeadLetter, Entries
  <2>6. QED
    BY <2>2, <2>3, <2>4, <2>5 DEF IInv
<1>2. IInv /\ [Next]_vars => IInv'
  BY BasicsStep, DeliveriesStep, DeadLettersStep DEF IInv, Basics
<1>3. QED
  BY <1>1, <1>2, PTL DEF Spec

(* Every variable keeps its type; the tables have room for every sequence, *)
(* since no event is appended twice (event_pipeline.py:495-529).           *)
THEOREM TypeCorrect == Spec => []TypeOK
<1>1. IInv => TypeOK
  BY DEF IInv
<1>2. QED
  BY Inductive, <1>1, PTL

(* Acknowledgements that overtake each other, dead letters and restarts    *)
(* from an old checkpoint included, no checkpoint passes an event its      *)
(* consumer has not dealt with (event_pipeline.py:753-840).                *)
THEOREM NothingIsSkipped == Spec => []NoEventIsSkipped
<1>1. IInv => NoEventIsSkipped
  BY DEF IInv, Deliveries
<1>2. QED
  BY Inductive, <1>1, PTL

(* Counts are lost between workers but never invented: a dead letter has   *)
(* failed as often as the limit says (event_pipeline.py:812-830).          *)
THEOREM DeadLettersHadTheirAttempts == Spec => []NoEarlyDeadLetter
<1>1. IInv => NoEarlyDeadLetter
  BY DEF IInv, DeadLetters
<1>2. QED
  BY Inductive, <1>1, PTL

(* What a prune removes was dealt with by every consumer it asked, however *)
(* long ago it asked (event_pipeline.py:879-909).                          *)
THEOREM PruningIsSafe == Spec => PruneKeepsUnhandled
<1> DEFINE Step == \A w \in Workers : floor' # floor /\ call[w].at = "prune" /\ call'[w] = Idle =>
                     \A c \in call[w].consulted : floor + 1..floor' \subseteq handled[c]
<1>1. ASSUME IInv, [Next]_vars PROVE Step
  <2>1. ASSUME NEW w \in Workers, PruneStore(w) PROVE Step
    <3>1. /\ call \in [Workers -> Calls] /\ stream \in Seq(Envelopes)
          /\ floor \in Nat /\ Len(stream) \in Nat
      BY <1>1 DEF IInv, TypeOK
    <3>2. /\ call' = [call EXCEPT ![w] = Idle] /\ call[w].at = "prune"
          /\ call[w].before \in Nat \ {0}
      BY <2>1, <3>1, CallTyped DEF PruneStore
    <3>3. floor' # floor => floor' \in Nat /\ floor' <= call[w].before - 1
      BY <2>1, <3>1, <3>2 DEF PruneStore, Prune
    <3>4. \A c \in call[w].consulted : 1..(call[w].before - 1) \subseteq handled[c]
      BY <1>1, <3>2 DEF IInv, Deliveries, CallsAreInTurn
    <3>5. \A v \in Workers : call[v].at = "prune" /\ call'[v] = Idle => v = w
      BY <3>1, <3>2 DEF Idle
    <3>6. floor' # floor => \A c \in call[w].consulted : floor + 1..floor' \subseteq handled[c]
      BY <3>1, <3>2, <3>3, <3>4
    <3>7. QED
      BY <3>5, <3>6
  <2>2. CASE floor' = floor
    BY <2>2
  <2>3. ASSUME NEW e \in Envelopes, AppendEvent(e) PROVE Step
    BY <2>2, <2>3 DEF AppendEvent
  <2>4. ASSUME NEW c \in Consumers, RegisterFresh(c) \/ RegisterRestored(c) \/ Save(c)
        PROVE  Step
    BY <2>2, <2>4 DEF RegisterFresh, RegisterRestored, Save, store
  <2>5. ASSUME NEW w \in Workers, NEW c \in Consumers, AckBegin(w, c) \/ FailBegin(w, c)
        PROVE  Step
    BY <2>2, <2>5 DEF AckBegin, FailBegin, store
  <2>6. ASSUME NEW w \in Workers, CountFailure(w) \/ Move(w) \/ Note(w) PROVE Step
    BY <2>2, <2>6 DEF CountFailure, Move, Note, store
  <2>7. ASSUME NEW w \in Workers, NEW before \in 1..Cardinality(Envelopes) + 1,
               PruneBegin(w, before)
        PROVE  Step
    BY <2>2, <2>7 DEF PruneBegin, store
  <2>8. CASE Restart \/ UNCHANGED <<stream, floor, tables, call, saved, history>>
    BY <2>2, <2>8 DEF Restart, store
  <2> HIDE DEF Step
  <2>9. QED
    BY <1>1, <2>1, <2>3, <2>4, <2>5, <2>6, <2>7, <2>8, NextCases, Zenon
<1>2. IInv /\ [Next]_vars => [Step]_vars
  BY <1>1
<1>3. QED
  BY <1>2, Inductive, PTL DEF Spec, PruneKeepsUnhandled
=============================================================================
