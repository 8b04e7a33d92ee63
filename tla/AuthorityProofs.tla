-------------------------- MODULE AuthorityProofs --------------------------
(***************************************************************************)
(* Proofs about Authority for any threads, commands and queue bound: type  *)
(* correctness, the count of calls, truth of the answers, the chains of    *)
(* revisions, and the implementation of CommandLedger; and about the       *)
(* RealtimeBuffer that publishes its events, for any subscribers and any   *)
(* capacities.  Every store step is the same to the store whichever thread *)
(* takes it, so the lemmas speak of Store (the step appends one event or   *)
(* changes nothing) and of Say (one thread gets its answer, or none does). *)
(***************************************************************************)
EXTENDS RealtimeBuffer, TLAPS, FiniteSetTheorems, SequenceTheorems

USE CommandsAssumption, PendingAssumption

(* Everything the store knows agrees with the log. *)
StoreAgrees ==
    /\ eventSequence = Len(events)
    /\ \A i \in 1..Len(events) : events[i].sequence = i
    /\ \A k \in Keys : results[k] = None =>
         \A i \in 1..Len(events) : events[i].command.key # k
    /\ \A k \in Keys : results[k] # None =>
         /\ results[k].sequence \in 1..Len(events)
         /\ events[results[k].sequence] = results[k]
         /\ results[k].command.key = k

(* The revision of a target is that of its last event. *)
RevisionIsLast ==
    \A o \in Targets :
        /\ \A i \in 1..Len(events) :
             events[i].command.target = o => events[i].revision <= revision[o]
        /\ revision[o] > 0 =>
             \E i \in 1..Len(events) : events[i].command.target = o /\ events[i].revision = revision[o]

(* The counters count. *)
Sent(s) == {i \in 1..Len(events) : events[i].command.session = s}
Written(o) == {i \in 1..Len(events) : events[i].command.target = o}
CountersCount ==
    /\ \A s \in Sessions : last[s] = Cardinality(Sent(s))
    /\ \A o \in Targets : revision[o] = Cardinality(Written(o))

(* An admitted thread holds a command. *)
CallsHold == \A t \in Threads : stage[t] = "admitted" => call[t] \in Commands

(* A step that applies a command, as the store sees it. *)
Applies(c) ==
    /\ c \in Commands
    /\ results[c.key] = None
    /\ InOrder(c) /\ UpToDate(c)
    /\ Commit(c, NextEvent(c))

Store == UNCHANGED store \/ \E c \in Commands : Applies(c)

(* What one thread may be told. *)
Told(c, said) ==
    \/ /\ said.status \in (Rejections \cup Failures) \ {"idempotency_conflict"} /\ said.event = None
       /\ UNCHANGED store
    \/ /\ said.status = "idempotency_conflict" /\ said.event = None
       /\ results[c.key] # None /\ results[c.key].command # c
       /\ UNCHANGED store
    \/ /\ said.status = "duplicate"
       /\ said.event = results[c.key] /\ results[c.key] # None /\ results[c.key].command = c
       /\ UNCHANGED store
    \/ said.status = "applied" /\ said.event = NextEvent(c) /\ Applies(c)

Say ==
    \/ UNCHANGED <<answer, call>>
    \/ \E t \in Threads, c \in Commands : answer' = [answer EXCEPT ![t] = None] /\ call' = [call EXCEPT ![t] = c]
    \/ \E t \in Threads, c \in Commands, said \in [status : Statuses, event : Event \cup {None}] :
        /\ Told(c, said)
        /\ answer' = [answer EXCEPT ![t] = said]
        /\ call' = [call EXCEPT ![t] = c]

-----------------------------------------------------------------------------
(* Every event of the code is typed: NextEvent makes one.                  *)
LEMMA EventTyped ==
  ASSUME TypeOK, NEW c \in Commands
  PROVE  /\ NextEvent(c) \in Event
         /\ c.session \in Sessions /\ c.target \in Targets /\ c.key \in Keys
         /\ NextEvent(c).command = c
         /\ NextEvent(c).revision = revision[c.target] + 1
         /\ NextEvent(c).sequence = eventSequence + 1
<1>1. c.session \in Sessions /\ c.target \in Targets /\ c.key \in Keys
  BY DEF Sessions, Targets, Keys
<1>2. QED
  BY <1>1 DEF NextEvent, Event, TypeOK

LEMMA LogTyped ==
  ASSUME TypeOK
  PROVE  /\ Len(events) \in Nat
         /\ \A i \in 1..Len(events) :
              events[i] \in Event /\ events[i].command \in Commands /\ events[i].revision \in Nat
<1>1. Len(events) \in Nat /\ \A i \in 1..Len(events) : events[i] \in Event
  BY DEF TypeOK
<1>2. \A e \in Event : e.command \in Commands /\ e.revision \in Nat
  BY DEF Event
<1>3. QED
  BY <1>1, <1>2

(* What a step does to the store, and what it tells a thread.              *)
LEMMA NextIsStore ==
  ASSUME TypeOK, CallsHold, [Next]_vars
  PROVE  Store
<1>1. CASE UNCHANGED vars
  BY <1>1 DEF vars, store, Store
<1>2. ASSUME NEW t \in Threads, NEW c \in Commands, Overload(t, c) \/ Admit(t, c)
      PROVE  Store
  BY <1>2 DEF Overload, Admit, Store, store
<1>3. ASSUME NEW t \in Threads, Serve(t)
      PROVE  Store
  <2>1. CASE Apply(t)
    BY <2>1 DEF Apply, Store, Applies, Fresh
  <2>2. CASE ~Apply(t)
    BY <1>3, <2>2 DEF Serve, Forbid, Replay, RejectOutOfOrder, RejectStale, ClockFails, HandlerFails, Release, Store, store
  <2>3. QED
    BY <2>1, <2>2
<1>4. QED
  BY <1>1, <1>2, <1>3 DEF Next

LEMMA NextIsSay ==
  ASSUME TypeOK, CallsHold, StoreAgrees, [Next]_vars
  PROVE  Say
<1>1. CASE UNCHANGED vars
  BY <1>1 DEF vars, Say
<1>2. ASSUME NEW t \in Threads, NEW c \in Commands, Admit(t, c) PROVE Say
  BY <1>2 DEF Admit, Receive, Say
<1>3. ASSUME NEW t \in Threads, NEW c \in Commands, Overload(t, c) PROVE Say
  <2> DEFINE said == [status |-> "backpressure", event |-> None]
  <2>1. said \in [status : Statuses, event : Event \cup {None}] /\ Told(c, said)
    BY <1>3 DEF Statuses, Failures, Rejections, Told, Overload
  <2>2. answer' = [answer EXCEPT ![t] = said] /\ call' = [call EXCEPT ![t] = c]
    BY <1>3 DEF Overload, Receive
  <2>3. QED
    BY <2>1, <2>2 DEF Say
<1>4. ASSUME NEW t \in Threads, Serve(t) PROVE Say
  <2>1. CASE Release(t)
    BY <2>1 DEF Release, Say
  <2>2. ASSUME NEW status \in Statuses, NEW event \in Event \cup {None},
               Conclude(t, status, event), Told(call[t], [status |-> status, event |-> event])
        PROVE  Say
    <3>1. call[t] \in Commands /\ call' = [call EXCEPT ![t] = call[t]]
      BY <2>2 DEF Conclude, CallsHold, TypeOK
    <3>2. [status |-> status, event |-> event] \in [status : Statuses, event : Event \cup {None}]
      OBVIOUS
    <3>3. answer' = [answer EXCEPT ![t] = [status |-> status, event |-> event]]
      BY <2>2 DEF Conclude
    <3>4. QED
      BY <2>2, <3>1, <3>2, <3>3 DEF Say
  <2>3. ASSUME NEW status \in (Rejections \cup Failures) \ {"idempotency_conflict"},
               Conclude(t, status, None), UNCHANGED store
        PROVE  Say
    BY <2>2, <2>3 DEF Told, Statuses
  <2>4. CASE Forbid(t) \/ RejectOutOfOrder(t) \/ RejectStale(t) \/ HandlerFails(t) \/ ClockFails(t)
    BY <2>3, <2>4 DEF Forbid, RejectOutOfOrder, RejectStale, ClockFails, HandlerFails, Rejections, Failures
  <2>5. CASE Replay(t)
    <3>1. call[t] \in Commands /\ call[t].key \in Keys
      BY <2>5 DEF Replay, Keys
    <3>2. results[call[t].key] \in Event
      BY <2>5, <3>1 DEF Replay, TypeOK
    <3>3. CASE results[call[t].key].command = call[t]
      BY <2>2, <2>5, <3>2, <3>3 DEF Replay, Told, Statuses
    <3>4. CASE results[call[t].key].command # call[t]
      BY <2>2, <2>5, <3>4 DEF Replay, Told, Statuses, Rejections
    <3>5. QED
      BY <3>3, <3>4
  <2>6. CASE Apply(t)
    <3>1. call[t] \in Commands /\ Applies(call[t]) /\ Conclude(t, "applied", NextEvent(call[t]))
      BY <2>6 DEF Apply, Applies, Fresh
    <3>2. NextEvent(call[t]) \in Event
      BY <3>1, EventTyped
    <3>3. QED
      BY <2>2, <3>1, <3>2 DEF Told, Statuses
  <2>7. QED
    BY <1>4, <2>1, <2>4, <2>5, <2>6 DEF Serve
<1>5. QED
  BY <1>1, <1>2, <1>3, <1>4 DEF Next

-----------------------------------------------------------------------------
LEMMA InitHolds == Init => TypeOK /\ StoreAgrees /\ CallsHold
  BY DEF Init, TypeOK, StoreAgrees, CallsHold, Answer

LEMMA StoreTyped ==
  ASSUME TypeOK, Store
  PROVE  /\ revision' \in [Targets -> Nat]
         /\ last' \in [Sessions -> Nat]
         /\ eventSequence' \in Nat
         /\ events' \in Seq(Event)
         /\ results' \in [Keys -> Event \cup {None}]
<1>1. CASE UNCHANGED store
  BY <1>1 DEF TypeOK, store
<1>2. ASSUME NEW c \in Commands, Applies(c)
      PROVE  /\ revision' \in [Targets -> Nat]
             /\ last' \in [Sessions -> Nat]
             /\ eventSequence' \in Nat
             /\ events' \in Seq(Event)
             /\ results' \in [Keys -> Event \cup {None}]
  <2> DEFINE e == NextEvent(c)
  <2>1. e \in Event /\ e.revision \in Nat /\ e.sequence \in Nat /\ c.sequence \in Nat
    BY EventTyped DEF TypeOK
  <2>2. events' = Append(events, e)
    BY <1>2 DEF Applies, Commit
  <2>3. events' \in Seq(Event)
    BY <2>1, <2>2 DEF TypeOK
  <2>4. QED
    BY <1>2, <2>1, <2>3 DEF Applies, Commit, TypeOK
<1>3. QED
  BY <1>1, <1>2 DEF Store

(* pending stays a natural number because it is the number of busy threads. *)
Busy == {t \in Threads : stage[t] # "idle"}

LEMMA CountStep ==
  ASSUME TypeOK, CallsAreCounted, [Next]_vars
  PROVE  CallsAreCounted' /\ pending' \in Nat
<1> USE DEF TypeOK
<1>1. IsFiniteSet(Busy) /\ Cardinality(Busy) \in Nat
  BY FS_Subset, FS_CardinalityType DEF Busy
<1>2. CASE stage' = stage /\ pending' = pending
  BY <1>2 DEF CallsAreCounted
<1>3. ASSUME NEW t \in Threads, NEW c \in Commands, Admit(t, c)
      PROVE  CallsAreCounted' /\ pending' \in Nat
  <2>1. Busy' = Busy \cup {t} /\ t \notin Busy
    BY <1>3 DEF Admit, Receive, Busy
  <2>2. Cardinality(Busy') = Cardinality(Busy) + 1
    BY <1>1, <2>1, FS_AddElement
  <2>3. QED
    BY <1>3, <2>2 DEF Admit, CallsAreCounted, Busy
<1>4. ASSUME NEW t \in Threads, Release(t)
      PROVE  CallsAreCounted' /\ pending' \in Nat
  <2>1. Busy' = Busy \ {t} /\ t \in Busy
    BY <1>4 DEF Release, Busy
  <2>2. Cardinality(Busy') = Cardinality(Busy) - 1 /\ Cardinality(Busy') \in Nat
    BY <1>1, <2>1, FS_RemoveElement, FS_CardinalityType
  <2>3. QED
    BY <1>4, <2>2 DEF Release, CallsAreCounted, Busy
<1>5. ASSUME NEW t \in Threads, NEW status, NEW event, Conclude(t, status, event)
      PROVE  CallsAreCounted' /\ pending' \in Nat
  <2>1. Busy' = Busy /\ pending' = pending
    BY <1>5 DEF Conclude, Busy
  <2>2. QED
    BY <2>1 DEF CallsAreCounted, Busy
<1>6. ASSUME NEW t \in Threads, Serve(t)
      PROVE  CallsAreCounted' /\ pending' \in Nat
  <2>1. CASE Release(t)
    BY <1>4, <2>1
  <2>2. CASE ~Release(t)
    BY <1>5, <1>6, <2>2 DEF Serve, Forbid, Replay, RejectOutOfOrder, RejectStale, ClockFails, HandlerFails, Apply
  <2>3. QED
    BY <2>1, <2>2
<1>7. QED
  BY <1>2, <1>3, <1>6 DEF Next, Overload, vars

LEMMA ThreadsTyped ==
  ASSUME TypeOK, CallsHold, Say, [Next]_vars
  PROVE  /\ stage' \in [Threads -> {"idle", "admitted", "returning"}]
         /\ call' \in [Threads -> Commands \cup {None}]
         /\ answer' \in [Threads -> Answer \cup {None}]
         /\ CallsHold'
<1>1. call' \in [Threads -> Commands \cup {None}] /\ answer' \in [Threads -> Answer \cup {None}]
  <2>1. CASE UNCHANGED <<answer, call>>
    BY <2>1 DEF TypeOK
  <2>2. ASSUME NEW t \in Threads, NEW c \in Commands,
               answer' = [answer EXCEPT ![t] = None], call' = [call EXCEPT ![t] = c]
        PROVE  call' \in [Threads -> Commands \cup {None}] /\ answer' \in [Threads -> Answer \cup {None}]
    BY <2>2 DEF TypeOK
  <2>3. ASSUME NEW t \in Threads, NEW c \in Commands, NEW said \in Answer,
               answer' = [answer EXCEPT ![t] = said], call' = [call EXCEPT ![t] = c]
        PROVE  call' \in [Threads -> Commands \cup {None}] /\ answer' \in [Threads -> Answer \cup {None}]
    BY <2>3 DEF TypeOK
  <2>4. QED
    BY <2>1, <2>2, <2>3 DEF Say, Answer
<1>2. stage' \in [Threads -> {"idle", "admitted", "returning"}] /\ CallsHold'
  <2>1. ASSUME NEW t \in Threads, NEW c \in Commands, Overload(t, c) \/ Admit(t, c)
        PROVE  stage' \in [Threads -> {"idle", "admitted", "returning"}] /\ CallsHold'
    BY <2>1 DEF Overload, Admit, Receive, TypeOK, CallsHold
  <2>2. ASSUME NEW t \in Threads, NEW status, NEW event, Conclude(t, status, event)
        PROVE  stage' \in [Threads -> {"idle", "admitted", "returning"}] /\ CallsHold'
    BY <2>2 DEF Conclude, TypeOK, CallsHold
  <2>3. ASSUME NEW t \in Threads, Serve(t)
        PROVE  stage' \in [Threads -> {"idle", "admitted", "returning"}] /\ CallsHold'
    <3>1. CASE Release(t)
      BY <3>1 DEF Release, TypeOK, CallsHold
    <3>2. CASE ~Release(t)
      BY <2>2, <2>3, <3>2 DEF Serve, Forbid, Replay, RejectOutOfOrder, RejectStale, ClockFails, HandlerFails, Apply
    <3>3. QED
      BY <3>1, <3>2
  <2>4. CASE UNCHANGED vars
    BY <2>4 DEF vars, TypeOK, CallsHold
  <2>5. QED
    BY <2>1, <2>3, <2>4 DEF Next
<1>3. QED
  BY <1>1, <1>2

(* The log after a step that applies a command. *)
LEMMA AppliedLog ==
  ASSUME TypeOK, StoreAgrees, NEW c \in Commands, Applies(c)
  PROVE  /\ Len(events') = Len(events) + 1
         /\ \A i \in 1..Len(events) : events'[i] = events[i]
         /\ events'[Len(events) + 1] = NextEvent(c)
         /\ Len(events) \in Nat
         /\ NextEvent(c).sequence = Len(events) + 1
<1>1. NextEvent(c) \in Event /\ NextEvent(c).sequence = eventSequence + 1
  BY EventTyped
<1>2. events \in Seq(Event) /\ events' = Append(events, NextEvent(c))
  BY DEF TypeOK, Applies, Commit
<1>3. QED
  BY <1>1, <1>2 DEF StoreAgrees

LEMMA StoreAgreesStep ==
  ASSUME TypeOK, StoreAgrees, Store
  PROVE  StoreAgrees'
<1>1. CASE UNCHANGED store
  BY <1>1 DEF StoreAgrees, store
<1>2. ASSUME NEW c \in Commands, Applies(c) PROVE StoreAgrees'
  <2> DEFINE e == NextEvent(c)
  <2>1. /\ e \in Event /\ c.key \in Keys
        /\ e.command = c /\ e.sequence = Len(events) + 1
    BY <1>2, EventTyped, AppliedLog
  <2>2. /\ Len(events') = Len(events) + 1 /\ Len(events) \in Nat
        /\ \A i \in 1..Len(events) : events'[i] = events[i]
        /\ events'[Len(events) + 1] = e
    BY <1>2, AppliedLog
  <2>3. eventSequence' = e.sequence /\ results' = [results EXCEPT ![c.key] = e]
    BY <1>2 DEF Applies, Commit
  <2>4. eventSequence' = Len(events')
    BY <2>1, <2>2, <2>3
  <2>5. \A i \in 1..Len(events') : events'[i].sequence = i
    BY <2>1, <2>2 DEF StoreAgrees
  <2>6. e # None
    BY <2>1
  <2>7. ASSUME NEW k \in Keys, results'[k] = None
        PROVE  \A i \in 1..Len(events') : events'[i].command.key # k
    <3>1. k # c.key /\ results[k] = None
      BY <2>1, <2>3, <2>6, <2>7 DEF TypeOK
    <3>2. QED
      BY <2>1, <2>2, <3>1 DEF StoreAgrees
  <2>8. ASSUME NEW k \in Keys, results'[k] # None
        PROVE  /\ results'[k].sequence \in 1..Len(events')
               /\ events'[results'[k].sequence] = results'[k]
               /\ results'[k].command.key = k
    <3>1. CASE k = c.key
      BY <2>1, <2>2, <2>3, <3>1 DEF TypeOK
    <3>2. CASE k # c.key
      BY <2>2, <2>3, <2>8, <3>2 DEF StoreAgrees, TypeOK
    <3>3. QED
      BY <3>1, <3>2
  <2>9. QED
    BY <2>4, <2>5, <2>7, <2>8 DEF StoreAgrees
<1>3. QED
  BY <1>1, <1>2 DEF Store

-----------------------------------------------------------------------------
(* The inductive invariant that the theorems share. *)
IInv == TypeOK /\ StoreAgrees /\ CallsHold /\ CallsAreCounted

LEMMA InitIInv == Init => IInv
<1> SUFFICES ASSUME Init PROVE IInv
  OBVIOUS
<1>1. {t \in Threads : stage[t] # "idle"} = {}
  BY DEF Init
<1>2. CallsAreCounted
  <2>1. Cardinality({t \in Threads : stage[t] # "idle"}) = 0
    BY <1>1, FS_EmptySet
  <2>2. QED
    BY <2>1 DEF Init, CallsAreCounted
<1>3. QED
  BY <1>2, InitHolds DEF IInv

LEMMA StepIInv ==
  ASSUME IInv, [Next]_vars
  PROVE  IInv' /\ Store /\ Say
<1>1. Store /\ Say
  BY NextIsStore, NextIsSay DEF IInv
<1>2. StoreAgrees'
  BY <1>1, StoreAgreesStep DEF IInv
<1>3. CallsAreCounted' /\ pending' \in Nat
  BY CountStep DEF IInv
<1>4. TypeOK' /\ CallsHold'
  BY <1>1, <1>3, StoreTyped, ThreadsTyped DEF IInv, TypeOK
<1>5. QED
  BY <1>1, <1>2, <1>3, <1>4 DEF IInv

THEOREM Invariance == Spec => []IInv
<1>1. IInv /\ [Next]_vars => IInv'
  BY StepIInv
<1>2. QED
  BY <1>1, InitIInv, PTL DEF Spec

(* Type correctness, for any threads and commands (authority.py:324-516). *)
THEOREM TypeCorrect == Spec => []TypeOK
<1>1. IInv => TypeOK
  BY DEF IInv
<1>2. QED
  BY <1>1, Invariance, PTL

(* No path out of process loses or gives back more than its own place, so  *)
(* that the queue bound holds for any number of threads (authority.py:473- *)
(* 516).                                                                   *)
THEOREM CallsCounted == Spec => []CallsAreCounted
<1>1. IInv => CallsAreCounted
  BY DEF IInv
<1>2. QED
  BY <1>1, Invariance, PTL

-----------------------------------------------------------------------------
(* Answers.                                                                *)

\* What AnswersAreTrue says of one thread.
TrueAnswer(t) ==
    answer[t] # None =>
        /\ answer[t].status \in {"applied", "duplicate"} <=> answer[t].event # None
        /\ answer[t].event # None =>
            /\ answer[t].event.command = call[t]
            /\ answer[t].event.sequence \in 1..Len(events)
            /\ events[answer[t].event.sequence] = answer[t].event
        /\ answer[t].status = "idempotency_conflict" =>
            \E i \in 1..Len(events) :
                /\ events[i].command.key = call[t].key
                /\ events[i].command # call[t]

LEMMA AnswersByThread == AnswersAreTrue <=> \A t \in Threads : TrueAnswer(t)
  BY DEF AnswersAreTrue, TrueAnswer

LEMMA LogGrows ==
  ASSUME TypeOK, StoreAgrees, Store
  PROVE  /\ Len(events) \in Nat /\ Len(events') \in Nat /\ Len(events) <= Len(events')
         /\ \A i \in 1..Len(events) : i \in 1..Len(events') /\ events'[i] = events[i]
<1>1. CASE UNCHANGED store
  BY <1>1 DEF store, TypeOK
<1>2. ASSUME NEW c \in Commands, Applies(c)
      PROVE  /\ Len(events) \in Nat /\ Len(events') \in Nat /\ Len(events) <= Len(events')
             /\ \A i \in 1..Len(events) : i \in 1..Len(events') /\ events'[i] = events[i]
  BY <1>2, AppliedLog
<1>3. QED
  BY <1>1, <1>2 DEF Store

LEMMA AnswersStep ==
  ASSUME IInv, AnswersAreTrue, [Next]_vars
  PROVE  AnswersAreTrue'
<1>1. TypeOK /\ StoreAgrees /\ Store /\ Say
  BY StepIInv DEF IInv
<1>2. /\ Len(events) \in Nat /\ Len(events') \in Nat /\ Len(events) <= Len(events')
      /\ \A i \in 1..Len(events) : i \in 1..Len(events') /\ events'[i] = events[i]
  BY <1>1, LogGrows
<1>3. ASSUME NEW t \in Threads, answer'[t] = answer[t], call'[t] = call[t]
      PROVE  TrueAnswer(t)'
  BY <1>2, <1>3, AnswersByThread DEF TrueAnswer
<1>4. ASSUME NEW t \in Threads, answer'[t] = None
      PROVE  TrueAnswer(t)'
  BY <1>4 DEF TrueAnswer
<1>5. ASSUME NEW t \in Threads, NEW c \in Commands, NEW said \in Answer, Told(c, said),
             answer'[t] = said, call'[t] = c
      PROVE  TrueAnswer(t)'
  <2>1. CASE /\ said.status \in (Rejections \cup Failures) \ {"idempotency_conflict"}
             /\ said.event = None
    BY <1>5, <2>1 DEF TrueAnswer, Rejections, Failures
  <2>2. CASE /\ said.status = "idempotency_conflict" /\ said.event = None
             /\ results[c.key] # None /\ results[c.key].command # c
             /\ UNCHANGED store
    <3>1. c.key \in Keys
      BY DEF Keys
    <3>2. /\ results[c.key].sequence \in 1..Len(events)
          /\ events[results[c.key].sequence] = results[c.key]
          /\ results[c.key].command.key = c.key
      BY <1>1, <2>2, <3>1 DEF StoreAgrees
    <3>3. \E i \in 1..Len(events') : events'[i].command.key = c.key /\ events'[i].command # c
      BY <1>2, <2>2, <3>2
    <3>4. QED
      BY <1>5, <2>2, <3>3 DEF TrueAnswer
  <2>3. CASE /\ said.status = "duplicate"
             /\ said.event = results[c.key] /\ results[c.key] # None /\ results[c.key].command = c
             /\ UNCHANGED store
    <3>1. c.key \in Keys
      BY DEF Keys
    <3>2. said.event.sequence \in 1..Len(events) /\ events[said.event.sequence] = said.event
      BY <1>1, <2>3, <3>1 DEF StoreAgrees
    <3>3. QED
      BY <1>2, <1>5, <2>3, <3>2 DEF TrueAnswer
  <2>4. CASE said.status = "applied" /\ said.event = NextEvent(c) /\ Applies(c)
    <3>1. /\ NextEvent(c) \in Event /\ NextEvent(c).command = c
          /\ NextEvent(c).sequence = Len(events) + 1
          /\ Len(events') = Len(events) + 1
          /\ events'[Len(events) + 1] = NextEvent(c)
      BY <1>1, <2>4, EventTyped, AppliedLog
    <3>2. QED
      BY <1>2, <1>5, <2>4, <3>1 DEF TrueAnswer
  <2>5. QED
    BY <1>5, <2>1, <2>2, <2>3, <2>4 DEF Told
<1>6. ASSUME NEW t \in Threads PROVE TrueAnswer(t)'
  <2>1. CASE UNCHANGED <<answer, call>>
    BY <1>3, <2>1
  <2>2. ASSUME NEW u \in Threads, NEW c \in Commands,
               answer' = [answer EXCEPT ![u] = None], call' = [call EXCEPT ![u] = c]
        PROVE  TrueAnswer(t)'
    <3>1. CASE u = t
      BY <1>1, <1>4, <2>2, <3>1 DEF TypeOK
    <3>2. CASE u # t
      BY <1>1, <1>3, <2>2, <3>2 DEF TypeOK
    <3>3. QED
      BY <3>1, <3>2
  <2>3. ASSUME NEW u \in Threads, NEW c \in Commands, NEW said \in Answer, Told(c, said),
               answer' = [answer EXCEPT ![u] = said], call' = [call EXCEPT ![u] = c]
        PROVE  TrueAnswer(t)'
    <3>1. CASE u = t
      BY <1>1, <1>5, <2>3, <3>1 DEF TypeOK
    <3>2. CASE u # t
      BY <1>1, <1>3, <2>3, <3>2 DEF TypeOK
    <3>3. QED
      BY <3>1, <3>2
  <2>4. QED
    BY <1>1, <2>1, <2>2, <2>3 DEF Say, Answer
<1>7. QED
  BY <1>6 DEF AnswersAreTrue, TrueAnswer

(* Whatever a caller is told of an applied command is in the log, however  *)
(* many threads serve however many retries (authority.py:352-443).         *)
THEOREM AnswersHold == Spec => []AnswersAreTrue
<1>1. Init => AnswersAreTrue
  BY DEF Init, AnswersAreTrue
<1>2. IInv /\ AnswersAreTrue /\ [Next]_vars => AnswersAreTrue'
  BY AnswersStep
<1>3. QED
  BY <1>1, <1>2, Invariance, PTL DEF Spec

(* "Applied" is said once, by the step that appends the event, and nothing *)
(* but an appended event changes the store (authority.py:352-443).         *)
THEOREM OnlyApplyingChangesHolds == Spec => OnlyApplyingChanges
<1> DEFINE Fits == /\ \A t \in Threads :
                        answer'[t] # answer[t] /\ answer'[t] # None =>
                          (answer'[t].status = "applied" <=> events' = Append(events, answer'[t].event))
                   /\ events' = events => store' = store
<1>1. ASSUME IInv, [Next]_vars PROVE Fits
  <2>1. TypeOK /\ StoreAgrees /\ Store /\ Say
    BY <1>1, StepIInv DEF IInv
  <2>2. ASSUME events' = events PROVE store' = store
    <3>1. ASSUME NEW c \in Commands, Applies(c) PROVE FALSE
      BY <2>1, <2>2, <3>1, AppliedLog
    <3>2. QED
      BY <2>1, <3>1 DEF Store, store
  <2>3. ASSUME NEW t \in Threads, answer'[t] # answer[t], answer'[t] # None
        PROVE  answer'[t].status = "applied" <=> events' = Append(events, answer'[t].event)
    <3>1. PICK u \in Threads, c \in Commands, said \in Answer :
            Told(c, said) /\ answer' = [answer EXCEPT ![u] = said]
      BY <2>1, <2>3 DEF Say, Answer, TypeOK
    <3>2. u = t /\ answer'[t] = said
      BY <2>1, <2>3, <3>1 DEF TypeOK
    <3>3. CASE said.status = "applied"
      BY <3>1, <3>2, <3>3 DEF Told, Applies, Commit, Rejections, Failures
    <3>4. CASE said.status # "applied"
      <4>1. events' = events /\ events \in Seq(Event)
        BY <2>1, <3>1, <3>4 DEF Told, store, TypeOK
      <4>2. events # Append(events, said.event)
        BY <4>1
      <4>3. QED
        BY <3>2, <3>4, <4>1, <4>2
    <3>5. QED
      BY <3>3, <3>4
  <2>4. QED
    BY <2>2, <2>3
<1>2. QED
  BY <1>1, Invariance, PTL DEF Spec, OnlyApplyingChanges

-----------------------------------------------------------------------------
(* The log.                                                                *)

LEMMA ChainsStep ==
  ASSUME IInv, RevisionIsLast, EventsFormChains, Store
  PROVE  RevisionIsLast' /\ EventsFormChains'
<1>1. CASE UNCHANGED store
  BY <1>1 DEF RevisionIsLast, EventsFormChains, store
<1>2. ASSUME NEW c \in Commands, Applies(c) PROVE RevisionIsLast' /\ EventsFormChains'
  <2> DEFINE e == NextEvent(c)
             n == Len(events) + 1
  <2>1. TypeOK /\ StoreAgrees
    BY DEF IInv
  <2>2. /\ e \in Event /\ c.target \in Targets
        /\ e.command = c /\ e.sequence = n /\ e.revision = revision[c.target] + 1
        /\ Len(events') = n /\ n \in Nat \ {0}
        /\ \A i \in 1..(n - 1) : events'[i] = events[i]
        /\ events'[n] = e
    BY <1>2, <2>1, EventTyped, AppliedLog
  <2>3. revision' = [revision EXCEPT ![c.target] = e.revision] /\ c.expected = revision[c.target]
    BY <1>2 DEF Applies, Commit, UpToDate
  <2>4. \A i \in 1..(n - 1) : events[i] \in Event /\ events[i].revision \in Nat
    BY <2>1, <2>2, LogTyped
  <2>5. revision \in [Targets -> Nat] /\ 1..Len(events) = 1..(n - 1) /\ 1..Len(events') = 1..n
    BY <2>1, <2>2 DEF TypeOK
  <2>6. ASSUME NEW o \in Targets
        PROVE  /\ \A i \in 1..n :
                    events'[i].command.target = o => events'[i].revision <= revision'[o]
               /\ revision'[o] > 0 =>
                    \E i \in 1..n : events'[i].command.target = o /\ events'[i].revision = revision'[o]
    <3>1. CASE o = c.target
      <4>1. revision'[o] = e.revision /\ revision'[o] = revision[o] + 1 /\ revision[o] \in Nat
        BY <2>2, <2>3, <2>5, <3>1
      <4>2. ASSUME NEW i \in 1..n, events'[i].command.target = o
            PROVE  events'[i].revision <= revision'[o]
        <5>1. CASE i = n
          BY <2>2, <2>4, <4>1, <5>1
        <5>2. CASE i # n
          <6>1. i \in 1..(n - 1) /\ events'[i] = events[i] /\ events[i].revision \in Nat
            BY <2>2, <2>4, <5>2
          <6>2. events[i].revision <= revision[o]
            BY <2>5, <4>2, <6>1 DEF RevisionIsLast
          <6>3. QED
            BY <4>1, <6>1, <6>2
        <5>3. QED
          BY <5>1, <5>2
      <4>3. n \in 1..n /\ events'[n].command.target = o /\ events'[n].revision = revision'[o]
        BY <2>2, <3>1, <4>1
      <4>4. QED
        BY <4>2, <4>3
    <3>2. CASE o # c.target
      BY <2>2, <2>3, <2>4, <2>5, <3>2 DEF RevisionIsLast
    <3>3. QED
      BY <3>1, <3>2
  <2>7. RevisionIsLast'
    BY <2>5, <2>6 DEF RevisionIsLast
  <2>8. ASSUME NEW i \in 1..n
        PROVE  /\ events'[i].sequence = i
               /\ events'[i].revision = events'[i].command.expected + 1
               /\ events'[i].revision > 1 =>
                    \E j \in 1..(i - 1) :
                      /\ events'[j].command.target = events'[i].command.target
                      /\ events'[j].revision = events'[i].revision - 1
               /\ \A j \in 1..(i - 1) :
                    events'[j].command.target = events'[i].command.target
                      => events'[j].revision < events'[i].revision
    <3>1. CASE i # n
      <4>1. i \in 1..(n - 1) /\ \A j \in 1..(i - 1) : j \in 1..(n - 1) /\ events'[j] = events[j]
        BY <2>2, <3>1
      <4>2. events'[i] = events[i] /\ i \in 1..Len(events)
        BY <2>2, <2>5, <4>1
      <4>3. /\ events[i].sequence = i
            /\ events[i].revision = events[i].command.expected + 1
            /\ events[i].revision > 1 =>
                 \E j \in 1..(i - 1) :
                   /\ events[j].command.target = events[i].command.target
                   /\ events[j].revision = events[i].revision - 1
            /\ \A j \in 1..(i - 1) :
                 events[j].command.target = events[i].command.target
                   => events[j].revision < events[i].revision
        BY <4>2, Zenon DEF EventsFormChains
      <4>4. \A j \in 1..(i - 1) : events'[j] = events[j]
        BY <4>1
      <4> HIDE DEF n, e
      <4>5. QED
        BY <4>2, <4>3, <4>4
    <3>2. CASE i = n
      <4>1. revision[c.target] \in Nat /\ events'[i] = e /\ e.revision = revision[c.target] + 1
        BY <2>2, <2>5, <3>2
      <4>2. events'[i].sequence = i /\ events'[i].revision = events'[i].command.expected + 1
        BY <2>2, <2>3, <3>2, <4>1
      <4>3. e.revision > 1 =>
              \E j \in 1..(n - 1) : events[j].command.target = c.target /\ events[j].revision = revision[c.target]
        <5> HIDE DEF e
        <5>1. e.revision > 1 => revision[c.target] > 0
          BY <4>1
        <5>2. QED
          BY <2>2, <2>5, <5>1 DEF RevisionIsLast
      <4>4. \A j \in 1..(n - 1) :
              events[j].command.target = c.target => events[j].revision < e.revision
        BY <2>2, <2>4, <2>5, <4>1 DEF RevisionIsLast
      <4>5. /\ \A j \in 1..(i - 1) : events'[j] = events[j]
            /\ 1..(i - 1) = 1..(n - 1) /\ events'[i].command.target = c.target
            /\ e.revision - 1 = revision[c.target]
        BY <2>2, <3>2, <4>1
      <4> HIDE DEF n, e
      <4>6. QED
        BY <4>1, <4>2, <4>3, <4>4, <4>5
    <3>3. QED
      BY <3>1, <3>2
  <2>9. QED
    BY <2>5, <2>7, <2>8 DEF EventsFormChains
<1>3. QED
  BY <1>1, <1>2 DEF Store

(* No two commands ever replace the same state: the events of a target     *)
(* carry its revisions one after the other (authority.py:383-443).         *)
THEOREM ChainsHold == Spec => []EventsFormChains
<1>1. Init => RevisionIsLast /\ EventsFormChains
  BY DEF Init, RevisionIsLast, EventsFormChains
<1>2. IInv /\ RevisionIsLast /\ EventsFormChains /\ [Next]_vars
        => RevisionIsLast' /\ EventsFormChains'
  BY StepIInv, ChainsStep
<1>3. QED
  BY <1>1, <1>2, Invariance, PTL DEF Spec

(* One more member is counted once more. *)
LEMMA OneMore ==
  ASSUME NEW n \in Nat, NEW S, S \subseteq 1..n
  PROVE  Cardinality(S \cup {n + 1}) = Cardinality(S) + 1
<1>1. IsFiniteSet(S) /\ n + 1 \notin S
  <2>1. IsFiniteSet(1..n)
    BY FS_Interval
  <2>2. IsFiniteSet(S)
    BY <2>1, FS_Subset
  <2>3. n + 1 \notin 1..n
    OBVIOUS
  <2>4. QED
    BY <2>2, <2>3
<1>2. QED
  BY <1>1, FS_AddElement

LEMMA CountersStep ==
  ASSUME IInv, CountersCount, Store
  PROVE  CountersCount'
<1>1. CASE UNCHANGED store
  BY <1>1 DEF CountersCount, Sent, Written, store
<1>2. ASSUME NEW c \in Commands, Applies(c) PROVE CountersCount'
  <2> DEFINE n == Len(events)
  <2>1. TypeOK /\ StoreAgrees
    BY DEF IInv
  <2>2. /\ c.session \in Sessions /\ c.target \in Targets
        /\ NextEvent(c).command = c /\ NextEvent(c).revision = revision[c.target] + 1
        /\ Len(events') = n + 1 /\ n \in Nat
        /\ \A i \in 1..n : events'[i] = events[i]
        /\ events'[n + 1] = NextEvent(c)
    BY <1>2, <2>1, EventTyped, AppliedLog
  <2>3. /\ revision' = [revision EXCEPT ![c.target] = revision[c.target] + 1]
        /\ last' = [last EXCEPT ![c.session] = last[c.session] + 1]
    BY <1>2, <2>2 DEF Applies, Commit, InOrder
  <2>4. ASSUME NEW s \in Sessions PROVE last'[s] = Cardinality(Sent(s)')
    <3>1. Sent(s) \subseteq 1..n /\ last[s] = Cardinality(Sent(s))
      BY DEF Sent, CountersCount
    <3>2. CASE s = c.session
      <4>1. Sent(s)' = Sent(s) \cup {n + 1}
        BY <2>2, <3>2 DEF Sent
      <4>2. Cardinality(Sent(s)') = Cardinality(Sent(s)) + 1
        BY <2>2, <3>1, <4>1, OneMore
      <4>3. last'[s] = last[s] + 1
        BY <2>1, <2>3, <3>2 DEF TypeOK
      <4>4. QED
        BY <3>1, <4>2, <4>3
    <3>3. CASE s # c.session
      <4>1. Sent(s)' = Sent(s)
        BY <2>2, <3>3 DEF Sent
      <4>2. QED
        BY <2>1, <2>3, <3>1, <3>3, <4>1 DEF TypeOK
    <3>4. QED
      BY <3>2, <3>3
  <2>5. ASSUME NEW o \in Targets PROVE revision'[o] = Cardinality(Written(o)')
    <3>1. Written(o) \subseteq 1..n /\ revision[o] = Cardinality(Written(o))
      BY DEF Written, CountersCount
    <3>2. CASE o = c.target
      <4>1. Written(o)' = Written(o) \cup {n + 1}
        BY <2>2, <3>2 DEF Written
      <4>2. Cardinality(Written(o)') = Cardinality(Written(o)) + 1
        BY <2>2, <3>1, <4>1, OneMore
      <4>3. revision'[o] = revision[o] + 1
        BY <2>1, <2>3, <3>2 DEF TypeOK
      <4>4. QED
        BY <3>1, <4>2, <4>3
    <3>3. CASE o # c.target
      <4>1. Written(o)' = Written(o)
        BY <2>2, <3>3 DEF Written
      <4>2. QED
        BY <2>1, <2>3, <3>1, <3>3, <4>1 DEF TypeOK
    <3>4. QED
      BY <3>2, <3>3
  <2>6. QED
    BY <2>4, <2>5 DEF CountersCount
<1>3. QED
  BY <1>1, <1>2 DEF Store

\* The log that Ledger speaks of.
LogOf == [i \in 1..Len(events) |-> events[i].command]

LEMMA SameCount == \A S : Ledger!Cardinality(S) = Cardinality(S)
  BY Zenon DEF Ledger!Cardinality, Cardinality

LEMMA LedgerStep ==
  ASSUME IInv, CountersCount, Store
  PROVE  [Ledger!Next]_LogOf
<1>1. CASE UNCHANGED store
  BY <1>1 DEF store, LogOf
<1>2. ASSUME NEW c \in Commands, Applies(c) PROVE Ledger!Apply(c)
  <2> DEFINE n == Len(events)
  <2>1. TypeOK /\ StoreAgrees
    BY DEF IInv
  <2>2. /\ c.session \in Sessions /\ c.target \in Targets /\ c.key \in Keys
        /\ NextEvent(c).command = c
        /\ Len(events') = n + 1 /\ n \in Nat
        /\ \A i \in 1..n : events'[i] = events[i]
        /\ events'[n + 1] = NextEvent(c)
    BY <1>2, <2>1, EventTyped, AppliedLog
  <2>3. \A i \in 1..n : events[i].command \in Commands
    BY <2>1, LogTyped
  <2>4. LogOf \in Seq(Commands) /\ Len(LogOf) = n
    BY <2>2, <2>3 DEF LogOf
  <2>5. \A i \in 1..Len(LogOf) : LogOf[i].key # c.key
    BY <1>2, <2>1, <2>2, <2>4 DEF LogOf, StoreAgrees, Applies
  <2>6. {i \in 1..Len(LogOf) : LogOf[i].session = c.session} = Sent(c.session)
    BY <2>4 DEF LogOf, Sent
  <2>7. {i \in 1..Len(LogOf) : LogOf[i].target = c.target} = Written(c.target)
    BY <2>4 DEF LogOf, Written
  <2>8. /\ c.sequence = Cardinality(Sent(c.session)) + 1
        /\ c.expected = Cardinality(Written(c.target))
    BY <1>2, <2>2 DEF Applies, InOrder, UpToDate, CountersCount
  <2>9. LogOf' = Append(LogOf, c)
    BY <2>2, <2>3, <2>4 DEF LogOf
  <2>10. QED
    BY <2>5, <2>6, <2>7, <2>8, <2>9, SameCount DEF Ledger!Apply, Ledger!SentBy, Ledger!WrittenTo, LogOf
<1>3. QED
  BY <1>1, <1>2 DEF Store, Ledger!Next, LogOf

(* Revisions, session sequences, event numbers and stored results together *)
(* implement one ledger in which a key is used once, a session has no gap  *)
(* and a target is written at the revision its sender expected             *)
(* (authority.py:324-443).                                                 *)
THEOREM AuthorityIsLedger == Spec => ImplementsLedger
<1>1. Init => CountersCount
  <2> SUFFICES ASSUME Init PROVE CountersCount
    OBVIOUS
  <2>1. (\A s \in Sessions : Sent(s) = {}) /\ (\A o \in Targets : Written(o) = {})
    BY DEF Init, Sent, Written
  <2>2. QED
    BY <2>1, FS_EmptySet DEF Init, CountersCount
<1>2. Init => Ledger!Init
  BY DEF Init, Ledger!Init
<1>3. IInv /\ CountersCount /\ [Next]_vars => CountersCount'
  BY StepIInv, CountersStep
<1>4. IInv /\ CountersCount /\ [Next]_vars => [Ledger!Next]_(LogOf)
  BY StepIInv, LedgerStep
<1>5. QED
  BY <1>1, <1>2, <1>3, <1>4, Invariance, PTL DEF Spec, ImplementsLedger, Ledger!Spec, LogOf

-----------------------------------------------------------------------------
(* The buffer is in order, and what publish accepted above the floor is    *)
(* still in it or was acknowledged.                                        *)
InBuffer(n) == \E i \in 1..Len(buffer) : buffer[i].sequence = n
Covered(n) == n <= floor \/ \E i \in 1..Len(buffer) : n <= buffer[i].sequence

BufferHolds ==
    /\ buffer \in Seq(Event) /\ floor \in Nat /\ accepted \subseteq Nat \ {0}
    /\ \A i, j \in 1..Len(buffer) : i < j => buffer[i].sequence < buffer[j].sequence
    /\ \A n \in accepted : n <= eventSequence /\ (n <= floor \/ InBuffer(n))

(* What a subscriber does not have below its cursor is at or below the     *)
(* floor or the last event of the buffer, where publish accepts nothing    *)
(* that counts.                                                            *)
CursorsHold ==
    /\ cursor \in [Subscribers -> Nat]
    /\ seen \in [Subscribers -> SUBSET Nat]
    /\ \A s \in Subscribers : \A n \in 1..cursor[s] : n \in seen[s] \/ Covered(n)

ServiceInv == IInv /\ BufferHolds /\ CursorsHold /\ NothingMissed

(* The numbers of the events are numbers.                                  *)
LEMMA BufferTyped ==
  ASSUME BufferHolds
  PROVE  /\ Len(buffer) \in Nat /\ floor \in Nat
         /\ \A i \in 1..Len(buffer) : buffer[i] \in Event /\ buffer[i].sequence \in Nat
<1>1. \A i \in 1..Len(buffer) : buffer[i] \in Event
  BY DEF BufferHolds
<1>2. \A e \in Event : e.sequence \in Nat
  BY DEF Event
<1>3. QED
  BY <1>1, <1>2 DEF BufferHolds

LEMMA AcknowledgeHolds ==
  ASSUME ServiceInv, NEW n \in Nat, Acknowledge(n)
  PROVE  BufferHolds' /\ CursorsHold' /\ NothingMissed'
<1>1. PICK k \in 1..Len(buffer) :
        /\ \A i \in 1..Len(buffer) : i <= k <=> buffer[i].sequence <= n
        /\ Drop(k)
  BY DEF Acknowledge
<1>2. UNCHANGED <<accepted, cursor, seen, eventSequence>>
  BY DEF Acknowledge, vars
<1>3. /\ BufferHolds /\ CursorsHold /\ NothingMissed
      /\ Len(buffer) \in Nat /\ floor \in Nat
      /\ \A i \in 1..Len(buffer) : buffer[i] \in Event /\ buffer[i].sequence \in Nat
  BY BufferTyped DEF ServiceInv
<1>4. /\ buffer' \in Seq(Event) /\ Len(buffer') = Len(buffer) - k
      /\ \A i \in 1..Len(buffer') : k + i \in 1..Len(buffer) /\ buffer'[i] = buffer[k + i]
  <2>1. buffer' = SubSeq(buffer, k + 1, Len(buffer)) /\ buffer \in Seq(Event)
    BY <1>1, <1>3 DEF Drop, BufferHolds
  <2>2. QED
    BY <1>1, <1>3, <2>1
<1>5. /\ floor' \in Nat /\ floor' >= floor
      /\ \A i \in 1..k : buffer[i].sequence <= floor'
  <2>1. floor' = IF buffer[k].sequence > floor THEN buffer[k].sequence ELSE floor
    BY <1>1 DEF Drop
  <2>2. \A i \in 1..k : i \in 1..Len(buffer) /\ (i = k \/ i < k)
    BY <1>1, <1>3
  <2>3. \A i \in 1..k : buffer[i].sequence <= buffer[k].sequence
    BY <1>1, <1>3, <2>2 DEF BufferHolds
  <2>4. QED
    BY <1>1, <1>3, <2>1, <2>2, <2>3
<1>6. \A i \in 1..Len(buffer) : i \in 1..k \/ (i - k \in 1..Len(buffer') /\ buffer'[i - k] = buffer[i])
  BY <1>1, <1>3, <1>4
<1>7. \A m \in Nat : InBuffer(m) => InBuffer(m)' \/ m <= floor'
  BY <1>5, <1>6 DEF InBuffer
<1>8. \A m \in Nat : Covered(m) => Covered(m)'
  <2> SUFFICES ASSUME NEW m \in Nat, Covered(m) PROVE Covered(m)'
    OBVIOUS
  <2>1. CASE m <= floor
    BY <1>3, <1>5, <2>1 DEF Covered
  <2>2. ASSUME NEW i \in 1..Len(buffer), m <= buffer[i].sequence PROVE Covered(m)'
    <3>1. CASE i \in 1..k
      BY <1>3, <1>5, <2>2, <3>1 DEF Covered
    <3>2. CASE i \notin 1..k
      BY <1>6, <2>2, <3>2 DEF Covered
    <3>3. QED
      BY <3>1, <3>2
  <2>3. QED
    BY <2>1, <2>2 DEF Covered
<1>9. BufferHolds'
  <2>1. \A i, j \in 1..Len(buffer') : i < j => buffer'[i].sequence < buffer'[j].sequence
    <3> SUFFICES ASSUME NEW i \in 1..Len(buffer'), NEW j \in 1..Len(buffer'), i < j
                 PROVE  buffer'[i].sequence < buffer'[j].sequence
      OBVIOUS
    <3>1. /\ k + i \in 1..Len(buffer) /\ buffer'[i] = buffer[k + i]
          /\ k + j \in 1..Len(buffer) /\ buffer'[j] = buffer[k + j]
          /\ k + i < k + j
      BY <1>3, <1>4
    <3>2. buffer[k + i].sequence < buffer[k + j].sequence
      BY <1>3, <3>1 DEF BufferHolds
    <3>3. QED
      BY <3>1, <3>2
  <2>2. \A m \in accepted : m \in Nat /\ m <= eventSequence /\ (m <= floor \/ InBuffer(m))
    BY <1>3 DEF BufferHolds
  <2>3. \A m \in accepted : m <= floor' \/ InBuffer(m)'
    BY <1>3, <1>5, <1>7, <2>2
  <2>4. QED
    BY <1>2, <1>3, <1>4, <1>5, <2>1, <2>2, <2>3 DEF BufferHolds
<1>10. CursorsHold'
  BY <1>2, <1>3, <1>8 DEF CursorsHold
<1>11. QED
  BY <1>2, <1>3, <1>9, <1>10 DEF NothingMissed

LEMMA RelayHolds ==
  ASSUME ServiceInv, Relay
  PROVE  BufferHolds' /\ CursorsHold' /\ NothingMissed'
<1>1. PICK j \in DOMAIN events : Publish(events[j])
  BY DEF Relay
<1> DEFINE e == events[j]
<1>2. PICK m \in Nat \ {0} : e \in Event /\ m = e.sequence /\ m <= eventSequence
  <2>1. e \in Event /\ e.sequence \in Nat \ {0} /\ e.sequence <= eventSequence
    BY LogTyped DEF ServiceInv, IInv, StoreAgrees, TypeOK
  <2>2. QED
    BY <2>1
<1>3. UNCHANGED <<floor, cursor, seen, eventSequence>> /\ Publish(e)
  BY <1>1 DEF Relay, Publish, vars
<1> HIDE DEF e
<1>4. /\ BufferHolds /\ CursorsHold /\ NothingMissed
      /\ Len(buffer) \in Nat /\ floor \in Nat
      /\ \A i \in 1..Len(buffer) : buffer[i] \in Event /\ buffer[i].sequence \in Nat
  BY BufferTyped DEF ServiceInv
<1>5. /\ buffer' \in Seq(Event) /\ Len(buffer') = Len(buffer) + 1 /\ buffer'[Len(buffer) + 1] = e
      /\ \A i \in 1..Len(buffer) : buffer'[i] = buffer[i]
  BY <1>2, <1>3, <1>4 DEF Publish, BufferHolds
<1>6. \A i \in 1..Len(buffer) : buffer[i].sequence < m
  <2>1. CASE Len(buffer) = 0
    BY <2>1
  <2>2. CASE Len(buffer) # 0
    <3>1. buffer # <<>> /\ Last(buffer).sequence = buffer[Len(buffer)].sequence
      BY <2>2 DEF Last
    <3>2. buffer[Len(buffer)].sequence < m
      BY <1>2, <1>3, <1>4, <2>2, <3>1 DEF Publish, Newer
    <3>3. \A i \in 1..Len(buffer) : i = Len(buffer) \/ i < Len(buffer)
      BY <1>4
    <3>4. \A i \in 1..Len(buffer) : buffer[i].sequence <= buffer[Len(buffer)].sequence
      BY <1>4, <2>2, <3>3 DEF BufferHolds
    <3>5. QED
      BY <1>2, <1>4, <2>2, <3>2, <3>4
  <2>3. QED
    BY <2>1, <2>2
<1>7. (accepted' = accepted \cup {m} /\ m > floor) \/ accepted' = accepted
  BY <1>2, <1>3, <1>4 DEF Publish
<1>8. /\ \A n \in Nat : Covered(n) => Covered(n)'
      /\ \A n \in Nat : InBuffer(n) => InBuffer(n)'
      /\ InBuffer(m)'
  <2>1. \A i \in 1..Len(buffer) : i \in 1..Len(buffer') /\ buffer'[i] = buffer[i]
    BY <1>4, <1>5
  <2>2. Len(buffer) + 1 \in 1..Len(buffer') /\ buffer'[Len(buffer) + 1].sequence = m
    BY <1>2, <1>4, <1>5
  <2>3. \A n \in Nat : InBuffer(n) => InBuffer(n)'
    BY <2>1 DEF InBuffer
  <2>4. \A n \in Nat : Covered(n) => Covered(n)'
    BY <1>3, <2>1 DEF Covered
  <2>5. InBuffer(m)'
    BY <2>2 DEF InBuffer
  <2>6. QED
    BY <2>3, <2>4, <2>5
<1>9. BufferHolds'
  <2>1. \A i, k \in 1..Len(buffer') : i < k => buffer'[i].sequence < buffer'[k].sequence
    <3> SUFFICES ASSUME NEW i \in 1..Len(buffer'), NEW k \in 1..Len(buffer'), i < k
                 PROVE  buffer'[i].sequence < buffer'[k].sequence
      OBVIOUS
    <3>1. i \in 1..Len(buffer) /\ buffer'[i] = buffer[i]
      BY <1>4, <1>5
    <3>2. CASE k \in 1..Len(buffer)
      BY <1>4, <1>5, <3>1, <3>2 DEF BufferHolds
    <3>3. CASE k = Len(buffer) + 1
      BY <1>2, <1>5, <1>6, <3>1, <3>3
    <3>4. QED
      BY <1>4, <1>5, <3>2, <3>3
  <2>2. \A n \in accepted : n \in Nat \ {0} /\ n <= eventSequence /\ (n <= floor \/ InBuffer(n)')
    BY <1>4, <1>8 DEF BufferHolds
  <2>3. \A n \in accepted' : n \in Nat \ {0} /\ n <= eventSequence /\ (n <= floor \/ InBuffer(n)')
    <3> SUFFICES ASSUME NEW n \in accepted'
                 PROVE  n \in Nat \ {0} /\ n <= eventSequence /\ (n <= floor \/ InBuffer(n)')
      OBVIOUS
    <3>1. CASE n = m
      BY <1>2, <1>8, <3>1
    <3>2. CASE n # m
      BY <1>7, <2>2, <3>2
    <3>3. QED
      BY <3>1, <3>2
  <2>4. QED
    BY <1>3, <1>4, <1>5, <2>1, <2>3 DEF BufferHolds
<1>10. CursorsHold'
  BY <1>3, <1>4, <1>8 DEF CursorsHold
<1>11. NothingMissed'
  <2>1. ASSUME NEW s \in Subscribers, m > floor, m <= cursor[s] PROVE m \in seen[s]
    <3>1. m \in 1..cursor[s]
      BY <1>2, <1>4, <2>1 DEF CursorsHold
    <3>2. ~Covered(m)
      BY <1>2, <1>4, <1>6, <2>1 DEF Covered
    <3>3. QED
      BY <1>4, <3>1, <3>2 DEF CursorsHold
  <2>2. QED
    BY <1>3, <1>4, <1>7, <2>1 DEF NothingMissed
<1>12. QED
  BY <1>9, <1>10, <1>11

LEMMA ResumeHolds ==
  ASSUME ServiceInv, NEW s \in Subscribers, Resume(s)
  PROVE  CursorsHold' /\ NothingMissed'
<1>1. /\ BufferHolds /\ CursorsHold /\ NothingMissed
      /\ Len(buffer) \in Nat /\ floor \in Nat
      /\ \A i \in 1..Len(buffer) : buffer[i] \in Event /\ buffer[i].sequence \in Nat
  BY BufferTyped DEF ServiceInv
<1> DEFINE z == Last(buffer).sequence
           c == cursor[s]
           A == After(c)
<1>2. /\ cursor \in [Subscribers -> Nat] /\ seen \in [Subscribers -> SUBSET Nat]
      /\ c \in Nat /\ seen[s] \subseteq Nat
  BY <1>1 DEF CursorsHold
<1>3. /\ c >= floor /\ A # {}
      /\ cursor' = [cursor EXCEPT ![s] = z]
      /\ seen' = [seen EXCEPT ![s] = seen[s] \cup A]
      /\ UNCHANGED <<buffer, floor, accepted, eventSequence>>
  BY DEF Resume, channel, vars
<1>4. \A n \in Nat : n \in A <=> InBuffer(n) /\ n > c
  BY <1>1 DEF After, Sequences, InBuffer, BufferHolds
<1>5. A \subseteq Nat
  BY <1>1 DEF After, Sequences, BufferHolds
<1>6. Len(buffer) # 0
  BY <1>3, <1>4, <1>5 DEF InBuffer
<1>7. z = buffer[Len(buffer)].sequence /\ Len(buffer) \in 1..Len(buffer) /\ z \in Nat
  BY <1>1, <1>6 DEF Last
<1> HIDE DEF A, z
<1>8. \A n \in 1..z : Covered(n)
  BY <1>7 DEF Covered
<1>9. \A n \in accepted : n <= z => n \in seen[s] \cup A
  <2> SUFFICES ASSUME NEW n \in accepted, n <= z PROVE n \in seen[s] \cup A
    OBVIOUS
  <2>1. n \in Nat /\ (n <= floor \/ InBuffer(n))
    BY <1>1 DEF BufferHolds
  <2>2. CASE n <= c
    BY <1>1, <2>2 DEF NothingMissed
  <2>3. CASE n > c
    BY <1>1, <1>2, <1>3, <1>4, <2>1, <2>3
  <2>4. QED
    BY <1>2, <2>1, <2>2, <2>3
<1>10. CursorsHold'
  <2>1. cursor' \in [Subscribers -> Nat] /\ seen' \in [Subscribers -> SUBSET Nat]
    BY <1>2, <1>3, <1>5, <1>7
  <2>2. \A n \in 1..z : Covered(n)'
    BY <1>3, <1>8 DEF Covered
  <2>3. \A n \in Nat : Covered(n) => Covered(n)'
    BY <1>3 DEF Covered
  <2>4. ASSUME NEW r \in Subscribers, NEW n \in 1..cursor'[r] PROVE n \in seen'[r] \/ Covered(n)'
    <3>1. CASE r = s
      BY <1>2, <1>3, <2>2, <3>1, <2>4
    <3>2. CASE r # s
      BY <1>1, <1>2, <1>3, <2>3, <2>4, <3>2 DEF CursorsHold
    <3>3. QED
      BY <3>1, <3>2
  <2>5. QED
    BY <2>1, <2>4 DEF CursorsHold
<1>11. NothingMissed'
  <2> SUFFICES ASSUME NEW r \in Subscribers, NEW n \in accepted, n <= cursor'[r]
               PROVE  n \in seen'[r]
    BY <1>3 DEF NothingMissed
  <2>1. CASE r = s
    BY <1>2, <1>3, <1>9, <2>1
  <2>2. CASE r # s
    BY <1>1, <1>2, <1>3, <2>2 DEF NothingMissed
  <2>3. QED
    BY <2>1, <2>2
<1>12. QED
  BY <1>10, <1>11

LEMMA ResyncHolds ==
  ASSUME ServiceInv, NEW s \in Subscribers, Resync(s)
  PROVE  CursorsHold' /\ NothingMissed'
<1>1. /\ BufferHolds /\ CursorsHold /\ NothingMissed /\ eventSequence \in Nat
  BY DEF ServiceInv, IInv, TypeOK
<1> DEFINE A == 1..eventSequence
<1>2. /\ cursor' = [cursor EXCEPT ![s] = eventSequence]
      /\ seen' = [seen EXCEPT ![s] = seen[s] \cup A]
      /\ UNCHANGED <<buffer, floor, accepted, eventSequence>>
  BY DEF Resync, channel, vars
<1>3. /\ cursor \in [Subscribers -> Nat] /\ seen \in [Subscribers -> SUBSET Nat]
      /\ seen[s] \subseteq Nat /\ A \subseteq Nat
  BY <1>1 DEF CursorsHold
<1>4. \A n \in accepted : n \in A
  BY <1>1 DEF BufferHolds
<1>5. \A n \in 1..eventSequence : n \in A
  OBVIOUS
<1> HIDE DEF A
<1>6. CursorsHold'
  <2>1. cursor' \in [Subscribers -> Nat] /\ seen' \in [Subscribers -> SUBSET Nat]
    BY <1>1, <1>2, <1>3
  <2>2. \A n \in Nat : Covered(n) => Covered(n)'
    BY <1>2 DEF Covered
  <2>3. ASSUME NEW r \in Subscribers, NEW n \in 1..cursor'[r] PROVE n \in seen'[r] \/ Covered(n)'
    <3>1. CASE r = s
      BY <1>2, <1>3, <1>5, <2>3, <3>1
    <3>2. CASE r # s
      BY <1>1, <1>2, <1>3, <2>2, <2>3, <3>2 DEF CursorsHold
    <3>3. QED
      BY <3>1, <3>2
  <2>4. QED
    BY <2>1, <2>3 DEF CursorsHold
<1>7. NothingMissed'
  <2> SUFFICES ASSUME NEW r \in Subscribers, NEW n \in accepted, n <= cursor'[r]
               PROVE  n \in seen'[r]
    BY <1>2 DEF NothingMissed
  <2>1. CASE r = s
    BY <1>2, <1>3, <1>4, <2>1
  <2>2. CASE r # s
    BY <1>1, <1>2, <1>3, <2>2 DEF NothingMissed
  <2>3. QED
    BY <2>1, <2>2
<1>8. QED
  BY <1>6, <1>7

LEMMA ServiceStep ==
  ASSUME ServiceInv, [ServiceNext]_service
  PROVE  ServiceInv'
<1>1. IInv /\ BufferHolds /\ CursorsHold /\ NothingMissed
  BY DEF ServiceInv
<1>2. [Next]_vars
  BY DEF ServiceNext, Process, Relay, Resume, Resync, Acknowledge, service
<1>3. IInv'
  BY <1>1, <1>2, StepIInv
<1>4. ASSUME UNCHANGED <<channel, cursor, seen>>
      PROVE  BufferHolds' /\ CursorsHold' /\ NothingMissed'
  <2>1. eventSequence \in Nat /\ eventSequence' \in Nat /\ eventSequence <= eventSequence'
    <3>1. CASE UNCHANGED store
      BY <1>1, <3>1 DEF store, IInv, TypeOK
    <3>2. ASSUME NEW c \in Commands, Applies(c)
          PROVE  eventSequence \in Nat /\ eventSequence' \in Nat /\ eventSequence <= eventSequence'
      BY <1>1, <3>2, EventTyped DEF Applies, Commit, IInv, TypeOK
    <3>3. QED
      BY <1>1, <1>2, <3>1, <3>2, NextIsStore DEF Store, IInv
  <2>2. UNCHANGED <<buffer, floor, accepted, cursor, seen>>
    BY <1>4 DEF channel
  <2>3. \A n \in accepted : n \in Nat /\ n <= eventSequence'
    BY <1>1, <2>1 DEF BufferHolds
  <2>4. QED
    BY <1>1, <2>2, <2>3 DEF BufferHolds, CursorsHold, NothingMissed, InBuffer, Covered
<1>5. CASE Process
  BY <1>3, <1>4, <1>5 DEF Process, ServiceInv
<1>6. CASE Relay
  BY <1>3, <1>6, RelayHolds DEF ServiceInv
<1>7. ASSUME NEW s \in Subscribers, Resume(s) \/ Resync(s) PROVE ServiceInv'
  <2>1. CursorsHold' /\ NothingMissed'
    BY <1>7, ResumeHolds, ResyncHolds
  <2>2. BufferHolds'
    BY <1>1, <1>7 DEF Resume, Resync, vars, channel, BufferHolds, InBuffer
  <2>3. QED
    BY <1>3, <2>1, <2>2 DEF ServiceInv
<1>8. ASSUME NEW n \in 1..eventSequence, Acknowledge(n) PROVE ServiceInv'
  BY <1>1, <1>3, <1>8, AcknowledgeHolds DEF ServiceInv, IInv, TypeOK
<1>9. CASE UNCHANGED service
  BY <1>3, <1>4, <1>9 DEF service, ServiceInv
<1>10. QED
  BY <1>5, <1>6, <1>7, <1>8, <1>9 DEF ServiceNext

(* No subscriber misses an event publish accepted above the retention      *)
(* floor: whatever the store appends, in whatever order and how often its  *)
(* events are published, and whatever is acknowledged, a subscriber has    *)
(* each of them up to its cursor, from the buffer or from a snapshot       *)
(* (authority.py:642-679).                                                 *)
THEOREM NobodyMissesAnEvent == ServiceSpec => []NothingMissed
<1>1. ServiceInit => ServiceInv
  <2> SUFFICES ASSUME ServiceInit PROVE ServiceInv
    OBVIOUS
  <2>1. IInv
    BY InitIInv DEF ServiceInit
  <2>2. BufferHolds
    BY DEF ServiceInit, BufferHolds
  <2>3. CursorsHold /\ NothingMissed
    BY DEF ServiceInit, CursorsHold, NothingMissed
  <2>4. QED
    BY <2>1, <2>2, <2>3 DEF ServiceInv
<1>2. ServiceInv => NothingMissed
  BY DEF ServiceInv
<1>3. QED
  BY <1>1, <1>2, ServiceStep, PTL DEF ServiceSpec
=============================================================================
