------------------------ MODULE ComfyExecutionProofs ------------------------
(***************************************************************************)
(* Proofs about ComfyExecution.  For any callers, faults and crashes: the  *)
(* manifest is never ahead of the server, and no revision follows one that *)
(* is terminal.  For one caller: one POST.                                 *)
(***************************************************************************)
EXTENDS ComfyExecution, FiniteSetTheorems, TLAPS

-----------------------------------------------------------------------------
(* Types. *)

Contents ==
  [state : {"prepared", "queued", "running"} \cup Verdicts,
   outcome : {"not_attempted", "attempting", "ambiguous", "accepted", "recovered"},
   queue : {"unread", "none", "pending", "running"},
   history : BOOLEAN, progress : 0..1, outputs : BOOLEAN]

Manifests == Seq(Contents)

VerdictsRead == {"none", "succeeded", "failed", "cancelled", "incomplete", "running", "unknown"}
Queues == {"none", "pending", "running"}

Seen ==
  {Nothing} \cup [by : {"answer"}] \cup [by : {"event"}, fraction : 0..1]
    \cup [by : {"poll"}, queue : Queues]
    \cup [by : {"poll"}, queue : Queues, verdict : VerdictsRead]

Working == {"queue", "history", "applying", "posting", "posted", "saving"}

CallerStates ==
  [pc : Working \cup {"idle", "loading", "replacing"}, mine : Manifests, next : Manifests,
   seen : Seen, then : {"idle", "loading", "posting", "applying"}]

Jobs ==
  [flying : BOOLEAN, place : {"none", "pending", "running", "done"}, verdict : VerdictsRead]

TypeOK ==
  /\ current \in Manifests
  /\ files \subseteq Manifests \ {Damaged}
  /\ caller \in [Callers -> CallerStates]
  /\ job \in Jobs
  /\ posts \in Nat

-----------------------------------------------------------------------------
(* What is written, held or read is backed by the prompt j at the server.  *)

\* A verdict is of a prompt that is done.
SoundJob(j) == j \in Jobs /\ (j.verdict # "none" => j.place = "done")

Backed(c, j) ==
  /\ c.state = "queued" \/ c.outcome \in {"accepted", "recovered"} => j.place # "none"
  /\ c.state = "running" => j.place \in {"running", "done"}
  /\ c.state \in {"succeeded", "failed"} => c.state = j.verdict

QueueBacked(q, j) ==
  /\ q \in Queues
  /\ q # "none" => j.place # "none"
  /\ q = "running" => j.place \in {"running", "done"}

SeenBacked(seen, j) ==
  \/ seen.by = "answer" /\ j.place # "none"
  \/ seen.by = "event" /\ seen.fraction \in 0..1 /\ j.place \in {"running", "done"}
  \/ /\ seen.by = "poll" /\ QueueBacked(seen.queue, j)
     /\ seen.verdict = "none" \/ (seen.verdict = j.verdict /\ seen.verdict \in VerdictsRead)

\* An attempt is not forgotten by later revisions.
Chained(m) ==
  \A i, k \in 1..Len(m) :
    i < k /\ m[i].outcome # "not_attempted" => m[k].outcome # "not_attempted"

\* A terminal revision is the last.
EndsOnce(m) == \A i \in 1..Len(m) - 1 : m[i].state \notin Verdicts

SoundManifest(m, j) ==
  m \in Manifests /\ Chained(m) /\ EndsOnce(m) /\ (m # Damaged => Backed(Last(m), j))

(* What a caller works on is terminal only when no revision of it is due   *)
(* any more, and so will be what it saves.                                 *)
WorkEnds(r) ==
  /\ r.pc \in Working /\ Terminal(r.mine) =>
       r.pc = "applying" /\ Due(Last(r.mine), r.seen) = {}
  /\ r.pc \in {"saving", "replacing"} /\ Terminal(r.next) =>
       /\ r.then # "posting"
       /\ r.then = "applying" => Due(Last(r.next), r.seen) = {}

\* A caller at work has a manifest, and saves one that follows it.
SoundCaller(r, fs, j) ==
  /\ r \in CallerStates
  /\ SoundManifest(r.mine, j) /\ SoundManifest(r.next, j)
  /\ r.pc \in Working => r.mine # Damaged
  /\ r.pc = "saving" => \E c \in Contents : r.next = Append(r.mine, c)
  /\ r.pc = "replacing" => r.next \in fs
  /\ WorkEnds(r)
  /\ r.pc = "history" => QueueBacked(r.seen.queue, j)
  /\ r.pc = "applying" \/ (r.pc \in {"saving", "replacing"} /\ r.then = "applying")
     => SeenBacked(r.seen, j)

\* Recover picks a longest file.
Longest(fs) == \E f \in fs : \A g \in fs : Len(g) <= Len(f)

SoundStore(fs, j) == Longest(fs) /\ \A f \in fs : f # Damaged /\ SoundManifest(f, j)

Sound ==
  /\ SoundJob(job) /\ posts \in Nat
  /\ SoundManifest(current, job) /\ SoundStore(files, job)
  /\ caller \in [Callers -> CallerStates]
  /\ \A p \in Callers : SoundCaller(caller[p], files, job)

-----------------------------------------------------------------------------
(* One caller. *)

OneCaller == \E p \in Callers : Callers = {p}

Attempted(m) == m # Damaged => Last(m).outcome # "not_attempted"

(* What the caller works on is the current manifest.                       *)
InHand(r, cur) == r.pc \in Working /\ cur # Damaged => cur = r.mine

(* Before the POST its attempt is on the disk; after it no manifest that   *)
(* is or may become current has no attempt.                                *)
PostedOnce(r, cur, fs, n) ==
  /\ n <= 1
  /\ r.pc \in {"saving", "replacing"} /\ r.then = "posting" => n = 0 /\ Attempted(r.next)
  /\ r.pc = "posting" =>
       n = 0 /\ Attempted(r.mine) /\ r.mine \in fs /\ r.next = Damaged
  /\ n = 1 => /\ Attempted(r.mine) /\ Attempted(r.next) /\ Attempted(cur)
              /\ \E f \in fs : Attempted(f)

Alone ==
  OneCaller => \A p \in Callers :
    InHand(caller[p], current) /\ PostedOnce(caller[p], current, files, posts)

IInv == Sound /\ Alone

-----------------------------------------------------------------------------
(* Data. *)

LEMMA LeastElement ==
  ASSUME NEW T \in SUBSET Nat, T # {}
  PROVE  Min(T) \in T /\ \A n \in T : Min(T) <= n
<1>1. PICK m \in T : \A n \in T : ~(<<n, m>> \in OpToRel(<, Nat))
  BY NatLessThanWellFounded, WFMin
<1>2. ASSUME NEW n \in T PROVE m <= n
  <2>1. n < m => <<n, m>> \in OpToRel(<, Nat)
    BY Zenon DEF OpToRel
  <2>2. ~(n < m)
    BY <1>1, <2>1, Zenon
  <2>3. QED
    BY <2>2
<1>3. QED
  BY <1>2 DEF Min

LEMMA DeliveredContent ==
  ASSUME NEW c \in Contents
  PROVE  /\ Delivered(c) \in Contents
         /\ Delivered(c).state = c.state /\ Delivered(c).outcome = c.outcome
<1> DEFINE d == [c EXCEPT !.outputs = TRUE]
<1>1. d \in Contents /\ d.state = c.state /\ d.outcome = c.outcome
  BY DEF Contents
<1>2. Delivered(c) = [d EXCEPT !.progress = 1]
  BY DEF Delivered
<1> HIDE DEF d
<1>3. [d EXCEPT !.progress = 1] \in Contents
  BY <1>1 DEF Contents
<1>4. [d EXCEPT !.progress = 1].state = d.state /\ [d EXCEPT !.progress = 1].outcome = d.outcome
  BY <1>1 DEF Contents
<1>5. QED
  BY <1>1, <1>2, <1>3, <1>4

(* Each change of a content is one, and forgets no attempt.                *)
LEMMA ContentChanges ==
  ASSUME NEW c \in Contents
  PROVE  /\ \A d \in {MarkRecovered(c), MarkAmbiguous(c), Queued(c), Running(c), Delivered(c)} :
              d \in Contents /\ (c.outcome # "not_attempted" => d.outcome # "not_attempted")
         /\ \A q \in Queues : [c EXCEPT !.queue = q] \in Contents
         /\ [c EXCEPT !.history = TRUE] \in Contents
         /\ \A v \in Verdicts : [c EXCEPT !.state = v] \in Contents
         /\ \A f \in 0..1 :
              [c EXCEPT !.progress = IF f > @ THEN f ELSE @] \in Contents
<1>1. MarkRecovered(c) \in Contents /\ MarkAmbiguous(c) \in Contents
  BY DEF Contents, MarkRecovered, MarkAmbiguous
<1>2. Queued(c) \in Contents /\ Running(c) \in Contents
  BY DEF Contents, Queued, Running
<1>3. \A d \in {MarkRecovered(c), MarkAmbiguous(c), Queued(c), Running(c), Delivered(c)} :
        c.outcome # "not_attempted" => d.outcome # "not_attempted"
  BY DeliveredContent DEF Contents, MarkRecovered, MarkAmbiguous, Queued, Running
<1>4. /\ \A q \in Queues : [c EXCEPT !.queue = q] \in Contents
      /\ [c EXCEPT !.history = TRUE] \in Contents
  BY DEF Contents, Queues
<1>5. \A v \in Verdicts : [c EXCEPT !.state = v] \in Contents
  BY DEF Contents, Verdicts
<1>6. \A f \in 0..1 : [c EXCEPT !.progress = IF f > @ THEN f ELSE @] \in Contents
  BY DEF Contents
<1>7. QED
  BY <1>1, <1>2, DeliveredContent, <1>3, <1>4, <1>5, <1>6

(* Whatever was seen of the server, the revisions that follow say no more  *)
(* than the server backs.                                                  *)
LEMMA ChangesBacked ==
  ASSUME NEW c \in Contents, NEW j, SoundJob(j), Backed(c, j),
         NEW seen, SeenBacked(seen, j),
         NEW i \in DOMAIN Changes(c, seen)
  PROVE  /\ Changes(c, seen)[i] \in Contents /\ Backed(Changes(c, seen)[i], j)
         /\ c.outcome # "not_attempted" => Changes(c, seen)[i].outcome # "not_attempted"
<1> DEFINE Good(d) == /\ d \in Contents /\ Backed(d, j)
                      /\ c.outcome # "not_attempted" => d.outcome # "not_attempted"
<1>1. j.place # "none" => Good(Queued(c)) /\ Good(MarkRecovered(c))
  BY ContentChanges DEF Backed, Queued, MarkRecovered, Contents
<1>2. j.place \in {"running", "done"} => Good(Running(c))
  BY ContentChanges DEF Backed, Running, Contents
<1>3. Good(MarkAmbiguous(c)) /\ Good(Delivered(c)) /\ Good([c EXCEPT !.history = TRUE])
  <2>1. Good(MarkAmbiguous(c))
    BY ContentChanges DEF Backed, MarkAmbiguous, Contents
  <2>2. Good(Delivered(c))
    BY DeliveredContent DEF Backed
  <2>3. Good([c EXCEPT !.history = TRUE])
    <3>1. [c EXCEPT !.history = TRUE].state = c.state /\ [c EXCEPT !.history = TRUE].outcome = c.outcome
      BY DEF Contents
    <3>2. QED
      BY <3>1, ContentChanges DEF Backed
  <2>4. QED
    BY <2>1, <2>2, <2>3
<1>4. /\ \A q \in Queues : Good([c EXCEPT !.queue = q])
      /\ \A f \in 0..1 : Good([c EXCEPT !.progress = IF f > @ THEN f ELSE @])
  <2>1. ASSUME NEW q \in Queues PROVE Good([c EXCEPT !.queue = q])
    <3>1. [c EXCEPT !.queue = q].state = c.state /\ [c EXCEPT !.queue = q].outcome = c.outcome
      BY DEF Contents
    <3>2. QED
      BY <3>1, ContentChanges DEF Backed
  <2>2. ASSUME NEW f \in 0..1 PROVE Good([c EXCEPT !.progress = IF f > @ THEN f ELSE @])
    BY ContentChanges DEF Backed, Contents
  <2>3. QED
    BY <2>1, <2>2
<1>5. \A v \in Verdicts : v = j.verdict => Good([c EXCEPT !.state = v])
  BY ContentChanges DEF Backed, Contents, Verdicts
<1> HIDE DEF Good
<1>6. CASE seen.by = "answer"
  <2>1. Changes(c, seen) = <<Queued(c)>> /\ j.place # "none"
    BY <1>6 DEF Changes, SeenBacked
  <2>2. Good(Changes(c, seen)[i])
    BY <2>1, <1>1
  <2>3. QED
    BY <2>2 DEF Good
<1>7. CASE seen.by = "event"
  <2>1. /\ Changes(c, seen) = <<MarkRecovered(c), Queued(c), Running(c),
                               [c EXCEPT !.progress = IF seen.fraction > @ THEN seen.fraction ELSE @]>>
        /\ j.place \in {"running", "done"} /\ seen.fraction \in 0..1
    BY <1>7 DEF Changes, Observed, SeenBacked
  <2>2. Good(Changes(c, seen)[i])
    BY <2>1, <1>1, <1>2, <1>4
  <2>3. QED
    BY <2>2 DEF Good
<1>8. CASE seen.by = "poll"
  <2>1. /\ QueueBacked(seen.queue, j) /\ seen.verdict \in VerdictsRead
        /\ seen.verdict # "none" => seen.verdict = j.verdict /\ j.place = "done"
        /\ Changes(c, seen) = Reconciled(c, seen)
    BY <1>8 DEF Changes, SeenBacked, VerdictsRead, SoundJob
  <2>2. Good([c EXCEPT !.queue = seen.queue])
    BY <2>1, <1>4 DEF QueueBacked
  <2>3. CASE seen.verdict = "incomplete" \/ (seen.verdict = "unknown" /\ seen.queue = "none")
    <3> DEFINE s == <<[c EXCEPT !.queue = seen.queue], MarkRecovered(c), [c EXCEPT !.history = TRUE]>>
    <3>1. Changes(c, seen) = s
      BY <2>1, <2>3 DEF Reconciled
    <3>2. j.place = "done"
      BY <2>1, <2>3
    <3>3. Good(s[1]) /\ Good(s[2]) /\ Good(s[3])
      BY <2>2, <3>2, <1>1, <1>3
    <3>4. i \in 1..3
      BY <3>1
    <3> HIDE DEF s
    <3>5. Good(s[i])
      BY <3>3, <3>4
    <3>6. QED
      BY <3>1, <3>5 DEF Good
  <2>4. CASE seen.verdict = "succeeded"
    <3> DEFINE s == <<[c EXCEPT !.queue = seen.queue], MarkRecovered(c), [c EXCEPT !.history = TRUE],
                      Queued(c), Running(c), Delivered(c), [c EXCEPT !.state = "succeeded"]>>
    <3>1. Changes(c, seen) = s
      BY <2>1, <2>4 DEF Reconciled
    <3>2. j.place = "done" /\ j.verdict = "succeeded"
      BY <2>1, <2>4
    <3>3. Good([c EXCEPT !.state = "succeeded"])
      BY <3>2, <1>5 DEF Verdicts
    <3>4. Good(s[1]) /\ Good(s[2]) /\ Good(s[3]) /\ Good(s[4]) /\ Good(s[5]) /\ Good(s[6]) /\ Good(s[7])
      BY <2>2, <3>2, <3>3, <1>1, <1>2, <1>3
    <3>5. i \in 1..7
      BY <3>1
    <3> HIDE DEF s
    <3>6. Good(s[i])
      BY <3>4, <3>5
    <3>7. QED
      BY <3>1, <3>6 DEF Good
  <2>5. CASE seen.verdict \in {"failed", "cancelled"}
    <3> DEFINE s == <<[c EXCEPT !.queue = seen.queue], MarkRecovered(c), [c EXCEPT !.history = TRUE],
                      [c EXCEPT !.state = seen.verdict]>>
    <3>1. Changes(c, seen) = s
      BY <2>1, <2>5 DEF Reconciled
    <3>2. j.place = "done" /\ j.verdict = seen.verdict
      BY <2>1, <2>5
    <3>3. Good([c EXCEPT !.state = seen.verdict])
      BY <2>5, <3>2, <1>5 DEF Verdicts
    <3>4. Good(s[1]) /\ Good(s[2]) /\ Good(s[3]) /\ Good(s[4])
      BY <2>2, <3>2, <3>3, <1>1, <1>3
    <3>5. i \in 1..4
      BY <3>1
    <3> HIDE DEF s
    <3>6. Good(s[i])
      BY <3>4, <3>5
    <3>7. QED
      BY <3>1, <3>6 DEF Good
  <2>6. CASE seen.verdict = "none" /\ seen.queue = "running"
    <3>1. Reconciled(c, seen) = <<[c EXCEPT !.queue = seen.queue], MarkRecovered(c),
                                  Queued(c), Running(c)>>
      BY <2>6 DEF Reconciled
    <3>2. Good(Changes(c, seen)[i])
      BY <2>1, <2>2, <2>6, <3>1, <1>1, <1>2 DEF QueueBacked
    <3>3. QED
      BY <3>2 DEF Good
  <2>7. CASE seen.verdict = "none" /\ seen.queue = "pending"
    <3>1. Reconciled(c, seen) = <<[c EXCEPT !.queue = seen.queue], MarkRecovered(c), Queued(c)>>
      BY <2>7 DEF Reconciled
    <3>2. Good(Changes(c, seen)[i])
      BY <2>1, <2>2, <2>7, <3>1, <1>1 DEF QueueBacked
    <3>3. QED
      BY <3>2 DEF Good
  <2>8. CASE seen.verdict = "none" /\ seen.queue = "none"
    <3>1. Reconciled(c, seen) = <<[c EXCEPT !.queue = seen.queue], MarkAmbiguous(c)>>
      BY <2>8 DEF Reconciled
    <3>2. Good(Changes(c, seen)[i])
      BY <2>1, <2>2, <3>1, <1>3
    <3>3. QED
      BY <3>2 DEF Good
  <2>9. CASE seen.verdict = "running" \/ (seen.verdict = "unknown" /\ seen.queue = "running")
    <3> DEFINE s == <<[c EXCEPT !.queue = seen.queue], MarkRecovered(c), [c EXCEPT !.history = TRUE],
                      Queued(c), Running(c)>>
    <3>1. Changes(c, seen) = s
      BY <2>1, <2>9 DEF Reconciled
    <3>2. j.place = "done"
      BY <2>1, <2>9
    <3>3. Good(s[1]) /\ Good(s[2]) /\ Good(s[3]) /\ Good(s[4]) /\ Good(s[5])
      BY <2>2, <3>2, <1>1, <1>2, <1>3
    <3>4. i \in 1..5
      BY <3>1
    <3> HIDE DEF s
    <3>5. Good(s[i])
      BY <3>3, <3>4
    <3>6. QED
      BY <3>1, <3>5 DEF Good
  <2>10. CASE seen.verdict = "unknown" /\ seen.queue = "pending"
    <3> DEFINE s == <<[c EXCEPT !.queue = seen.queue], MarkRecovered(c), [c EXCEPT !.history = TRUE],
                      Queued(c)>>
    <3>1. Changes(c, seen) = s
      BY <2>1, <2>10 DEF Reconciled
    <3>2. j.place = "done"
      BY <2>1, <2>10
    <3>3. Good(s[1]) /\ Good(s[2]) /\ Good(s[3]) /\ Good(s[4])
      BY <2>2, <3>2, <1>1, <1>3
    <3>4. i \in 1..4
      BY <3>1
    <3> HIDE DEF s
    <3>5. Good(s[i])
      BY <3>3, <3>4
    <3>6. QED
      BY <3>1, <3>5 DEF Good
  <2>11. QED
    BY <2>1, <2>3, <2>4, <2>5, <2>6, <2>7, <2>8, <2>9, <2>10
       DEF QueueBacked, Queues, VerdictsRead
<1>9. QED
  BY <1>6, <1>7, <1>8 DEF SeenBacked

(* The next revision is one of the changes, and does change something.     *)
LEMMA NextRevision ==
  ASSUME NEW c \in Contents, NEW j, SoundJob(j), Backed(c, j),
         NEW seen, SeenBacked(seen, j), Due(c, seen) # {}
  PROVE  LET d == Changes(c, seen)[Min(Due(c, seen))]
         IN  /\ Min(Due(c, seen)) \in DOMAIN Changes(c, seen)
             /\ d \in Contents /\ Backed(d, j)
             /\ c.outcome # "not_attempted" => d.outcome # "not_attempted"
<1>1. DOMAIN Changes(c, seen) \in SUBSET Nat
  BY DEF Changes, Reconciled, Observed, SeenBacked
<1>2. Due(c, seen) \in SUBSET Nat
  BY <1>1 DEF Due
<1>3. Min(Due(c, seen)) \in Due(c, seen)
  BY <1>2, LeastElement
<1>4. Min(Due(c, seen)) \in DOMAIN Changes(c, seen)
  BY <1>3 DEF Due
<1>5. QED
  BY <1>4, ChangesBacked

(* Before the change due first there is nothing to change.                 *)
LEMMA EarlierChangesDone ==
  ASSUME NEW c, NEW seen, NEW n \in Nat, DOMAIN Changes(c, seen) = 1..n, Due(c, seen) # {}
  PROVE  \A i \in 1..n : i < Min(Due(c, seen)) => Changes(c, seen)[i] = c
<1>1. Due(c, seen) \in SUBSET Nat
  BY DEF Due
<1>2. \A i \in Due(c, seen) : Min(Due(c, seen)) <= i
  BY <1>1, LeastElement
<1>3. Min(Due(c, seen)) \in Nat
  BY <1>1, LeastElement
<1>4. ASSUME NEW i \in 1..n, i < Min(Due(c, seen)) PROVE Changes(c, seen)[i] = c
  <2>1. i \notin Due(c, seen)
    BY <1>2, <1>3, <1>4
  <2>2. QED
    BY <2>1 DEF Due
<1>5. QED
  BY <1>4

(* What a change does to the fields it is about.                           *)
LEMMA Fields ==
  ASSUME NEW c \in Contents
  PROVE  /\ \A q \in Queues : [c EXCEPT !.queue = q] = c <=> c.queue = q
         /\ [c EXCEPT !.history = TRUE] = c <=> c.history
         /\ \A v \in Verdicts :
              /\ [c EXCEPT !.state = v].state = v
              /\ [c EXCEPT !.state = v].outcome = c.outcome
              /\ [c EXCEPT !.state = v].queue = c.queue
              /\ [c EXCEPT !.state = v].history = c.history
              /\ [c EXCEPT !.state = v].progress = c.progress
              /\ [c EXCEPT !.state = v].outputs = c.outputs
         /\ \A v \in Verdicts : [c EXCEPT !.state = v] = c <=> c.state = v
         /\ MarkRecovered(c) = c <=> c.outcome \notin {"attempting", "ambiguous"}
         /\ Queued(c) = c <=> c.state # "prepared"
         /\ Running(c) = c <=> c.state # "queued"
         /\ Delivered(c) = c <=> c.outputs /\ c.progress = 1
<1>1. \A q \in Queues : [c EXCEPT !.queue = q] = c <=> c.queue = q
  BY DEF Contents
<1>2. [c EXCEPT !.history = TRUE] = c <=> c.history
  BY DEF Contents
<1>3. \A v \in Verdicts :
        /\ [c EXCEPT !.state = v].state = v
        /\ [c EXCEPT !.state = v].outcome = c.outcome
        /\ [c EXCEPT !.state = v].queue = c.queue
        /\ [c EXCEPT !.state = v].history = c.history
        /\ [c EXCEPT !.state = v].progress = c.progress
        /\ [c EXCEPT !.state = v].outputs = c.outputs
  BY DEF Contents
<1>4. \A v \in Verdicts : [c EXCEPT !.state = v] = c <=> c.state = v
  BY DEF Contents
<1>5. MarkRecovered(c) = c <=> c.outcome \notin {"attempting", "ambiguous"}
  BY DEF Contents, MarkRecovered
<1>6. (Queued(c) = c <=> c.state # "prepared") /\ (Running(c) = c <=> c.state # "queued")
  BY DEF Contents, Queued, Running
<1>7. Delivered(c) = c <=> c.outputs /\ c.progress = 1
  <2> DEFINE d == [c EXCEPT !.outputs = TRUE]
             e == [d EXCEPT !.progress = 1]
  <2>1. Delivered(c) = e
    BY Zenon DEF Delivered
  <2>2. d \in Contents /\ d.outputs = TRUE /\ d.progress = c.progress /\ (c.outputs => d = c)
    BY DEF Contents
  <2> HIDE DEF d
  <2>3. e.outputs = TRUE /\ e.progress = 1 /\ (d.progress = 1 => e = d)
    BY <2>2 DEF Contents
  <2> HIDE DEF e
  <2>4. QED
    BY <2>1, <2>2, <2>3
<1>8. QED
  BY <1>1, <1>2, <1>3, <1>4, <1>5, <1>6, <1>7

(* Only the last change of a poll with a final verdict ends a run, and it  *)
(* is due only when the others are done: nothing is due after it.          *)
LEMMA NothingAfterTheVerdict ==
  ASSUME NEW c \in Contents, c.state \notin Verdicts, NEW j, SoundJob(j), Backed(c, j),
         NEW seen, SeenBacked(seen, j), Due(c, seen) # {},
         Changes(c, seen)[Min(Due(c, seen))].state \in Verdicts
  PROVE  Due(Changes(c, seen)[Min(Due(c, seen))], seen) = {}
<1> DEFINE n == Min(Due(c, seen))
           d == Changes(c, seen)[n]
           v == seen.verdict
           queue == [c EXCEPT !.queue = seen.queue]
           history == [c EXCEPT !.history = TRUE]
           final == [c EXCEPT !.state = v]
<1>1. n \in DOMAIN Changes(c, seen) /\ d.state \in Verdicts
  BY NextRevision
<1>2. \A m \in {queue, history, MarkRecovered(c), MarkAmbiguous(c)} : m.state = c.state
  BY DEF Contents, MarkRecovered, MarkAmbiguous
<1>3. Queued(c).state \notin Verdicts /\ Running(c).state \notin Verdicts
  BY DEF Contents, Queued, Running, Verdicts
<1>4. Delivered(c).state = c.state
  BY DeliveredContent
<1>5. \A f \in 0..1 : [c EXCEPT !.progress = IF f > @ THEN f ELSE @].state = c.state
  BY DEF Contents
<1>6. QueueBacked(seen.queue, j) => seen.queue \in Queues
  BY DEF QueueBacked
<1>7. seen.by = "poll" /\ v \in Verdicts /\ seen.queue \in Queues
  <2>1. ASSUME seen.by = "answer" PROVE FALSE
    <3>1. Changes(c, seen) = <<Queued(c)>>
      BY <2>1 DEF Changes
    <3>2. QED
      BY <3>1, <1>1, <1>3
  <2>2. ASSUME seen.by = "event" PROVE FALSE
    <3> DEFINE told == [c EXCEPT !.progress = IF seen.fraction > @ THEN seen.fraction ELSE @]
    <3>1. Changes(c, seen) = <<MarkRecovered(c), Queued(c), Running(c), told>>
      BY <2>2 DEF Changes, Observed
    <3>2. told.state = c.state
      BY <2>2, <1>5 DEF SeenBacked
    <3> HIDE DEF told
    <3>3. QED
      BY <3>1, <3>2, <1>1, <1>2, <1>3
  <2>3. seen.by = "poll" /\ QueueBacked(seen.queue, j) /\ v \in VerdictsRead
    BY <2>1, <2>2 DEF SeenBacked, VerdictsRead
  <2>4. Changes(c, seen) = Reconciled(c, seen)
    BY <2>3 DEF Changes
  <2>5. ASSUME v \notin Verdicts PROVE FALSE
    <3>1. CASE v = "incomplete" \/ (v = "unknown" /\ seen.queue = "none")
      <4>1. Changes(c, seen) = <<queue, MarkRecovered(c), history>>
        BY <3>1, <2>4 DEF Reconciled
      <4> HIDE DEF queue, history, v
      <4>2. QED
        BY <4>1, <1>1, <1>2
    <3>2. CASE v = "none" /\ seen.queue = "running"
      <4>1. Changes(c, seen) = <<queue, MarkRecovered(c), Queued(c), Running(c)>>
        BY <3>2, <2>4 DEF Reconciled
      <4> HIDE DEF queue, history, v
      <4>2. QED
        BY <4>1, <1>1, <1>2, <1>3
    <3>3. CASE v = "none" /\ seen.queue = "pending"
      <4>1. Changes(c, seen) = <<queue, MarkRecovered(c), Queued(c)>>
        BY <3>3, <2>4 DEF Reconciled
      <4> HIDE DEF queue, history, v
      <4>2. QED
        BY <4>1, <1>1, <1>2, <1>3
    <3>4. CASE v = "none" /\ seen.queue = "none"
      <4>1. Changes(c, seen) = <<queue, MarkAmbiguous(c)>>
        BY <3>4, <2>4 DEF Reconciled
      <4> HIDE DEF queue, history, v
      <4>2. QED
        BY <4>1, <1>1, <1>2
    <3>5. CASE v = "running" \/ (v = "unknown" /\ seen.queue = "running")
      <4>1. Changes(c, seen) = <<queue, MarkRecovered(c), history, Queued(c), Running(c)>>
        BY <3>5, <2>4 DEF Reconciled
      <4> HIDE DEF queue, history, v
      <4>2. QED
        BY <4>1, <1>1, <1>2, <1>3
    <3>6. CASE v = "unknown" /\ seen.queue = "pending"
      <4>1. Changes(c, seen) = <<queue, MarkRecovered(c), history, Queued(c)>>
        BY <3>6, <2>4 DEF Reconciled
      <4> HIDE DEF queue, history, v
      <4>2. QED
        BY <4>1, <1>1, <1>2, <1>3
    <3>7. QED
      BY <2>3, <2>5, <1>6, <3>1, <3>2, <3>3, <3>4, <3>5, <3>6 DEF VerdictsRead, Verdicts, Queues
  <2>6. QED
    BY <2>3, <2>5, <1>6
<1>8. final \in Contents /\ final.state = v
  BY <1>7, ContentChanges, Fields
<1>9. CASE v = "succeeded"
  <2>1. Changes(c, seen) = <<queue, MarkRecovered(c), history, Queued(c), Running(c),
                             Delivered(c), [c EXCEPT !.state = "succeeded"]>>
    BY <1>7, <1>9 DEF Changes, Reconciled
  <2>2. Changes(c, seen)[7] = final /\ DOMAIN Changes(c, seen) = 1..7
    BY <2>1, <1>9
  <2>3. n = 7
    <3> HIDE DEF n, queue, history, final, v
    <3>1. n \in 1..7
      BY <1>1, <2>2
    <3>2. \A i \in 1..6 : Changes(c, seen)[i].state \notin Verdicts
      BY <2>1, <1>2, <1>3, <1>4
    <3>3. QED
      BY <1>1, <3>1, <3>2
  <2>4. \A i \in 1..6 : Changes(c, seen)[i] = c
    <3>1. 7 \in Nat /\ DOMAIN Changes(c, seen) = 1..7
      BY <2>2
    <3>2. \A i \in 1..7 : i < Min(Due(c, seen)) => Changes(c, seen)[i] = c
      BY <3>1, EarlierChangesDone, Zenon
    <3>3. \A i \in 1..7 : i < 7 => Changes(c, seen)[i] = c
      BY <2>3, <3>2, Zenon
    <3>4. QED
      BY <3>3
  <2>5. /\ queue = c /\ MarkRecovered(c) = c /\ history = c
        /\ Queued(c) = c /\ Running(c) = c /\ Delivered(c) = c
    <3> HIDE DEF n, queue, history, final, v
    <3>1. QED
      BY <2>1, <2>4
  <2>6. /\ c.queue = seen.queue /\ c.outcome \notin {"attempting", "ambiguous"} /\ c.history
        /\ c.outputs /\ c.progress = 1
    BY <2>5, <1>7, Fields
  <2>7. /\ final.queue = seen.queue /\ final.outcome \notin {"attempting", "ambiguous"}
        /\ final.history /\ final.outputs /\ final.progress = 1
    BY <2>6, <1>7, Fields
  <2> HIDE DEF final
  <2>8. /\ [final EXCEPT !.queue = seen.queue] = final /\ MarkRecovered(final) = final
        /\ [final EXCEPT !.history = TRUE] = final
        /\ Queued(final) = final /\ Running(final) = final /\ Delivered(final) = final
        /\ [final EXCEPT !.state = "succeeded"] = final
    BY <2>7, <1>7, <1>8, <1>9, Fields DEF Verdicts
  <2>9. Changes(final, seen) = <<final, final, final, final, final, final, final>>
    BY <2>8, <1>7, <1>9 DEF Changes, Reconciled
  <2>10. QED
    BY <2>2, <2>3, <2>9 DEF Due
<1>10. CASE v \in {"failed", "cancelled"}
  <2>1. Changes(c, seen) = <<queue, MarkRecovered(c), history, final>>
    BY <1>7, <1>10 DEF Changes, Reconciled
  <2>2. Changes(c, seen)[4] = final /\ DOMAIN Changes(c, seen) = 1..4
    BY <2>1
  <2>3. n = 4
    <3> HIDE DEF n, queue, history, final, v
    <3>1. n \in 1..4
      BY <1>1, <2>2
    <3>2. \A i \in 1..3 : Changes(c, seen)[i].state \notin Verdicts
      BY <2>1, <1>2, <1>3, <1>4
    <3>3. QED
      BY <1>1, <3>1, <3>2
  <2>4. \A i \in 1..3 : Changes(c, seen)[i] = c
    <3>1. 4 \in Nat /\ DOMAIN Changes(c, seen) = 1..4
      BY <2>2
    <3>2. \A i \in 1..4 : i < Min(Due(c, seen)) => Changes(c, seen)[i] = c
      BY <3>1, EarlierChangesDone, Zenon
    <3>3. \A i \in 1..4 : i < 4 => Changes(c, seen)[i] = c
      BY <2>3, <3>2, Zenon
    <3>4. QED
      BY <3>3
  <2>5. queue = c /\ MarkRecovered(c) = c /\ history = c
    <3> HIDE DEF n, queue, history, final, v
    <3>1. QED
      BY <2>1, <2>4
  <2>6. c.queue = seen.queue /\ c.outcome \notin {"attempting", "ambiguous"} /\ c.history
    BY <2>5, <1>7, Fields
  <2>7. /\ final.queue = seen.queue /\ final.outcome \notin {"attempting", "ambiguous"}
        /\ final.history
    BY <2>6, <1>7, Fields
  <2> HIDE DEF final
  <2>8. /\ [final EXCEPT !.queue = seen.queue] = final /\ MarkRecovered(final) = final
        /\ [final EXCEPT !.history = TRUE] = final
        /\ [final EXCEPT !.state = seen.verdict] = final
    BY <2>7, <1>7, <1>8, Fields
  <2>9. Changes(final, seen) = <<final, final, final, final>>
    BY <2>8, <1>7, <1>10 DEF Changes, Reconciled
  <2>10. QED
    BY <2>2, <2>3, <2>9 DEF Due
<1>11. QED
  BY <1>7, <1>9, <1>10 DEF Verdicts

-----------------------------------------------------------------------------
(* Manifests and callers. *)

LEMMA Appended ==
  ASSUME NEW m \in Manifests, NEW c \in Contents
  PROVE  /\ Append(m, c) \in Manifests /\ Append(m, c) # Damaged
         /\ Len(Append(m, c)) = Len(m) + 1
         /\ Last(Append(m, c)) = c /\ Front(Append(m, c)) = m
<1> DEFINE n == Append(m, c)
<1>1. n \in Manifests /\ Len(n) = Len(m) + 1 /\ n[Len(m) + 1] = c
  BY DEF Manifests
<1>2. \A i \in 1..Len(m) : n[i] = m[i]
  BY DEF Manifests
<1>3. m = [i \in 1..Len(m) |-> m[i]] /\ Len(m) \in Nat
  BY DEF Manifests
<1> HIDE DEF n
<1>4. Last(n) = c
  BY <1>1, <1>3 DEF Last
<1>5. Front(n) = m
  BY <1>1, <1>2, <1>3 DEF Front, Manifests
<1>6. n # Damaged
  BY <1>1, <1>3 DEF Damaged
<1>7. QED
  BY <1>1, <1>4, <1>5, <1>6 DEF n

LEMMA SoundAppended ==
  ASSUME NEW j, NEW m, SoundManifest(m, j), m # Damaged, ~Terminal(m),
         NEW c \in Contents, Backed(c, j),
         Last(m).outcome # "not_attempted" => c.outcome # "not_attempted"
  PROVE  SoundManifest(Append(m, c), j)
<1> DEFINE n == Append(m, c)
<1>1. m \in Manifests /\ Chained(m) /\ Len(m) \in Nat \ {0}
  BY DEF SoundManifest, Manifests, Damaged
<1>2. /\ n \in Manifests /\ Len(n) = Len(m) + 1 /\ n[Len(m) + 1] = c /\ Last(n) = c
      /\ \A i \in 1..Len(m) : n[i] = m[i]
  BY <1>1, Appended DEF Manifests
<1> HIDE DEF n
<1>3. ASSUME NEW i \in 1..Len(n), NEW k \in 1..Len(n), i < k, n[i].outcome # "not_attempted"
      PROVE  n[k].outcome # "not_attempted"
  <2>1. i \in 1..Len(m) /\ m[i].outcome # "not_attempted"
    BY <1>1, <1>2, <1>3
  <2>2. CASE k \in 1..Len(m)
    BY <1>1, <1>2, <1>3, <2>1, <2>2 DEF Chained
  <2>3. CASE k = Len(m) + 1
    <3>1. Last(m).outcome # "not_attempted"
      BY <1>1, <2>1 DEF Chained, Last
    <3>2. QED
      BY <1>2, <2>3, <3>1
  <2>4. QED
    BY <1>1, <1>2, <1>3, <2>2, <2>3
<1>4. Chained(n)
  BY <1>3 DEF Chained
<1>5. EndsOnce(n)
  <2> SUFFICES ASSUME NEW i \in 1..Len(m) PROVE m[i].state \notin Verdicts
    BY <1>1, <1>2 DEF EndsOnce
  <2>1. CASE i = Len(m)
    BY <2>1 DEF Terminal, Last
  <2>2. CASE i # Len(m)
    BY <1>1, <2>2 DEF SoundManifest, EndsOnce
  <2>3. QED
    BY <2>1, <2>2
<1>6. QED
  BY <1>2, <1>4, <1>5 DEF SoundManifest, n

(* The prompt at the server only moves on.                                 *)
Grows(j, k) ==
  /\ j.place # "none" => k.place # "none"
  /\ j.place \in {"running", "done"} => k.place \in {"running", "done"}
  /\ j.verdict # "none" => k.verdict = j.verdict

LEMMA BackingStays ==
  ASSUME NEW j, NEW k, SoundJob(j), Grows(j, k)
  PROVE  /\ \A m : SoundManifest(m, j) => SoundManifest(m, k)
         /\ \A seen : SeenBacked(seen, j) => SeenBacked(seen, k)
         /\ \A q : QueueBacked(q, j) => QueueBacked(q, k)
<1>1. \A q : QueueBacked(q, j) => QueueBacked(q, k)
  BY DEF QueueBacked, Grows
<1>2. \A seen : SeenBacked(seen, j) => SeenBacked(seen, k)
  BY <1>1 DEF SeenBacked, Grows
<1>3. ASSUME NEW c, Backed(c, j) PROVE Backed(c, k)
  <2>1. c.state \in {"succeeded", "failed"} => j.verdict # "none"
    BY <1>3 DEF Backed
  <2>2. QED
    BY <1>3, <2>1 DEF Backed, Grows
<1>4. \A m : SoundManifest(m, j) => SoundManifest(m, k)
  BY <1>3 DEF SoundManifest
<1>5. QED
  BY <1>1, <1>2, <1>4

LEMMA SoundCallerStays ==
  ASSUME NEW j, NEW k, SoundJob(j), Grows(j, k), NEW fs, NEW gs, fs \subseteq gs,
         NEW r, SoundCaller(r, fs, j)
  PROVE  SoundCaller(r, gs, k)
BY BackingStays DEF SoundCaller

LEMMA OneMoves ==
  ASSUME NEW j, NEW k, SoundJob(j), Grows(j, k), NEW fs, NEW gs, fs \subseteq gs,
         NEW old \in [Callers -> CallerStates], \A q \in Callers : SoundCaller(old[q], fs, j),
         NEW p \in Callers, NEW r, SoundCaller(r, gs, k)
  PROVE  /\ [old EXCEPT ![p] = r] \in [Callers -> CallerStates]
         /\ \A q \in Callers : SoundCaller([old EXCEPT ![p] = r][q], gs, k)
<1>1. r \in CallerStates
  BY DEF SoundCaller
<1>2. [old EXCEPT ![p] = r] \in [Callers -> CallerStates]
  BY <1>1
<1>3. ASSUME NEW q \in Callers PROVE SoundCaller([old EXCEPT ![p] = r][q], gs, k)
  <2>1. CASE q = p
    BY <2>1
  <2>2. CASE q # p
    <3>1. [old EXCEPT ![p] = r][q] = old[q]
      BY <2>2
    <3>2. QED
      BY <3>1, SoundCallerStays, Zenon
  <2>3. QED
    BY <2>1, <2>2
<1>4. QED
  BY <1>2, <1>3

LEMMA GrowsRefl == \A j : Grows(j, j)
BY DEF Grows

-----------------------------------------------------------------------------
(* Where a caller is after a step. *)

Is(r, pc, mine, next, seen, then) ==
  /\ r \in CallerStates
  /\ r.pc = pc /\ r.mine = mine /\ r.next = next /\ r.seen = seen /\ r.then = then

Places == Working \cup {"idle", "loading", "replacing"}

LEMMA OneField ==
  ASSUME NEW r, NEW pc, NEW mine, NEW next, NEW seen, NEW then, Is(r, pc, mine, next, seen, then)
  PROVE  /\ \A x \in Places : Is([r EXCEPT !.pc = x], x, mine, next, seen, then)
         /\ \A m \in Manifests : Is([r EXCEPT !.mine = m], pc, m, next, seen, then)
         /\ \A n \in Manifests : Is([r EXCEPT !.next = n], pc, mine, n, seen, then)
         /\ \A s \in Seen : Is([r EXCEPT !.seen = s], pc, mine, next, s, then)
<1>1. ASSUME NEW x \in Places PROVE Is([r EXCEPT !.pc = x], x, mine, next, seen, then)
  BY DEF Is, CallerStates, Places
<1>2. ASSUME NEW m \in Manifests PROVE Is([r EXCEPT !.mine = m], pc, m, next, seen, then)
  BY DEF Is, CallerStates
<1>3. ASSUME NEW n \in Manifests PROVE Is([r EXCEPT !.next = n], pc, mine, n, seen, then)
  BY DEF Is, CallerStates
<1>4. ASSUME NEW s \in Seen PROVE Is([r EXCEPT !.seen = s], pc, mine, next, s, then)
  BY DEF Is, CallerStates
<1>5. QED
  BY <1>1, <1>2, <1>3, <1>4

LEMMA SeveralFields ==
  ASSUME NEW r, NEW pc, NEW mine, NEW next, NEW seen, NEW then, Is(r, pc, mine, next, seen, then),
         NEW x \in Places, NEW m \in Manifests, NEW n \in Manifests, NEW s \in Seen
  PROVE  /\ Is([r EXCEPT !.pc = x, !.seen = s], x, mine, next, s, then)
         /\ Is([r EXCEPT !.pc = x, !.mine = m], x, m, next, seen, then)
         /\ Is([r EXCEPT !.pc = x, !.next = n], x, mine, n, seen, then)
         /\ Is([r EXCEPT !.pc = x, !.mine = m, !.seen = s], x, m, next, s, then)
         /\ Is([r EXCEPT !.pc = x, !.mine = m, !.next = n], x, m, n, seen, then)
<1> DEFINE a == [r EXCEPT !.pc = x]
           b == [a EXCEPT !.mine = m]
<1>1. Is(a, x, mine, next, seen, then)
  BY OneField
<1>2. Is(b, x, m, next, seen, then)
  <2> HIDE DEF a
  <2>1. QED
    BY <1>1, OneField
<1>3. /\ [r EXCEPT !.pc = x, !.seen = s] = [a EXCEPT !.seen = s]
      /\ [r EXCEPT !.pc = x, !.mine = m] = b
      /\ [r EXCEPT !.pc = x, !.next = n] = [a EXCEPT !.next = n]
      /\ [r EXCEPT !.pc = x, !.mine = m, !.seen = s] = [b EXCEPT !.seen = s]
      /\ [r EXCEPT !.pc = x, !.mine = m, !.next = n] = [b EXCEPT !.next = n]
  BY Zenon
<1> HIDE DEF b
<1>4. Is([b EXCEPT !.seen = s], x, m, next, s, then) /\ Is([b EXCEPT !.next = n], x, m, n, seen, then)
  BY <1>2, OneField
<1> HIDE DEF a
<1>5. Is([a EXCEPT !.seen = s], x, mine, next, s, then) /\ Is([a EXCEPT !.next = n], x, mine, n, seen, then)
  BY <1>1, OneField
<1>6. QED
  BY <1>2, <1>3, <1>4, <1>5, Zenon

LEMMA IdleIs == Is(Idle, "idle", Damaged, Damaged, Nothing, "idle")
<1>1. Damaged \in Manifests
  BY DEF Damaged, Manifests
<1>2. Nothing \in Seen
  BY DEF Nothing, Seen
<1>3. QED
  BY <1>1, <1>2 DEF Is, Idle, CallerStates

LEMMA NoManifest == \A j : SoundManifest(Damaged, j)
BY DEF SoundManifest, Damaged, Manifests, Chained, EndsOnce

LEMMA IdleSound == \A fs, j : SoundCaller(Idle, fs, j)
BY IdleIs, NoManifest DEF Is, SoundCaller, WorkEnds, Working

(* A caller that begins to save a revision of what it works on.            *)
LEMMA SavingSound ==
  ASSUME NEW fs, NEW j, NEW m, SoundManifest(m, j), m # Damaged, ~Terminal(m),
         NEW c \in Contents, Backed(c, j),
         Last(m).outcome # "not_attempted" => c.outcome # "not_attempted",
         NEW seen \in Seen, NEW then \in {"idle", "loading", "posting", "applying"},
         then = "applying" => SeenBacked(seen, j),
         c.state \in Verdicts => then # "posting" /\ (then = "applying" => Due(c, seen) = {})
  PROVE  LET r == [pc |-> "saving", mine |-> m, next |-> Append(m, c), seen |-> seen, then |-> then]
         IN  SoundCaller(r, fs, j) /\ Is(r, "saving", m, Append(m, c), seen, then)
<1> DEFINE n == Append(m, c)
           r == [pc |-> "saving", mine |-> m, next |-> n, seen |-> seen, then |-> then]
<1>1. SoundManifest(n, j) /\ m \in Manifests /\ n \in Manifests
  BY SoundAppended DEF SoundManifest
<1>2. (\E d \in Contents : n = Append(m, d)) /\ Last(n) = c
  BY <1>1, Appended
<1> HIDE DEF n
<1>3. Is(r, "saving", m, n, seen, then)
  BY <1>1 DEF Is, CallerStates, Working
<1> HIDE DEF r
<1>4. WorkEnds(r)
  BY <1>2, <1>3 DEF Is, WorkEnds, Terminal, Working
<1>5. SoundCaller(r, fs, j)
  BY <1>1, <1>2, <1>3, <1>4 DEF Is, SoundCaller, Working
<1>6. QED
  BY <1>3, <1>5 DEF r, n

(* A caller that goes on from a save that is done.                         *)
SavedCaller(c) ==
  IF c.then = "idle" THEN Idle
  ELSE [c EXCEPT !.pc = c.then, !.mine = c.next, !.next = Damaged]

LEMMA SavedSound ==
  ASSUME NEW fs, NEW j, NEW r, SoundCaller(r, fs, j), r.pc \in {"saving", "replacing"},
         r.next # Damaged
  PROVE  /\ SoundCaller(SavedCaller(r), fs, j)
         /\ r.then # "idle" => Is(SavedCaller(r), r.then, r.next, Damaged, r.seen, r.then)
<1>1. CASE r.then = "idle"
  BY <1>1, IdleSound DEF SavedCaller
<1>2. CASE r.then # "idle"
  <2> DEFINE e == [r EXCEPT !.pc = r.then, !.mine = r.next, !.next = Damaged]
  <2>1. /\ Is(r, r.pc, r.mine, r.next, r.seen, r.then)
        /\ r.next \in Manifests /\ Damaged \in Manifests /\ r.seen \in Seen /\ r.then \in Places
    BY NoManifest DEF SoundCaller, SoundManifest, Is, CallerStates, Places, Working
  <2>2. Is(e, r.then, r.next, Damaged, r.seen, r.then)
    BY <2>1, SeveralFields, Zenon
  <2>3. SavedCaller(r) = e
    BY <1>2 DEF SavedCaller
  <2>4. r.then \in {"loading", "posting", "applying"}
    BY <1>2, <2>1 DEF Is, CallerStates
  <2> HIDE DEF e
  <2>5. WorkEnds(e)
    BY <2>2, <2>4 DEF Is, SoundCaller, WorkEnds, Working
  <2>6. SoundCaller(e, fs, j)
    BY <2>2, <2>4, <2>5, NoManifest DEF Is, SoundCaller, Working
  <2>7. QED
    BY <2>2, <2>3, <2>6
<1>3. QED
  BY <1>1, <1>2

-----------------------------------------------------------------------------
(* Every step keeps Sound, whoever the callers are. *)

(* A step that only moves one caller.                                      *)
LEMMA CallerMoves ==
  ASSUME Sound, NEW p \in Callers, NEW r, SoundCaller(r, files, job),
         caller' = [caller EXCEPT ![p] = r], UNCHANGED <<current, files, job, posts>>
  PROVE  Sound'
<1>1. /\ SoundJob(job) /\ Grows(job, job) /\ files \subseteq files
      /\ caller \in [Callers -> CallerStates]
      /\ \A q \in Callers : SoundCaller(caller[q], files, job)
  BY GrowsRefl DEF Sound
<1>2. /\ [caller EXCEPT ![p] = r] \in [Callers -> CallerStates]
      /\ \A q \in Callers : SoundCaller([caller EXCEPT ![p] = r][q], files, job)
  BY <1>1, OneMoves, Zenon
<1>3. QED
  BY <1>2 DEF Sound

(* Where Goto can lead: to an end, to a load, or on with the same work.    *)
LEMMA Goes ==
  ASSUME Sound, NEW p \in Callers, NEW pc, Goto(p, pc),
         \/ pc \in {"idle", "loading"}
         \/ pc = "posted" /\ caller[p].pc = "posting"
  PROVE  /\ caller' = [caller EXCEPT ![p] = caller'[p]]
         /\ SoundCaller(caller'[p], files, job)
         /\ pc = "idle" => caller'[p] = Idle
         /\ pc # "idle" => Is(caller'[p], pc, caller[p].mine, caller[p].next,
                              caller[p].seen, caller[p].then)
<1> DEFINE r == IF pc = "idle" THEN Idle ELSE [caller[p] EXCEPT !.pc = pc]
<1>1. caller \in [Callers -> CallerStates] /\ SoundCaller(caller[p], files, job)
  BY DEF Sound
<1>2. caller' = [caller EXCEPT ![p] = r]
  BY DEF Goto
<1>3. CASE pc = "idle"
  BY <1>1, <1>2, <1>3, IdleSound
<1>4. CASE pc # "idle"
  <2>1. pc \in Places /\ (pc = "loading" \/ (pc = "posted" /\ caller[p].pc = "posting"))
    BY <1>4 DEF Places, Working
  <2>2. r = [caller[p] EXCEPT !.pc = pc]
    BY <1>4
  <2>3. Is(caller[p], caller[p].pc, caller[p].mine, caller[p].next, caller[p].seen, caller[p].then)
    BY <1>1 DEF Is
  <2>4. Is(r, pc, caller[p].mine, caller[p].next, caller[p].seen, caller[p].then)
    BY <2>1, <2>2, <2>3, OneField, Zenon
  <2> HIDE DEF r
  <2>5. SoundCaller(r, files, job)
    BY <1>1, <2>1, <2>4 DEF Is, SoundCaller, WorkEnds, Working
  <2>6. caller'[p] = r
    BY <1>1, <1>2
  <2>7. QED
    BY <1>2, <1>4, <2>4, <2>5, <2>6
<1>5. QED
  BY <1>3, <1>4

LEMMA GoesSound ==
  ASSUME Sound, NEW p \in Callers, NEW pc, Goto(p, pc), pc \in {"idle", "loading"},
         UNCHANGED <<current, files, job, posts>>
  PROVE  Sound'
<1>1. caller' = [caller EXCEPT ![p] = caller'[p]] /\ SoundCaller(caller'[p], files, job)
  BY Goes
<1>2. QED
  BY <1>1, CallerMoves

(* A step that begins to save a revision.                                  *)
LEMMA SavesSound ==
  ASSUME Sound, NEW p \in Callers, NEW m, NEW c, NEW seen, NEW then,
         SoundManifest(m, job), m # Damaged, ~Terminal(m), c \in Contents, Backed(c, job),
         Last(m).outcome # "not_attempted" => c.outcome # "not_attempted",
         seen \in Seen, then \in {"idle", "loading", "posting", "applying"},
         then = "applying" => SeenBacked(seen, job),
         c.state \in Verdicts => then # "posting" /\ (then = "applying" => Due(c, seen) = {}),
         Save(p, m, c, seen, then), UNCHANGED <<current, files, job, posts>>
  PROVE  /\ Sound'
         /\ Is(caller'[p], "saving", m, Append(m, c), seen, then)
<1> DEFINE r == [pc |-> "saving", mine |-> m, next |-> Append(m, c), seen |-> seen, then |-> then]
<1>1. SoundCaller(r, files, job) /\ Is(r, "saving", m, Append(m, c), seen, then)
  BY SavingSound, Zenon
<1>2. caller' = [caller EXCEPT ![p] = r]
  BY DEF Save
<1> HIDE DEF r
<1>3. Sound'
  BY <1>1, <1>2, CallerMoves
<1>4. caller'[p] = r
  BY <1>2 DEF Sound
<1>5. QED
  BY <1>1, <1>3, <1>4

LEMMA ASavedManifest ==
  ASSUME Sound, NEW p \in Callers, caller[p].pc = "saving"
  PROVE  /\ caller[p].mine # Damaged /\ SoundManifest(caller[p].mine, job)
         /\ caller[p].next # Damaged /\ SoundManifest(caller[p].next, job)
         /\ Front(caller[p].next) = caller[p].mine
<1>1. SoundCaller(caller[p], files, job)
  BY DEF Sound
<1>2. PICK c \in Contents : caller[p].next = Append(caller[p].mine, c)
  BY <1>1 DEF SoundCaller
<1>3. caller[p].mine \in Manifests
  BY <1>1 DEF SoundCaller, SoundManifest
<1>4. QED
  BY <1>1, <1>2, <1>3, Appended DEF SoundCaller, Working

LEMMA LastContent ==
  ASSUME NEW m \in Manifests, m # Damaged
  PROVE  Last(m) \in Contents
BY DEF Manifests, Damaged, Last

(* The revisions that submit writes.                                       *)
LEMMA SubmitChanges ==
  ASSUME NEW c \in Contents, NEW j, Backed(c, j)
  PROVE  /\ \A d \in {[c EXCEPT !.state = "cancelled"], [c EXCEPT !.outcome = "attempting"],
                      MarkAmbiguous(c)} :
              d \in Contents /\ Backed(d, j) /\ (c.outcome # "not_attempted" => d.outcome # "not_attempted")
         /\ j.place # "none" =>
              \A d \in {[c EXCEPT !.outcome = "accepted"], Queued(c)} :
                d \in Contents /\ Backed(d, j) /\ (c.outcome # "not_attempted" => d.outcome # "not_attempted")
<1> DEFINE Good(d) == /\ d \in Contents /\ Backed(d, j)
                      /\ c.outcome # "not_attempted" => d.outcome # "not_attempted"
<1>1. Good([c EXCEPT !.state = "cancelled"])
  BY DEF Contents, Backed, Verdicts
<1>2. Good([c EXCEPT !.outcome = "attempting"])
  BY DEF Contents, Backed
<1>3. Good(MarkAmbiguous(c))
  BY DEF Contents, Backed, MarkAmbiguous
<1>4. j.place # "none" => Good([c EXCEPT !.outcome = "accepted"]) /\ Good(Queued(c))
  BY DEF Contents, Backed, Queued
<1>5. QED
  BY <1>1, <1>2, <1>3, <1>4

LEMMA WriteRevisionSound ==
  ASSUME Sound, NEW p \in Callers, WriteRevision(p)
  PROVE  /\ Sound'
         /\ Is(caller'[p], "replacing", caller[p].mine, caller[p].next, caller[p].seen, caller[p].then)
<1> DEFINE r == [caller[p] EXCEPT !.pc = "replacing"]
<1>1. /\ SoundCaller(caller[p], files, job) /\ caller[p].pc = "saving"
      /\ caller \in [Callers -> CallerStates]
  BY DEF Sound, WriteRevision, At
<1>2. /\ files' = files \cup {caller[p].next} /\ UNCHANGED <<current, job, posts>>
      /\ caller' = [caller EXCEPT ![p] = r]
  BY DEF WriteRevision, Goto, serverVars
<1>3. /\ caller[p].next # Damaged /\ SoundManifest(caller[p].next, job)
  BY <1>1, ASavedManifest
<1>4. Is(r, "replacing", caller[p].mine, caller[p].next, caller[p].seen, caller[p].then)
  <2>1. Is(caller[p], caller[p].pc, caller[p].mine, caller[p].next, caller[p].seen, caller[p].then)
    BY <1>1 DEF Is, SoundCaller
  <2>2. "replacing" \in Places
    BY DEF Places
  <2>3. QED
    BY <2>1, <2>2, OneField, Zenon
<1> HIDE DEF r
<1>5. SoundCaller(r, files', job)
  <2>1. WorkEnds(r)
    BY <1>1, <1>4 DEF Is, SoundCaller, WorkEnds, Working
  <2>2. QED
    BY <1>1, <1>2, <1>4, <2>1 DEF Is, SoundCaller, Working
<1>6. /\ caller' \in [Callers -> CallerStates]
      /\ \A q \in Callers : SoundCaller(caller'[q], files', job)
  <2>1. /\ SoundJob(job) /\ Grows(job, job) /\ files \subseteq files'
        /\ \A q \in Callers : SoundCaller(caller[q], files, job)
    BY <1>2, GrowsRefl DEF Sound
  <2>2. /\ [caller EXCEPT ![p] = r] \in [Callers -> CallerStates]
        /\ \A q \in Callers : SoundCaller([caller EXCEPT ![p] = r][q], files', job)
    BY <1>1, <1>5, <2>1, OneMoves
  <2>3. caller' = [caller EXCEPT ![p] = r]
    BY <1>2
  <2>4. QED
    BY <2>2, <2>3, Zenon
<1>7. SoundStore(files', job)
  <2> DEFINE n == caller[p].next
  <2>1. PICK f \in files : \A g \in files : Len(g) <= Len(f)
    BY DEF Sound, SoundStore, Longest
  <2>2. Len(n) \in Nat /\ \A g \in files : Len(g) \in Nat
    BY <1>3 DEF Sound, SoundStore, SoundManifest, Manifests
  <2> HIDE DEF n
  <2>3. Longest(files \cup {n})
    <3>1. CASE Len(n) <= Len(f)
      BY <2>1, <3>1 DEF Longest
    <3>2. CASE Len(f) < Len(n)
      BY <2>1, <2>2, <3>2 DEF Longest
    <3>3. QED
      BY <2>2, <3>1, <3>2
  <2>4. QED
    BY <1>2, <1>3, <2>3 DEF Sound, SoundStore, n
<1>8. caller'[p] = r
  BY <1>1, <1>2
<1>9. QED
  BY <1>2, <1>4, <1>6, <1>7, <1>8 DEF Sound

LEMMA SavedMoves ==
  ASSUME NEW p \in Callers, caller \in [Callers -> CallerStates], Saved(p)
  PROVE  caller' = [caller EXCEPT ![p] = SavedCaller(caller[p])] /\ caller'[p] = SavedCaller(caller[p])
<1>1. caller' = [caller EXCEPT ![p] = SavedCaller(caller[p])]
  BY Zenon DEF Saved, SavedCaller
<1>2. QED
  BY <1>1

LEMMA WriteNothingSound ==
  ASSUME Sound, NEW p \in Callers, WriteNothing(p)
  PROVE  Sound'
<1>1. /\ SoundCaller(caller[p], files, job) /\ caller[p].pc = "saving"
      /\ UNCHANGED <<current, files, job, posts>> /\ caller \in [Callers -> CallerStates]
  BY DEF Sound, WriteNothing, At, storeVars, serverVars
<1>2. CASE Saved(p)
  <2>1. SoundCaller(SavedCaller(caller[p]), files, job)
    BY <1>1, ASavedManifest, SavedSound
  <2>2. caller' = [caller EXCEPT ![p] = SavedCaller(caller[p])]
    BY <1>1, <1>2, SavedMoves
  <2>3. QED
    BY <1>1, <2>1, <2>2, CallerMoves
<1>3. CASE Goto(p, "idle")
  BY <1>1, <1>3, GoesSound
<1>4. QED
  BY <1>2, <1>3 DEF WriteNothing

LEMMA ReplaceCurrentSound ==
  ASSUME Sound, NEW p \in Callers, ReplaceCurrent(p)
  PROVE  Sound' /\ caller[p].next # Damaged
<1>1. /\ SoundCaller(caller[p], files, job) /\ caller[p].pc = "replacing"
      /\ current' = caller[p].next /\ UNCHANGED <<files, job, posts>> /\ Saved(p)
      /\ caller \in [Callers -> CallerStates]
  BY DEF Sound, ReplaceCurrent, At, serverVars
<1>2. caller[p].next \in files /\ caller[p].next # Damaged /\ SoundManifest(caller[p].next, job)
  BY <1>1 DEF SoundCaller, Sound, SoundStore
<1>3. SoundCaller(SavedCaller(caller[p]), files, job)
  BY <1>1, <1>2, SavedSound
<1>4. caller' = [caller EXCEPT ![p] = SavedCaller(caller[p])]
  BY <1>1, SavedMoves
<1>5. /\ caller' \in [Callers -> CallerStates]
      /\ \A q \in Callers : SoundCaller(caller'[q], files, job)
  <2>1. /\ SoundJob(job) /\ Grows(job, job) /\ files \subseteq files
        /\ \A q \in Callers : SoundCaller(caller[q], files, job)
    BY GrowsRefl DEF Sound
  <2>2. QED
    BY <1>1, <1>3, <1>4, <2>1, OneMoves, Zenon
<1>6. QED
  BY <1>1, <1>2, <1>5 DEF Sound

LEMMA NewestIsAFile ==
  ASSUME Sound
  PROVE  Newest \in files /\ \A g \in files : Len(g) <= Len(Newest)
<1>1. \E f \in files : \A g \in files : Len(g) <= Len(f)
  BY DEF Sound, SoundStore, Longest
<1>2. QED
  BY <1>1, Zenon DEF Newest

LEMMA RecoverSound ==
  ASSUME Sound, NEW p \in Callers, Recover(p)
  PROVE  Sound' /\ Is(caller'[p], "replacing", Damaged, Newest, Nothing, "idle")
<1> DEFINE r == [Idle EXCEPT !.pc = "replacing", !.next = Newest]
<1>1. /\ caller' = [caller EXCEPT ![p] = r] /\ UNCHANGED <<current, files, job, posts>>
      /\ caller \in [Callers -> CallerStates]
  BY DEF Recover, storeVars, serverVars, Sound
<1>2. Newest \in files /\ SoundManifest(Newest, job) /\ Newest \in Manifests
  BY NewestIsAFile DEF Sound, SoundStore, SoundManifest
<1>3. Is(r, "replacing", Damaged, Newest, Nothing, "idle")
  <2>1. "replacing" \in Places /\ Damaged \in Manifests /\ Nothing \in Seen
    BY IdleIs DEF Places, Is, CallerStates, Idle
  <2>2. QED
    BY <1>2, <2>1, IdleIs, SeveralFields, Zenon
<1> HIDE DEF r
<1>4. SoundCaller(r, files, job)
  BY <1>2, <1>3, NoManifest DEF Is, SoundCaller, WorkEnds, Working
<1>5. QED
  BY <1>1, <1>3, <1>4, CallerMoves

(* The current manifest, when there is one.                                *)
LEMMA CurrentContent ==
  ASSUME Sound, Readable
  PROVE  /\ current # Damaged /\ SoundManifest(current, job)
         /\ Last(current) \in Contents /\ Backed(Last(current), job)
BY LastContent DEF Sound, SoundManifest, Readable

(* What a caller works on.                                                 *)
LEMMA WorkContent ==
  ASSUME Sound, NEW p \in Callers, caller[p].pc \in Working
  PROVE  /\ caller[p].mine # Damaged /\ SoundManifest(caller[p].mine, job)
         /\ Last(caller[p].mine) \in Contents /\ Backed(Last(caller[p].mine), job)
         /\ caller[p].pc # "applying" => ~Terminal(caller[p].mine)
<1>1. SoundCaller(caller[p], files, job)
  BY DEF Sound
<1>2. caller[p].pc # "applying" => ~Terminal(caller[p].mine)
  BY <1>1 DEF SoundCaller, WorkEnds
<1>3. QED
  BY <1>1, <1>2, LastContent DEF SoundCaller, SoundManifest

LEMMA SeenSoFar == Nothing \in Seen /\ [by |-> "answer"] \in Seen
BY DEF Nothing, Seen

(* What submit saves of the current manifest.                              *)
LEMMA SubmitSaves ==
  ASSUME Sound, NEW p \in Callers, MaySubmit(p), NEW c, NEW then \in {"idle", "posting"},
         \/ c = [Last(current) EXCEPT !.state = "cancelled"] /\ then = "idle"
         \/ c = [Last(current) EXCEPT !.outcome = "attempting"]
         \/ c = Queued(Last(current)) /\ Last(current).outcome \in {"accepted", "recovered"},
         Save(p, current, c, Nothing, then), UNCHANGED <<storeVars, serverVars>>
  PROVE  /\ Sound'
         /\ Is(caller'[p], "saving", current, Append(current, c), Nothing, then)
         /\ c \in Contents
         /\ Last(current).outcome # "not_attempted" => c.outcome # "not_attempted"
<1>1. /\ current # Damaged /\ SoundManifest(current, job) /\ Last(current).state = "prepared"
      /\ Last(current) \in Contents /\ Backed(Last(current), job) /\ ~Terminal(current)
  BY CurrentContent DEF MaySubmit, Terminal, Verdicts
<1>2. /\ c \in Contents /\ Backed(c, job)
      /\ Last(current).outcome # "not_attempted" => c.outcome # "not_attempted"
  <2>1. CASE c = Queued(Last(current)) /\ Last(current).outcome \in {"accepted", "recovered"}
    <3>1. job.place # "none"
      BY <1>1, <2>1 DEF Backed
    <3>2. QED
      BY <1>1, <2>1, <3>1, SubmitChanges, Zenon
  <2>2. CASE c \in {[Last(current) EXCEPT !.state = "cancelled"], [Last(current) EXCEPT !.outcome = "attempting"]}
    BY <1>1, <2>2, SubmitChanges, Zenon
  <2>3. QED
    BY <2>1, <2>2
<1>3. UNCHANGED <<current, files, job, posts>>
  BY DEF storeVars, serverVars
<1>4. then \in {"idle", "loading", "posting", "applying"} /\ then # "applying"
  OBVIOUS
<1>5. c.state \in Verdicts => then # "posting" /\ (then = "applying" => Due(c, Nothing) = {})
  BY <1>1, <1>4 DEF Contents, Queued, Verdicts
<1>6. Sound' /\ Is(caller'[p], "saving", current, Append(current, c), Nothing, then)
  BY <1>1, <1>2, <1>3, <1>4, <1>5, SeenSoFar, SavesSound
<1>7. QED
  BY <1>2, <1>6

LEMMA SubmitSound ==
  ASSUME Sound, NEW p \in Callers, Submit(p)
  PROVE  Sound'
<1>1. CASE SubmitCancelled(p)
  BY <1>1, SubmitSaves DEF SubmitCancelled
<1>2. CASE SubmitFirst(p)
  BY <1>2, SubmitSaves DEF SubmitFirst
<1>3. CASE SubmitAgain(p)
  <2>1. CASE Goto(p, "loading")
    <3>1. UNCHANGED <<current, files, job, posts>>
      BY <1>3 DEF SubmitAgain, storeVars, serverVars
    <3>2. QED
      BY <2>1, <3>1, GoesSound
  <2>2. CASE /\ Last(current).outcome \in {"accepted", "recovered"}
             /\ Save(p, current, Queued(Last(current)), Nothing, "idle")
    BY <1>3, <2>2, SubmitSaves DEF SubmitAgain
  <2>3. QED
    BY <1>3, <2>1, <2>2 DEF SubmitAgain
<1>4. QED
  BY <1>1, <1>2, <1>3 DEF Submit

LEMMA PostSound ==
  ASSUME Sound, NEW p \in Callers, Post(p)
  PROVE  /\ Sound'
         /\ Is(caller'[p], "posted", caller[p].mine, caller[p].next, caller[p].seen, caller[p].then)
<1>1. /\ caller[p].pc = "posting" /\ Goto(p, "posted") /\ UNCHANGED <<current, files>>
      /\ posts' = posts + 1 /\ job' = [job EXCEPT !.flying = TRUE]
  BY DEF Post, At, storeVars
<1>2. /\ caller' = [caller EXCEPT ![p] = caller'[p]] /\ SoundCaller(caller'[p], files, job)
      /\ Is(caller'[p], "posted", caller[p].mine, caller[p].next, caller[p].seen, caller[p].then)
  BY <1>1, Goes
<1>3. SoundJob(job') /\ Grows(job, job')
  BY <1>1 DEF Sound, SoundJob, Jobs, Grows
<1>4. /\ SoundJob(job) /\ files \subseteq files /\ caller \in [Callers -> CallerStates]
      /\ \A q \in Callers : SoundCaller(caller[q], files, job)
  BY DEF Sound
<1>5. SoundCaller(caller'[p], files, job')
  BY <1>2, <1>3, <1>4, SoundCallerStays
<1>6. /\ [caller EXCEPT ![p] = caller'[p]] \in [Callers -> CallerStates]
      /\ \A q \in Callers : SoundCaller([caller EXCEPT ![p] = caller'[p]][q], files, job')
  <2> DEFINE r == caller'[p]
             k == job'
  <2>1. SoundCaller(r, files, k) /\ Grows(job, k)
    BY <1>3, <1>5
  <2> HIDE DEF r, k
  <2>2. /\ [caller EXCEPT ![p] = r] \in [Callers -> CallerStates]
        /\ \A q \in Callers : SoundCaller([caller EXCEPT ![p] = r][q], files, k)
    BY <1>4, <2>1, OneMoves
  <2>3. QED
    BY <2>2 DEF r, k
<1>7. SoundManifest(current, job') /\ SoundStore(files, job')
  BY <1>3, BackingStays DEF Sound, SoundStore
<1>8. posts' \in Nat
  BY <1>1 DEF Sound
<1>9. QED
  BY <1>1, <1>2, <1>3, <1>6, <1>7, <1>8 DEF Sound

(* A step of the prompt alone.                                             *)
LEMMA JobMoves ==
  ASSUME Sound, SoundJob(job'), Grows(job, job'), UNCHANGED <<current, files, caller, posts>>
  PROVE  Sound'
<1>1. SoundManifest(current, job') /\ SoundStore(files, job')
  BY BackingStays DEF Sound, SoundStore
<1>2. ASSUME NEW q \in Callers PROVE SoundCaller(caller[q], files, job')
  BY SoundCallerStays DEF Sound
<1>3. QED
  BY <1>1, <1>2 DEF Sound

LEMMA AnswerSound ==
  ASSUME Sound, NEW p \in Callers, Answer(p)
  PROVE  Sound'
<1>1. CASE Accepted(p)
  <2>1. /\ caller[p].pc \in Working /\ job.place # "none" /\ UNCHANGED <<current, files, job, posts>>
        /\ Save(p, caller[p].mine, [Last(caller[p].mine) EXCEPT !.outcome = "accepted"],
                [by |-> "answer"], "applying")
    BY <1>1 DEF Accepted, At, Working, storeVars, serverVars
  <2> DEFINE c == [Last(caller[p].mine) EXCEPT !.outcome = "accepted"]
             m == caller[p].mine
  <2>2. /\ m # Damaged /\ SoundManifest(m, job) /\ Last(m) \in Contents /\ Backed(Last(m), job)
        /\ ~Terminal(m) /\ c.state = Last(m).state
    BY <2>1, <1>1, WorkContent DEF Accepted, At, Contents
  <2>3. /\ c \in Contents /\ Backed(c, job)
        /\ Last(m).outcome # "not_attempted" => c.outcome # "not_attempted"
    BY <2>1, <2>2, SubmitChanges, Zenon
  <2>4. SeenBacked([by |-> "answer"], job)
    BY <2>1 DEF SeenBacked
  <2>5. Save(p, m, c, [by |-> "answer"], "applying")
    BY <2>1
  <2>6. c.state \notin Verdicts
    BY <2>2 DEF Terminal
  <2> HIDE DEF c, m
  <2>7. QED
    BY <2>1, <2>2, <2>3, <2>4, <2>5, <2>6, SeenSoFar, SavesSound
<1>2. CASE Rejected(p)
  <2>1. /\ Goto(p, "idle") /\ UNCHANGED <<current, files, posts>>
        /\ job' = job \/ job' = [job EXCEPT !.flying = FALSE]
    BY <1>2 DEF Rejected, storeVars
  <2>2. caller' = [caller EXCEPT ![p] = Idle]
    BY <2>1 DEF Goto
  <2>3. SoundJob(job') /\ Grows(job, job')
    BY <2>1 DEF Sound, SoundJob, Jobs, Grows
  <2>4. /\ SoundJob(job) /\ files \subseteq files /\ caller \in [Callers -> CallerStates]
        /\ \A q \in Callers : SoundCaller(caller[q], files, job)
    BY DEF Sound
  <2>5. /\ [caller EXCEPT ![p] = Idle] \in [Callers -> CallerStates]
        /\ \A q \in Callers : SoundCaller([caller EXCEPT ![p] = Idle][q], files, job')
    <3> DEFINE k == job'
    <3>1. SoundCaller(Idle, files, k) /\ Grows(job, k)
      BY <2>3, IdleSound
    <3> HIDE DEF k
    <3>2. /\ [caller EXCEPT ![p] = Idle] \in [Callers -> CallerStates]
          /\ \A q \in Callers : SoundCaller([caller EXCEPT ![p] = Idle][q], files, k)
      BY <2>4, <3>1, OneMoves
    <3>3. QED
      BY <3>2 DEF k
  <2>6. SoundManifest(current, job') /\ SoundStore(files, job')
    BY <2>3, BackingStays DEF Sound, SoundStore
  <2>7. QED
    BY <2>1, <2>2, <2>3, <2>5, <2>6 DEF Sound
<1>3. CASE NoAnswer(p)
  <2>1. PICK then \in {"loading", "idle"} :
          Save(p, caller[p].mine, MarkAmbiguous(Last(caller[p].mine)), Nothing, then)
    BY <1>3 DEF NoAnswer
  <2>2. caller[p].pc \in Working /\ UNCHANGED <<current, files, job, posts>>
    BY <1>3 DEF NoAnswer, At, Working, storeVars, serverVars
  <2> DEFINE m == caller[p].mine
             c == MarkAmbiguous(Last(m))
  <2>3. /\ m # Damaged /\ SoundManifest(m, job) /\ Last(m) \in Contents /\ Backed(Last(m), job)
        /\ ~Terminal(m) /\ c.state = Last(m).state
    BY <2>2, <1>3, WorkContent DEF NoAnswer, At, Contents, MarkAmbiguous
  <2>4. /\ c \in Contents /\ Backed(c, job)
        /\ Last(m).outcome # "not_attempted" => c.outcome # "not_attempted"
    BY <2>3, SubmitChanges, Zenon
  <2>5. /\ then \in {"idle", "loading", "posting", "applying"} /\ then # "applying"
        /\ Save(p, m, c, Nothing, then)
    BY <2>1
  <2>6. c.state \notin Verdicts
    BY <2>3 DEF Terminal
  <2> HIDE DEF c, m
  <2>7. QED
    BY <2>2, <2>3, <2>4, <2>5, <2>6, SeenSoFar, SavesSound
<1>4. QED
  BY <1>1, <1>2, <1>3 DEF Answer

LEMMA LoadSound ==
  ASSUME Sound, NEW p \in Callers, Load(p)
  PROVE  /\ Sound'
         /\ \/ caller'[p] = Idle
            \/ /\ Readable /\ ~Terminal(current)
               /\ Is(caller'[p], "queue", current, Damaged, Nothing, "idle")
<1>1. UNCHANGED <<current, files, job, posts>>
  BY DEF Load, storeVars, serverVars
<1>2. CASE Readable /\ ~Terminal(current)
  <2> DEFINE r == [Idle EXCEPT !.pc = "queue", !.mine = current]
  <2>1. caller' = [caller EXCEPT ![p] = r]
    BY <1>2 DEF Load
  <2>2. current # Damaged /\ SoundManifest(current, job) /\ current \in Manifests
    BY <1>2, CurrentContent DEF SoundManifest
  <2>3. "queue" \in Places /\ Damaged \in Manifests /\ Nothing \in Seen
    BY NoManifest, SeenSoFar DEF Places, Working, SoundManifest
  <2>4. Is(r, "queue", current, Damaged, Nothing, "idle")
    BY <2>2, <2>3, IdleIs, SeveralFields, Zenon
  <2> HIDE DEF r
  <2>5. SoundCaller(r, files, job)
    BY <1>2, <2>2, <2>4, NoManifest DEF Is, SoundCaller, WorkEnds
  <2>6. caller'[p] = r
    BY <2>1 DEF Sound
  <2>7. QED
    BY <1>1, <1>2, <2>1, <2>4, <2>5, <2>6, CallerMoves
<1>3. CASE ~(Readable /\ ~Terminal(current))
  <2>1. Goto(p, "idle")
    BY <1>3 DEF Load
  <2>2. QED
    BY <1>1, <2>1, Goes, GoesSound
<1>4. QED
  BY <1>2, <1>3

LEMMA ReadQueueSound ==
  ASSUME Sound, NEW p \in Callers, ReadQueue(p)
  PROVE  /\ Sound'
         /\ \E seen \in Seen :
              Is(caller'[p], "history", caller[p].mine, caller[p].next, seen, caller[p].then)
<1> DEFINE s == [by |-> "poll", queue |-> QueueNow]
           r == [caller[p] EXCEPT !.pc = "history", !.seen = s]
<1>1. /\ caller[p].pc = "queue" /\ UNCHANGED <<current, files, job, posts>>
      /\ caller \in [Callers -> CallerStates] /\ SoundCaller(caller[p], files, job)
  BY DEF ReadQueue, At, storeVars, serverVars, Sound
<1>2. caller' = [caller EXCEPT ![p] = r]
  BY DEF ReadQueue
<1>3. QueueBacked(QueueNow, job)
  BY DEF QueueNow, QueueBacked, Queues
<1>4. s \in Seen /\ s.queue = QueueNow
  BY <1>3 DEF Seen, QueueBacked
<1>5. Is(r, "history", caller[p].mine, caller[p].next, s, caller[p].then)
  <2>1. /\ Is(caller[p], caller[p].pc, caller[p].mine, caller[p].next, caller[p].seen, caller[p].then)
        /\ "history" \in Places /\ Damaged \in Manifests
    BY <1>1, NoManifest DEF Is, Places, Working, SoundManifest
  <2> HIDE DEF s
  <2>2. QED
    BY <1>4, <2>1, SeveralFields, Zenon
<1> HIDE DEF r, s
<1>6. SoundCaller(r, files, job)
  BY <1>1, <1>3, <1>4, <1>5 DEF Is, SoundCaller, WorkEnds, Working
<1>7. caller'[p] = r
  BY <1>1, <1>2
<1>8. QED
  BY <1>1, <1>2, <1>4, <1>5, <1>6, <1>7, CallerMoves

LEMMA ReadHistorySound ==
  ASSUME Sound, NEW p \in Callers, ReadHistory(p)
  PROVE  /\ Sound'
         /\ \/ caller'[p] = Idle
            \/ \E seen \in Seen :
                 Is(caller'[p], "applying", caller[p].mine, caller[p].next, seen, caller[p].then)
<1> DEFINE s == [by |-> "poll", queue |-> caller[p].seen.queue, verdict |-> job.verdict]
           r == [caller[p] EXCEPT !.pc = "applying", !.seen = s]
<1>1. /\ caller[p].pc = "history" /\ UNCHANGED <<current, files, job, posts>>
      /\ caller \in [Callers -> CallerStates] /\ SoundCaller(caller[p], files, job)
  BY DEF ReadHistory, At, storeVars, serverVars, Sound
<1>2. Goto(p, "idle") \/ caller' = [caller EXCEPT ![p] = r]
  BY DEF ReadHistory
<1>3. CASE Goto(p, "idle")
  BY <1>1, <1>3, Goes, GoesSound
<1>4. CASE caller' = [caller EXCEPT ![p] = r]
  <2>1. QueueBacked(caller[p].seen.queue, job) /\ job.verdict \in VerdictsRead
    BY <1>1 DEF SoundCaller, Sound, SoundJob, Jobs
  <2>2. s \in Seen /\ SeenBacked(s, job)
    BY <2>1 DEF Seen, SeenBacked, QueueBacked
  <2>3. Is(r, "applying", caller[p].mine, caller[p].next, s, caller[p].then)
    <3>1. /\ Is(caller[p], caller[p].pc, caller[p].mine, caller[p].next, caller[p].seen, caller[p].then)
          /\ "applying" \in Places /\ Damaged \in Manifests
      BY <1>1, NoManifest DEF SoundCaller, Is, Places, Working, SoundManifest
    <3> HIDE DEF s
    <3>2. QED
      BY <2>2, <3>1, SeveralFields, Zenon
  <2> HIDE DEF r, s
  <2>4. SoundCaller(r, files, job)
    <3>1. ~Terminal(caller[p].mine)
      BY <1>1, WorkContent DEF Working
    <3>2. WorkEnds(r)
      BY <2>3, <3>1 DEF Is, WorkEnds
    <3>3. QED
      BY <1>1, <2>2, <2>3, <3>2 DEF Is, SoundCaller, Working
  <2>5. caller'[p] = r
    BY <1>1, <1>4
  <2>6. QED
    BY <1>1, <1>4, <2>2, <2>3, <2>4, <2>5, CallerMoves
<1>5. QED
  BY <1>2, <1>3, <1>4

LEMMA ObserveSound ==
  ASSUME Sound, NEW p \in Callers, Observe(p)
  PROVE  /\ Sound'
         /\ \E seen \in Seen : Is(caller'[p], "applying", current, Damaged, seen, "idle")
<1>1. /\ Readable /\ job.place \in {"running", "done"} /\ UNCHANGED <<current, files, job, posts>>
      /\ caller \in [Callers -> CallerStates]
  BY DEF Observe, storeVars, serverVars, Sound
<1>2. PICK f \in 0 .. 1 :
        caller' = [caller EXCEPT ![p] = [Idle EXCEPT !.pc = "applying", !.mine = current,
                                                     !.seen = [by |-> "event", fraction |-> f]]]
  BY DEF Observe
<1> DEFINE s == [by |-> "event", fraction |-> f]
           r == [Idle EXCEPT !.pc = "applying", !.mine = current, !.seen = s]
<1>3. current # Damaged /\ SoundManifest(current, job) /\ current \in Manifests
  BY <1>1, CurrentContent DEF SoundManifest
<1>4. s \in Seen /\ SeenBacked(s, job)
  BY <1>1 DEF Seen, SeenBacked
<1>5. Is(r, "applying", current, Damaged, s, "idle")
  <2>1. "applying" \in Places /\ Damaged \in Manifests
    BY NoManifest DEF Places, Working, SoundManifest
  <2> HIDE DEF s
  <2>2. QED
    BY <1>3, <1>4, <2>1, IdleIs, SeveralFields, Zenon
<1>6. caller' = [caller EXCEPT ![p] = r]
  BY <1>2
<1> HIDE DEF r, s
<1>7. SoundCaller(r, files, job)
  <2>1. WorkEnds(r)
    BY <1>5 DEF Is, WorkEnds, Observe
  <2>2. QED
    BY <1>3, <1>4, <1>5, <2>1, NoManifest DEF Is, SoundCaller
<1>8. caller'[p] = r
  BY <1>1, <1>6
<1>9. QED
  BY <1>1, <1>4, <1>5, <1>6, <1>7, <1>8, CallerMoves

LEMMA ApplySound ==
  ASSUME Sound, NEW p \in Callers, Apply(p)
  PROVE  /\ Sound'
         /\ \/ caller'[p] = Idle
            \/ LET c == Last(caller[p].mine)
                   seen == caller[p].seen
                   d == Changes(c, seen)[Min(Due(c, seen))]
               IN  /\ Due(c, seen) # {} /\ d \in Contents
                   /\ c.outcome # "not_attempted" => d.outcome # "not_attempted"
                   /\ Is(caller'[p], "saving", caller[p].mine, Append(caller[p].mine, d), seen, "applying")
<1> DEFINE m == caller[p].mine
           c == Last(m)
           seen == caller[p].seen
           d == Changes(c, seen)[Min(Due(c, seen))]
<1>1. /\ caller[p].pc = "applying" /\ UNCHANGED <<current, files, job, posts>>
      /\ SoundCaller(caller[p], files, job) /\ SoundJob(job)
  BY DEF Apply, At, storeVars, serverVars, Sound
<1>2. CASE Due(c, seen) = {}
  <2>1. Goto(p, "idle")
    BY <1>2 DEF Apply
  <2>2. QED
    BY <1>1, <2>1, Goes, GoesSound
<1>3. CASE Due(c, seen) # {}
  <2>1. Save(p, m, d, seen, "applying")
    BY <1>3 DEF Apply
  <2>2. m # Damaged /\ SoundManifest(m, job) /\ c \in Contents /\ Backed(c, job)
    BY <1>1, WorkContent DEF Working
  <2>3. seen \in Seen /\ SeenBacked(seen, job)
    BY <1>1 DEF SoundCaller, CallerStates
  <2>4. d \in Contents /\ Backed(d, job) /\ (c.outcome # "not_attempted" => d.outcome # "not_attempted")
    BY <1>1, <1>3, <2>2, <2>3, NextRevision
  <2>5. ~Terminal(m) /\ c.state \notin Verdicts
    BY <1>1, <1>3 DEF SoundCaller, WorkEnds, Working, Terminal
  <2>6. d.state \in Verdicts => Due(d, seen) = {}
    BY <1>1, <1>3, <2>2, <2>3, <2>5, NothingAfterTheVerdict
  <2> HIDE DEF d, seen, m
  <2>7. Sound' /\ Is(caller'[p], "saving", m, Append(m, d), seen, "applying")
    BY <1>1, <2>1, <2>2, <2>3, <2>4, <2>5, <2>6, SavesSound
  <2>8. QED
    BY <1>3, <2>4, <2>7 DEF d, seen, m
<1>4. QED
  BY <1>2, <1>3

LEMMA ServerSound ==
  ASSUME Sound, Server
  PROVE  Sound'
<1>1. SoundJob(job) /\ job \in Jobs
  BY DEF Sound, SoundJob
<1>2. CASE Arrive
  BY <1>1, <1>2, JobMoves DEF Arrive, storeVars, SoundJob, Jobs, Grows
<1>3. CASE Lose
  BY <1>1, <1>3, JobMoves DEF Lose, storeVars, SoundJob, Jobs, Grows
<1>4. CASE Start
  BY <1>1, <1>4, JobMoves DEF Start, storeVars, SoundJob, Jobs, Grows
<1>5. CASE Finish
  BY <1>1, <1>5, JobMoves, EndingsAreKnown DEF Finish, storeVars, SoundJob, Jobs, Grows, VerdictsRead
<1>6. QED
  BY <1>2, <1>3, <1>4, <1>5 DEF Server

LEMMA FaultSound ==
  ASSUME Sound, Damage \/ \E p \in Callers : Crash(p)
  PROVE  Sound'
<1>1. CASE Damage
  BY <1>1, NoManifest DEF Damage, Sound, serverVars
<1>2. ASSUME NEW p \in Callers, Crash(p) PROVE Sound'
  <2>1. Goto(p, "idle") /\ UNCHANGED <<current, files, job, posts>>
    BY <1>2 DEF Crash, serverVars
  <2>2. QED
    BY <2>1, GoesSound
<1>3. QED
  BY <1>1, <1>2

LEMMA InitSound ==
  ASSUME Init
  PROVE  Sound
<1>1. Prepared \in Contents /\ Prepared.state = "prepared" /\ Prepared.outcome = "not_attempted"
  BY DEF Prepared, Contents
<1> DEFINE m == <<Prepared>>
<1>2. m \in Manifests /\ m # Damaged /\ Last(m) = Prepared /\ Len(m) = 1
  BY <1>1 DEF Manifests, Damaged, Last
<1>3. Chained(m) /\ EndsOnce(m)
  BY <1>2 DEF Chained, EndsOnce
<1> HIDE DEF m
<1>4. SoundManifest(m, job)
  BY <1>1, <1>2, <1>3 DEF SoundManifest, Backed
<1>5. current = m /\ files = {m}
  BY DEF Init, m
<1>6. SoundStore(files, job)
  BY <1>2, <1>4, <1>5 DEF SoundStore, Longest
<1>7. SoundJob(job) /\ posts \in Nat
  BY DEF Init, SoundJob, Jobs, VerdictsRead
<1>8. /\ caller \in [Callers -> CallerStates]
      /\ \A p \in Callers : SoundCaller(caller[p], files, job)
  BY IdleIs, IdleSound DEF Init, Is
<1>9. QED
  BY <1>4, <1>5, <1>6, <1>7, <1>8 DEF Sound

LEMMA SoundStep ==
  ASSUME Sound, [Next]_vars
  PROVE  Sound'
<1>1. CASE UNCHANGED vars
  BY <1>1 DEF vars, Sound
<1>2. CASE Server
  BY <1>2, ServerSound
<1>3. CASE Damage
  BY <1>3, FaultSound
<1>4. ASSUME NEW p \in Callers,
             \/ Submit(p) \/ Poll(p) \/ Observe(p) \/ Recover(p)
             \/ Proceed(p) \/ ReadQueue(p) \/ ReadHistory(p) \/ Unavailable(p) \/ Crash(p)
      PROVE  Sound'
  <2>1. CASE Submit(p)
    BY <2>1, SubmitSound
  <2>2. CASE Poll(p)
    <3>1. Goto(p, "loading") /\ UNCHANGED <<current, files, job, posts>>
      BY <2>2 DEF Poll, storeVars, serverVars
    <3>2. QED
      BY <3>1, GoesSound
  <2>3. CASE Observe(p)
    BY <2>3, ObserveSound
  <2>4. CASE Recover(p)
    BY <2>4, RecoverSound
  <2>5. CASE Store(p)
    BY <2>5, WriteRevisionSound, WriteNothingSound, ReplaceCurrentSound DEF Store
  <2>6. CASE Post(p)
    BY <2>6, PostSound
  <2>7. CASE Answer(p)
    BY <2>7, AnswerSound
  <2>8. CASE Load(p)
    BY <2>8, LoadSound
  <2>9. CASE Apply(p)
    BY <2>9, ApplySound
  <2>10. CASE ReadQueue(p)
    BY <2>10, ReadQueueSound
  <2>11. CASE ReadHistory(p)
    BY <2>11, ReadHistorySound
  <2>12. CASE Unavailable(p)
    <3>1. Goto(p, "idle") /\ UNCHANGED <<current, files, job, posts>>
      BY <2>12 DEF Unavailable, storeVars, serverVars
    <3>2. QED
      BY <3>1, GoesSound
  <2>13. CASE Crash(p)
    BY <2>13, FaultSound
  <2>14. QED
    BY <1>4, <2>1, <2>2, <2>3, <2>4, <2>5, <2>6, <2>7, <2>8, <2>9, <2>10, <2>11, <2>12, <2>13
       DEF Proceed
<1>5. QED
  BY <1>1, <1>2, <1>3, <1>4 DEF Next

LEMMA AlwaysSound == Spec => []Sound
BY InitSound, SoundStep, PTL DEF Spec

(* The variables stay in their types, whoever calls.                       *)
THEOREM TypeCorrect == Spec => []TypeOK
<1>1. Sound => TypeOK
  BY DEF Sound, SoundJob, SoundStore, SoundManifest, TypeOK
<1>2. QED
  BY <1>1, AlwaysSound, PTL

(* The manifest on the disk never says more than the server has done, for  *)
(* any number of callers, whatever is lost, crashes or comes late.         *)
THEOREM NeverAhead == Spec => []NeverAheadOfTheServer
<1>1. Sound => NeverAheadOfTheServer
  BY DEF Sound, SoundManifest, Backed, NeverAheadOfTheServer, Readable
<1>2. QED
  BY <1>1, AlwaysSound, PTL

(* No revision follows a terminal one, whoever calls: what a caller works  *)
(* on was not terminal when it was loaded, and of all it writes only the   *)
(* last can be.                                                            *)
THEOREM EndsAreFinal == Spec => []NothingFollowsAVerdict
<1>1. Sound => NothingFollowsAVerdict
  BY DEF Sound, SoundStore, SoundManifest, EndsOnce, NothingFollowsAVerdict
<1>2. QED
  BY <1>1, AlwaysSound, PTL

-----------------------------------------------------------------------------
(* One caller: every step keeps what it holds in hand.  No step of another *)
(* caller comes between, so each action is looked at from its own record.  *)

Holds(p) == InHand(caller[p], current) /\ PostedOnce(caller[p], current, files, posts)

LEMMA NotWorking ==
  ASSUME NEW p, Holds(p), UNCHANGED <<files, posts>>, current' \in {current, Damaged},
         \/ caller'[p] = Idle
         \/ Is(caller'[p], "loading", caller[p].mine, caller[p].next, caller[p].seen, caller[p].then)
  PROVE  Holds(p)'
<1>1. Attempted(current) => Attempted(current')
  BY DEF Attempted
<1>2. Attempted(Idle.mine) /\ Attempted(Idle.next) /\ Idle.pc = "idle"
  BY DEF Idle, Attempted
<1>3. CASE caller'[p] = Idle
  BY <1>1, <1>2, <1>3 DEF Holds, InHand, PostedOnce, Working
<1>4. CASE Is(caller'[p], "loading", caller[p].mine, caller[p].next, caller[p].seen, caller[p].then)
  BY <1>1, <1>4 DEF Is, Holds, InHand, PostedOnce, Working
<1>5. QED
  BY <1>3, <1>4

LEMMA GoesHolds ==
  ASSUME Sound, NEW p \in Callers, Holds(p), NEW pc \in {"idle", "loading"}, Goto(p, pc),
         UNCHANGED <<files, posts>>, current' = current
  PROVE  Holds(p)'
<1>1. \/ caller'[p] = Idle
      \/ Is(caller'[p], "loading", caller[p].mine, caller[p].next, caller[p].seen, caller[p].then)
  BY Goes
<1>2. QED
  BY <1>1, NotWorking

LEMMA SavesHolds ==
  ASSUME NEW p, Holds(p), UNCHANGED <<current, files, posts>>,
         NEW m \in Manifests, NEW c \in Contents, NEW seen, NEW then,
         Is(caller'[p], "saving", m, Append(m, c), seen, then),
         m # Damaged, current # Damaged => current = m,
         then = "posting" => posts = 0 /\ c.outcome # "not_attempted",
         posts = 1 => Last(m).outcome # "not_attempted",
         Last(m).outcome # "not_attempted" => c.outcome # "not_attempted"
  PROVE  Holds(p)'
<1>1. Append(m, c) # Damaged /\ Last(Append(m, c)) = c
  BY Appended
<1> DEFINE n == Append(m, c)
           r == caller'[p]
<1>2. n # Damaged /\ Last(n) = c /\ Is(r, "saving", m, n, seen, then)
  BY <1>1
<1> HIDE DEF n, r
<1>3. InHand(r, current)
  BY <1>2 DEF Is, InHand, Working
<1>4. PostedOnce(r, current, files, posts)
  BY <1>2 DEF Is, PostedOnce, Attempted, Holds
<1>5. QED
  BY <1>3, <1>4 DEF Holds, r

LEMMA WriteRevisionHolds ==
  ASSUME Sound, NEW p \in Callers, Holds(p), WriteRevision(p)
  PROVE  Holds(p)'
<1> DEFINE r == caller'[p]
           k == caller[p]
<1>1. Is(r, "replacing", k.mine, k.next, k.seen, k.then)
  BY WriteRevisionSound
<1>2. /\ k.pc = "saving" /\ UNCHANGED <<current, posts>> /\ files' = files \cup {k.next}
      /\ current # Damaged
  BY DEF WriteRevision, At, serverVars, MayWrite, Readable
<1> HIDE DEF r, k
<1>3. InHand(k, current) /\ PostedOnce(k, current, files, posts)
  BY DEF Holds, k
<1>4. InHand(r, current)
  BY <1>1, <1>2, <1>3 DEF Is, InHand, Working
<1>5. PostedOnce(r, current, files', posts)
  BY <1>1, <1>2, <1>3 DEF Is, PostedOnce
<1>6. QED
  BY <1>2, <1>4, <1>5 DEF Holds, r

LEMMA WriteNothingHolds ==
  ASSUME Sound, NEW p \in Callers, Holds(p), WriteNothing(p)
  PROVE  Holds(p)'
<1>1. caller[p].pc = "saving" /\ UNCHANGED <<current, files, posts>>
  BY DEF WriteNothing, At, storeVars, serverVars
<1>2. current # Damaged => current = caller[p].mine
  BY <1>1 DEF Holds, InHand, Working, Readable
<1>3. caller[p].next # caller[p].mine
  <2>1. SoundCaller(caller[p], files, job)
    BY DEF Sound
  <2>2. PICK c \in Contents : caller[p].next = Append(caller[p].mine, c)
    BY <1>1, <2>1 DEF SoundCaller
  <2>3. caller[p].mine \in Manifests
    BY <2>1 DEF SoundCaller, SoundManifest
  <2>4. Len(caller[p].next) = Len(caller[p].mine) + 1 /\ Len(caller[p].mine) \in Nat
    BY <2>2, <2>3, Appended DEF Manifests
  <2>5. QED
    BY <2>4
<1>4. Goto(p, "idle")
  BY <1>2, <1>3 DEF WriteNothing, Readable
<1>5. QED
  BY <1>1, <1>4, GoesHolds

LEMMA ReplaceCurrentHolds ==
  ASSUME Sound, NEW p \in Callers, Holds(p), ReplaceCurrent(p)
  PROVE  Holds(p)'
<1> DEFINE r == caller'[p]
           k == caller[p]
<1>1. /\ k.pc = "replacing" /\ current' = k.next /\ UNCHANGED <<files, posts>> /\ Saved(p)
      /\ caller \in [Callers -> CallerStates] /\ SoundCaller(k, files, job)
      /\ k.next # Damaged
  BY ReplaceCurrentSound DEF ReplaceCurrent, At, serverVars, Sound
<1>2. r = SavedCaller(k)
  BY <1>1, SavedMoves
<1>3. k.then \in {"idle", "loading", "posting", "applying"} /\ k.next \in files
  BY <1>1 DEF SoundCaller, CallerStates
<1>4. k.then # "idle" => Is(r, k.then, k.next, Damaged, k.seen, k.then)
  BY <1>1, <1>2, SavedSound
<1>5. k.then = "idle" => r = Idle
  BY <1>2 DEF SavedCaller
<1> HIDE DEF r, k
<1>6. InHand(k, current) /\ PostedOnce(k, current, files, posts)
  BY DEF Holds, k
<1>7. Attempted(Idle.mine) /\ Attempted(Idle.next) /\ Idle.pc = "idle" /\ Attempted(Damaged)
  BY DEF Idle, Attempted
<1>8. InHand(r, k.next)
  BY <1>1, <1>3, <1>4, <1>5, <1>6, <1>7 DEF Is, InHand, Working
<1>9. PostedOnce(r, k.next, files, posts)
  BY <1>1, <1>3, <1>4, <1>5, <1>6, <1>7 DEF Is, PostedOnce
<1>10. QED
  BY <1>1, <1>8, <1>9 DEF Holds, r

LEMMA RecoverHolds ==
  ASSUME Sound, NEW p \in Callers, Holds(p), Recover(p)
  PROVE  Holds(p)'
<1> DEFINE r == caller'[p]
<1>1. Is(r, "replacing", Damaged, Newest, Nothing, "idle")
  BY RecoverSound
<1>2. caller[p].pc = "idle" /\ Rebuildable /\ UNCHANGED <<current, files, posts>>
  BY DEF Recover, At, storeVars, serverVars
<1>3. ASSUME NEW f \in files, Attempted(f) PROVE Attempted(Newest)
  <2>1. /\ f \in Manifests /\ f # Damaged
        /\ Newest \in Manifests /\ Newest # Damaged /\ Chained(Newest)
    BY NewestIsAFile DEF Sound, SoundStore, SoundManifest
  <2>2. IsPrefix(f, Newest)
    BY <1>2 DEF Rebuildable
  <2>3. Len(f) \in 1..Len(Newest) /\ Len(Newest) \in Nat /\ f[Len(f)] = Newest[Len(f)]
    BY <2>1, <2>2 DEF IsPrefix, Manifests, Damaged
  <2>4. Newest[Len(f)].outcome # "not_attempted"
    BY <1>3, <2>1, <2>3 DEF Attempted, Last
  <2>5. Newest[Len(Newest)].outcome # "not_attempted"
    BY <2>1, <2>3, <2>4 DEF Chained
  <2>6. QED
    BY <2>5 DEF Attempted, Last
<1> HIDE DEF r
<1>4. InHand(r, current)
  BY <1>1, <1>2 DEF Is, InHand, Working
<1>5. PostedOnce(r, current, files, posts)
  BY <1>1, <1>2, <1>3 DEF Is, PostedOnce, Holds, Attempted
<1>6. QED
  BY <1>2, <1>4, <1>5 DEF Holds, r

LEMMA SubmitHolds ==
  ASSUME Sound, NEW p \in Callers, Holds(p), Submit(p)
  PROVE  Holds(p)'
<1> DEFINE c == Last(current)
<1>1. /\ MaySubmit(p) /\ UNCHANGED <<storeVars, serverVars>> /\ UNCHANGED <<current, files, posts>>
  BY DEF Submit, SubmitCancelled, SubmitFirst, SubmitAgain, storeVars, serverVars
<1>2. /\ current \in Manifests /\ current # Damaged /\ c.state = "prepared"
      /\ c \in Contents
  BY <1>1, CurrentContent DEF MaySubmit, SoundManifest
<1>3. posts = 1 => c.outcome # "not_attempted"
  BY <1>2 DEF Holds, PostedOnce, Attempted
<1>4. ASSUME NEW d, Save(p, current, d, Nothing, "idle"),
             \/ d = [c EXCEPT !.state = "cancelled"]
             \/ d = Queued(c) /\ c.outcome \in {"accepted", "recovered"}
      PROVE  Holds(p)'
  <2>1. /\ Is(caller'[p], "saving", current, Append(current, d), Nothing, "idle")
        /\ d \in Contents
        /\ c.outcome # "not_attempted" => d.outcome # "not_attempted"
    BY <1>1, <1>4, SubmitSaves
  <2>2. QED
    BY <1>1, <1>2, <1>3, <2>1, SavesHolds
<1>5. CASE SubmitFirst(p)
  <2> DEFINE d == [c EXCEPT !.outcome = "attempting"]
  <2>1. Save(p, current, d, Nothing, "posting") /\ c.outcome = "not_attempted"
    BY <1>5 DEF SubmitFirst
  <2>2. d.outcome = "attempting"
    BY <1>2 DEF Contents
  <2>3. posts = 0
    BY <1>3, <2>1 DEF Holds, PostedOnce, Sound
  <2>4. /\ Is(caller'[p], "saving", current, Append(current, d), Nothing, "posting")
        /\ d \in Contents
    BY <1>1, <2>1, SubmitSaves
  <2> HIDE DEF d
  <2> HIDE DEF c
  <2>5. QED
    BY <1>1, <1>2, <2>2, <2>3, <2>4, SavesHolds
<1>6. CASE SubmitCancelled(p)
  BY <1>4, <1>6 DEF SubmitCancelled
<1>7. CASE SubmitAgain(p)
  <2>1. CASE Goto(p, "loading")
    BY <1>1, <2>1, GoesHolds
  <2>2. CASE c.outcome \in {"accepted", "recovered"} /\ Save(p, current, Queued(c), Nothing, "idle")
    BY <1>4, <2>2
  <2>3. QED
    BY <1>7, <2>1, <2>2 DEF SubmitAgain
<1>8. QED
  BY <1>5, <1>6, <1>7 DEF Submit

LEMMA PostHolds ==
  ASSUME Sound, NEW p \in Callers, Holds(p), Post(p)
  PROVE  Holds(p)'
<1> DEFINE r == caller'[p]
           k == caller[p]
<1>1. Is(r, "posted", k.mine, k.next, k.seen, k.then)
  BY PostSound
<1>2. k.pc = "posting" /\ UNCHANGED <<current, files>> /\ posts' = posts + 1
  BY DEF Post, At, storeVars
<1> HIDE DEF r, k
<1>3. InHand(k, current) /\ PostedOnce(k, current, files, posts)
  BY DEF Holds, k
<1>4. /\ posts = 0 /\ Attempted(k.mine) /\ k.mine \in files /\ k.next = Damaged
      /\ current # Damaged => current = k.mine
  BY <1>2, <1>3 DEF InHand, PostedOnce, Working
<1>5. Attempted(current) /\ Attempted(k.next)
  BY <1>4 DEF Attempted
<1>6. InHand(r, current)
  BY <1>1, <1>2, <1>3 DEF Is, InHand, Working
<1>7. PostedOnce(r, current, files, 1)
  BY <1>1, <1>4, <1>5 DEF Is, PostedOnce
<1>8. QED
  BY <1>2, <1>4, <1>6, <1>7 DEF Holds, r

(* A caller that has posted works on a manifest that is not terminal.      *)
LEMMA WorkHolds ==
  ASSUME Sound, NEW p \in Callers, Holds(p), caller[p].pc \in Working
  PROVE  /\ caller[p].mine \in Manifests /\ caller[p].mine # Damaged
         /\ Last(caller[p].mine) \in Contents
         /\ current # Damaged => current = caller[p].mine
         /\ caller[p].pc # "applying" => ~Terminal(caller[p].mine)
         /\ posts = 1 => Last(caller[p].mine).outcome # "not_attempted"
<1>1. /\ caller[p].mine \in Manifests /\ caller[p].mine # Damaged
      /\ Last(caller[p].mine) \in Contents
      /\ caller[p].pc # "applying" => ~Terminal(caller[p].mine)
  BY WorkContent DEF SoundManifest
<1>2. QED
  BY <1>1 DEF Holds, InHand, PostedOnce, Attempted

LEMMA AnswerHolds ==
  ASSUME Sound, NEW p \in Callers, Holds(p), Answer(p)
  PROVE  Holds(p)'
<1> DEFINE m == caller[p].mine
<1>1. caller[p].pc = "posted" /\ UNCHANGED <<current, files, posts>>
  BY DEF Answer, Accepted, Rejected, NoAnswer, At, storeVars, serverVars
<1>2. /\ m \in Manifests /\ m # Damaged /\ Last(m) \in Contents
      /\ current # Damaged => current = m
      /\ ~Terminal(m)
      /\ posts = 1 => Last(m).outcome # "not_attempted"
  BY <1>1, WorkHolds DEF Working
<1>3. caller \in [Callers -> CallerStates]
  BY DEF Sound
<1>4. /\ SoundManifest(m, job) /\ Backed(Last(m), job)
  BY <1>1, WorkContent DEF Working
<1>5. CASE Accepted(p)
  <2> DEFINE c == [Last(m) EXCEPT !.outcome = "accepted"]
  <2>1. /\ Save(p, m, c, [by |-> "answer"], "applying") /\ job.place # "none"
        /\ UNCHANGED <<current, files, job, posts>>
    BY <1>5 DEF Accepted, storeVars, serverVars
  <2>2. c \in Contents /\ c.state = Last(m).state /\ c.outcome # "not_attempted"
    BY <1>2 DEF Contents
  <2>3. Backed(c, job)
    BY <1>2, <1>4, <2>1, SubmitChanges, Zenon
  <2>4. SeenBacked([by |-> "answer"], job)
    BY <2>1 DEF SeenBacked
  <2>5. c.state \notin Verdicts
    BY <1>2, <2>2 DEF Terminal
  <2> HIDE DEF c, m
  <2>6. Is(caller'[p], "saving", m, Append(m, c), [by |-> "answer"], "applying")
    BY <1>2, <1>4, <2>1, <2>2, <2>3, <2>4, <2>5, SeenSoFar, SavesSound
  <2>7. QED
    BY <1>1, <1>2, <2>2, <2>6, SavesHolds
<1>6. CASE Rejected(p)
  BY <1>1, <1>6, GoesHolds DEF Rejected
<1>7. CASE NoAnswer(p)
  <2> DEFINE c == MarkAmbiguous(Last(m))
  <2>1. PICK then \in {"loading", "idle"} : Save(p, m, c, Nothing, then)
    BY <1>7 DEF NoAnswer
  <2>2. UNCHANGED <<current, files, job, posts>>
    BY <1>7 DEF NoAnswer, storeVars, serverVars
  <2>3. c \in Contents /\ Backed(c, job) /\ (Last(m).outcome # "not_attempted" => c.outcome # "not_attempted")
    BY <1>2, <1>4, SubmitChanges, Zenon
  <2>4. then \in {"idle", "loading", "posting", "applying"} /\ then \notin {"applying", "posting"}
    BY <2>1
  <2> HIDE DEF c, m
  <2>5. Is(caller'[p], "saving", m, Append(m, c), Nothing, then)
    BY <1>2, <1>4, <2>1, <2>2, <2>3, <2>4, SeenSoFar, SavesSound
  <2>6. QED
    BY <1>1, <1>2, <2>3, <2>4, <2>5, SavesHolds
<1>8. QED
  BY <1>5, <1>6, <1>7 DEF Answer

(* A caller that works on a manifest with nothing to save yet.             *)
LEMMA WorksHolds ==
  ASSUME NEW p, Holds(p), UNCHANGED <<current, files, posts>>,
         NEW m, NEW next, NEW seen, NEW then, NEW pc \in {"queue", "history", "applying"},
         Is(caller'[p], pc, m, next, seen, then),
         current # Damaged => current = m,
         posts = 1 => Attempted(m) /\ Attempted(next)
  PROVE  Holds(p)'
<1> DEFINE r == caller'[p]
<1>1. Is(r, pc, m, next, seen, then)
  OBVIOUS
<1> HIDE DEF r
<1>2. InHand(r, current)
  BY <1>1 DEF Is, InHand, Working
<1>3. PostedOnce(r, current, files, posts)
  BY <1>1 DEF Is, PostedOnce, Holds
<1>4. QED
  BY <1>2, <1>3 DEF Holds, r

LEMMA LoadHolds ==
  ASSUME Sound, NEW p \in Callers, Holds(p), Load(p)
  PROVE  Holds(p)'
<1>1. UNCHANGED <<current, files, posts>>
  BY DEF Load, storeVars, serverVars
<1>2. CASE caller'[p] = Idle
  BY <1>1, <1>2, NotWorking
<1>3. CASE /\ Readable /\ ~Terminal(current)
           /\ Is(caller'[p], "queue", current, Damaged, Nothing, "idle")
  <2>1. posts = 1 => Attempted(current) /\ Attempted(Damaged)
    BY DEF Holds, PostedOnce, Attempted
  <2>2. QED
    BY <1>1, <1>3, <2>1, WorksHolds
<1>4. QED
  BY <1>2, <1>3, LoadSound

LEMMA ReadHolds ==
  ASSUME Sound, NEW p \in Callers, Holds(p), ReadQueue(p) \/ ReadHistory(p)
  PROVE  Holds(p)'
<1>1. caller[p].pc \in {"queue", "history"} /\ UNCHANGED <<current, files, posts>>
  BY DEF ReadQueue, ReadHistory, At, storeVars, serverVars
<1>2. current # Damaged => current = caller[p].mine
  BY <1>1, WorkHolds DEF Working
<1>3. posts = 1 => Attempted(caller[p].mine) /\ Attempted(caller[p].next)
  BY DEF Holds, PostedOnce
<1>4. \/ caller'[p] = Idle
      \/ \E pc \in {"history", "applying"}, seen \in Seen :
           Is(caller'[p], pc, caller[p].mine, caller[p].next, seen, caller[p].then)
  BY ReadQueueSound, ReadHistorySound
<1>5. CASE caller'[p] = Idle
  BY <1>1, <1>5, NotWorking
<1>6. ASSUME NEW pc \in {"history", "applying"}, NEW seen \in Seen,
             Is(caller'[p], pc, caller[p].mine, caller[p].next, seen, caller[p].then)
      PROVE  Holds(p)'
  BY <1>1, <1>2, <1>3, <1>6, WorksHolds
<1>7. QED
  BY <1>4, <1>5, <1>6

LEMMA ObserveHolds ==
  ASSUME Sound, NEW p \in Callers, Holds(p), Observe(p)
  PROVE  Holds(p)'
<1>1. UNCHANGED <<current, files, posts>>
  BY DEF Observe, storeVars, serverVars
<1>2. PICK seen \in Seen : Is(caller'[p], "applying", current, Damaged, seen, "idle")
  BY ObserveSound
<1>3. posts = 1 => Attempted(current) /\ Attempted(Damaged)
  BY DEF Holds, PostedOnce, Attempted
<1>4. QED
  BY <1>1, <1>2, <1>3, WorksHolds

LEMMA ApplyHolds ==
  ASSUME Sound, NEW p \in Callers, Holds(p), Apply(p)
  PROVE  Holds(p)'
<1> DEFINE m == caller[p].mine
           c == Last(m)
           seen == caller[p].seen
           d == Changes(c, seen)[Min(Due(c, seen))]
<1>1. /\ caller[p].pc = "applying" /\ UNCHANGED <<current, files, posts>>
      /\ SoundCaller(caller[p], files, job) /\ SoundJob(job)
  BY DEF Apply, At, storeVars, serverVars, Sound
<1>2. CASE caller'[p] = Idle
  BY <1>1, <1>2, NotWorking
<1>3. CASE /\ Due(c, seen) # {} /\ d \in Contents
           /\ c.outcome # "not_attempted" => d.outcome # "not_attempted"
           /\ Is(caller'[p], "saving", m, Append(m, d), seen, "applying")
  <2>1. /\ m \in Manifests /\ m # Damaged /\ c \in Contents
        /\ current # Damaged => current = m
        /\ posts = 1 => c.outcome # "not_attempted"
    BY <1>1, WorkHolds DEF Working
  <2> HIDE DEF d, seen, m
  <2>2. QED
    BY <1>1, <1>3, <2>1, SavesHolds
<1>4. QED
  BY <1>2, <1>3, ApplySound

LEMMA HoldsStep ==
  ASSUME Sound, NEW p, Callers = {p}, Holds(p), [Next]_vars
  PROVE  Holds(p)'
<1>1. CASE UNCHANGED vars
  BY <1>1 DEF vars, Holds
<1>2. CASE Server
  <2>1. UNCHANGED <<current, files, caller, posts>>
    BY <1>2 DEF Server, Arrive, Lose, Start, Finish, storeVars
  <2>2. QED
    BY <2>1 DEF Holds
<1>3. CASE Damage
  <2>1. UNCHANGED <<files, caller, posts>> /\ current' = Damaged
    BY <1>3 DEF Damage, serverVars
  <2>2. Attempted(Damaged)
    BY DEF Attempted
  <2>3. QED
    BY <2>1, <2>2 DEF Holds, InHand, PostedOnce
<1>4. CASE \/ Submit(p) \/ Poll(p) \/ Observe(p) \/ Recover(p)
           \/ Proceed(p) \/ ReadQueue(p) \/ ReadHistory(p) \/ Unavailable(p) \/ Crash(p)
  <2>1. p \in Callers
    OBVIOUS
  <2>2. CASE Submit(p)
    BY <2>1, <2>2, SubmitHolds
  <2>3. CASE Poll(p)
    <3>1. Goto(p, "loading") /\ UNCHANGED <<current, files, posts>>
      BY <2>3 DEF Poll, storeVars, serverVars
    <3>2. QED
      BY <2>1, <3>1, GoesHolds
  <2>4. CASE Observe(p)
    BY <2>1, <2>4, ObserveHolds
  <2>5. CASE Recover(p)
    BY <2>1, <2>5, RecoverHolds
  <2>6. CASE Store(p)
    BY <2>1, <2>6, WriteRevisionHolds, WriteNothingHolds, ReplaceCurrentHolds DEF Store
  <2>7. CASE Post(p)
    BY <2>1, <2>7, PostHolds
  <2>8. CASE Answer(p)
    BY <2>1, <2>8, AnswerHolds
  <2>9. CASE Load(p)
    BY <2>1, <2>9, LoadHolds
  <2>10. CASE Apply(p)
    BY <2>1, <2>10, ApplyHolds
  <2>11. CASE ReadQueue(p) \/ ReadHistory(p)
    BY <2>1, <2>11, ReadHolds
  <2>12. CASE Unavailable(p)
    <3>1. Goto(p, "idle") /\ UNCHANGED <<current, files, posts>>
      BY <2>12 DEF Unavailable, storeVars, serverVars
    <3>2. QED
      BY <2>1, <3>1, GoesHolds
  <2>13. CASE Crash(p)
    <3>1. Goto(p, "idle") /\ UNCHANGED <<current, files, posts>>
      BY <2>13 DEF Crash, serverVars
    <3>2. QED
      BY <2>1, <3>1, GoesHolds
  <2>14. QED
    BY <1>4, <2>2, <2>3, <2>4, <2>5, <2>6, <2>7, <2>8, <2>9, <2>10, <2>11, <2>12, <2>13
       DEF Proceed
<1>5. QED
  BY <1>1, <1>2, <1>3, <1>4 DEF Next

-----------------------------------------------------------------------------
(* The inductive invariant, and what follows for one caller. *)

LEMMA Inductive == Spec => []IInv
<1>1. Init => IInv
  <2> SUFFICES ASSUME Init PROVE IInv
    OBVIOUS
  <2>1. Sound
    BY InitSound
  <2>2. ASSUME NEW p \in Callers
        PROVE  InHand(caller[p], current) /\ PostedOnce(caller[p], current, files, posts)
    <3>1. caller[p].pc = "idle" /\ posts = 0
      BY IdleIs DEF Init, Is
    <3>2. QED
      BY <3>1 DEF InHand, PostedOnce, Working
  <2>3. QED
    BY <2>1, <2>2 DEF IInv, Alone
<1>2. IInv /\ [Next]_vars => IInv'
  <2> SUFFICES ASSUME IInv, [Next]_vars PROVE IInv'
    OBVIOUS
  <2>1. Sound /\ Sound'
    BY SoundStep DEF IInv
  <2>2. CASE OneCaller
    <3>1. PICK p : Callers = {p}
      BY <2>2 DEF OneCaller
    <3>2. Holds(p)
      BY <2>2, <3>1 DEF IInv, Alone, Holds
    <3>3. Holds(p)'
      BY <2>1, <3>1, <3>2, HoldsStep
    <3>4. QED
      BY <2>1, <3>1, <3>3 DEF IInv, Alone, Holds
  <2>3. CASE ~OneCaller
    BY <2>1, <2>3 DEF IInv, Alone, OneCaller
  <2>4. QED
    BY <2>2, <2>3
<1>3. QED
  BY <1>1, <1>2, PTL DEF Spec

(* With one caller the prompt is posted once, whatever crashes, is lost or *)
(* is called again: the attempt is on the disk before the POST leaves, and *)
(* every manifest a recovery can bring back still has it.                  *)
THEOREM PostedAtMostOnce ==
  ASSUME OneCaller
  PROVE  Spec => []AtMostOnePost
<1>1. IInv => AtMostOnePost
  BY DEF OneCaller, IInv, Alone, PostedOnce, AtMostOnePost
<1>2. QED
  BY <1>1, Inductive, PTL
=============================================================================
