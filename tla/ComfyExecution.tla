--------------------------- MODULE ComfyExecution ---------------------------
(***************************************************************************)
(* One logical ComfyUI run (src/src/kodepoia/comfyui/execution.py): the    *)
(* file store that keeps its manifest, the service that posts the prompt   *)
(* once and then believes only the server's queue and history, and the     *)
(* ComfyUI server as that service sees it.                                 *)
(*                                                                         *)
(* A manifest carries the digest of its predecessor, so it is modelled by  *)
(* the whole sequence of contents that leads to it: two manifests have the *)
(* same digest exactly when these sequences are equal, the revision number *)
(* is the length less one and the previous digest is the front.            *)
(*                                                                         *)
(* Abstracted: the digests, origins and bindings that submit, reconcile    *)
(* and observe compare (they are constant for a run and a mismatch raises  *)
(* before anything changes), the other prompts in the server's queue (they *)
(* only make its digest change more often), outputs beyond "all required   *)
(* ones are there", timing and the number of polls: wait and the bounded   *)
(* reconciliation are repeated calls of reconcile_once.  The history entry *)
(* of a prompt appears when it ends; what it says of the end may also be   *)
(* that it is running, or nothing that _history_state knows.               *)
(***************************************************************************)
EXTENDS Integers, Sequences, FiniteSets, SequencesExt

CONSTANTS Endings,      \* what the history may say of a running prompt that
                        \* ended: some of Verdicts, "incomplete" (a success
                        \* without the required outputs), "running", "unknown"
          Callers,      \* threads or processes that call the service
          MaxFaults,    \* crashes of a caller and losses of the current pointer
          MaxPosts      \* POSTs counted

ASSUME EndingsAreKnown ==
  Endings \subseteq {"succeeded", "failed", "cancelled", "incomplete", "running", "unknown"}
ASSUME CallersNotEmpty == Callers # {}
ASSUME BoundsAreNaturals == {MaxFaults, MaxPosts} \subseteq Nat

VARIABLES
  current,   \* <run>.json: a manifest, or Damaged
  files,     \* the complete files under .revisions/<run>
  torn,      \* revision files whose writer died before the bytes were there
  caller,    \* where each caller is and what it holds in its local variables
  job,       \* the prompt at the server
  posts,     \* POSTs of this prompt that were sent
  faults     \* crashes and damages so far

vars == <<current, files, torn, caller, job, posts, faults>>
storeVars == <<current, files, torn>>
serverVars == <<job, posts>>

-----------------------------------------------------------------------------
(* Manifests and run states. *)

Damaged == <<>>
Verdicts == {"succeeded", "failed", "cancelled"}

Prepared == [state |-> "prepared", outcome |-> "not_attempted",
             queue |-> "unread", history |-> FALSE, progress |-> 0, outputs |-> FALSE]

Terminal(m) == Last(m).state \in Verdicts

Readable == current # Damaged

(* revisions(): the files, in the order of their names, are one chain from *)
(* revision zero, and none of them is torn.                                *)
Newest == CHOOSE f \in files : \A g \in files : Len(g) <= Len(f)

Rebuildable ==
  /\ torn = {}
  /\ \A f \in files : IsPrefix(f, Newest)
  /\ Cardinality(files) = Len(Newest)

-----------------------------------------------------------------------------
(* The changes a manifest goes through; each returns the content unchanged *)
(* when there is nothing to change, and each change is a revision.         *)

MarkRecovered(c) ==
  IF c.outcome \in {"attempting", "ambiguous"} THEN [c EXCEPT !.outcome = "recovered"] ELSE c

\* Mutant: a prompt nobody has seen is taken for a recovered one.
MarkSeen(c) == IF c.outcome = "attempting" THEN [c EXCEPT !.outcome = "recovered"] ELSE c

MarkAmbiguous(c) ==
  IF c.outcome = "attempting" THEN [c EXCEPT !.outcome = "ambiguous"] ELSE c

Queued(c) == IF c.state = "prepared" THEN [c EXCEPT !.state = "queued"] ELSE c

Running(c) == IF c.state = "queued" THEN [c EXCEPT !.state = "running"] ELSE c

Delivered(c) == [c EXCEPT !.outputs = TRUE, !.progress = 1]

(* What reconcile_once does with a queue and a history it has read.        *)
Reconciled(c, seen) ==
  LET queue == [c EXCEPT !.queue = seen.queue]
      history == [c EXCEPT !.history = TRUE]
  IN
  CASE seen.verdict = "incomplete" \/ (seen.verdict = "unknown" /\ seen.queue = "none") ->
         <<queue, MarkRecovered(c), history>>
    [] seen.verdict = "running" \/ (seen.verdict = "unknown" /\ seen.queue = "running") ->
         <<queue, MarkRecovered(c), history, Queued(c), Running(c)>>
    [] seen.verdict = "unknown" /\ seen.queue = "pending" ->
         <<queue, MarkRecovered(c), history, Queued(c)>>
    [] seen.verdict = "succeeded" ->
         <<queue, MarkRecovered(c), history, Queued(c), Running(c),
           Delivered(c), [c EXCEPT !.state = "succeeded"]>>
    [] seen.verdict \in {"failed", "cancelled"} ->
         <<queue, MarkRecovered(c), history, [c EXCEPT !.state = seen.verdict]>>
    [] seen.verdict = "none" /\ seen.queue = "running" ->
         <<queue, MarkRecovered(c), Queued(c), Running(c)>>
    [] seen.verdict = "none" /\ seen.queue = "pending" ->
         <<queue, MarkRecovered(c), Queued(c)>>
    [] OTHER -> <<queue, MarkAmbiguous(c)>>

(* What observe_event does with an event of an executing prompt.           *)
Observed(c, seen) ==
  <<MarkRecovered(c), Queued(c), Running(c),
    [c EXCEPT !.progress = IF seen.fraction > @ THEN seen.fraction ELSE @]>>

Changes(c, seen) ==
  CASE seen.by = "poll" -> Reconciled(c, seen)
    [] seen.by = "event" -> Observed(c, seen)
    [] seen.by = "answer" -> <<Queued(c)>>

(* The places of the revisions still to be written; the first is next.     *)
Due(c, seen) == {i \in DOMAIN Changes(c, seen) : Changes(c, seen)[i] # c}

-----------------------------------------------------------------------------
(* A caller is idle, or in the middle of an operation: `mine` is the       *)
(* manifest it works on, `next` the one it is saving, `seen` what it has   *)
(* read from the server, `then` where it goes on after the save.           *)

Nothing == [by |-> "none"]
Idle == [pc |-> "idle", mine |-> Damaged, next |-> Damaged, seen |-> Nothing, then |-> "idle"]

At(p, pc) == caller[p].pc = pc

Goto(p, pc) ==
  caller' = [caller EXCEPT ![p] = IF pc = "idle" THEN Idle ELSE [@ EXCEPT !.pc = pc]]

(* _evolve: the next manifest, to be handed to store.save.                 *)
Save(p, m, content, seen, then) ==
  caller' = [caller EXCEPT ![p] = [pc |-> "saving", mine |-> m, next |-> Append(m, content),
                                   seen |-> seen, then |-> then]]

Saved(p) ==
  LET c == caller[p] IN
  caller' = [caller EXCEPT ![p] =
    IF c.then = "idle" THEN Idle
    ELSE [c EXCEPT !.pc = c.then, !.mine = c.next, !.next = Damaged]]

-----------------------------------------------------------------------------
(* ComfyRunStore.save, in the two steps a crash or another caller can come *)
(* between: the checks and the revision file, then the current pointer.    *)

Extends(m, n) == Len(n) = Len(m) + 1 /\ Front(n) = m

\* Mutant: a revision file that exists is refused, even with the same bytes.
MayCreate(p) ==
  Readable /\ Extends(current, caller[p].next) /\ caller[p].next \notin torn \cup files

MayWrite(p) == Readable /\ Extends(current, caller[p].next) /\ caller[p].next \notin torn

WriteRevision(p) ==
  /\ At(p, "saving")
  /\ MayWrite(p)
  /\ files' = files \cup {caller[p].next}
  /\ Goto(p, "replacing")
  /\ UNCHANGED <<current, torn, serverVars, faults>>

(* Nothing is written: save returns when the current manifest is this one  *)
(* already, and raises when it is unreadable, not the predecessor, or the  *)
(* revision's name holds other bytes.                                      *)
WriteNothing(p) ==
  /\ At(p, "saving")
  /\ ~MayWrite(p)
  /\ IF Readable /\ current = caller[p].next THEN Saved(p) ELSE Goto(p, "idle")
  /\ UNCHANGED <<storeVars, serverVars, faults>>

ReplaceCurrent(p) ==
  /\ At(p, "replacing")
  /\ current' = caller[p].next
  /\ Saved(p)
  /\ UNCHANGED <<files, torn, serverVars, faults>>

(* ComfyRunStore.recover: current becomes the newest revision, whatever it *)
(* was.                                                                    *)
Recover(p) ==
  /\ At(p, "idle")
  /\ Rebuildable
  /\ caller' = [caller EXCEPT ![p] = [Idle EXCEPT !.pc = "replacing", !.next = Newest]]
  /\ UNCHANGED <<storeVars, serverVars, faults>>

-----------------------------------------------------------------------------
(* ComfyExecutionService.submit. *)

MaySubmit(p) == At(p, "idle") /\ Readable /\ Last(current).state = "prepared"

(* cancel_event is set: looked at before the submission outcome is.        *)
SubmitCancelled(p) ==
  /\ MaySubmit(p)
  /\ Save(p, current, [Last(current) EXCEPT !.state = "cancelled"], Nothing, "idle")
  /\ UNCHANGED <<storeVars, serverVars, faults>>

\* Mutant: a run whose attempt has no outcome yet is tried once more.
SubmitUnanswered(p) ==
  /\ MaySubmit(p)
  /\ Last(current).outcome \in {"not_attempted", "attempting"}
  /\ Save(p, current, [Last(current) EXCEPT !.outcome = "attempting"], Nothing, "posting")
  /\ UNCHANGED <<storeVars, serverVars, faults>>

SubmitFirst(p) ==
  /\ MaySubmit(p)
  /\ Last(current).outcome = "not_attempted"
  /\ Save(p, current, [Last(current) EXCEPT !.outcome = "attempting"], Nothing, "posting")
  /\ UNCHANGED <<storeVars, serverVars, faults>>

SubmitAgain(p) ==
  /\ MaySubmit(p)
  /\ \/ /\ Last(current).outcome \in {"attempting", "ambiguous"}
        /\ Goto(p, "loading")
     \/ /\ Last(current).outcome \in {"accepted", "recovered"}
        /\ Save(p, current, Queued(Last(current)), Nothing, "idle")
  /\ UNCHANGED <<storeVars, serverVars, faults>>

(* The POST leaves; from here on its fate is the network's.                *)
Post(p) ==
  /\ At(p, "posting")
  /\ posts < MaxPosts
  /\ posts' = posts + 1
  /\ job' = [job EXCEPT !.flying = TRUE]
  /\ Goto(p, "posted")
  /\ UNCHANGED <<storeVars, faults>>

Accepted(p) ==
  /\ At(p, "posted")
  /\ ~job.flying /\ job.place # "none"
  /\ Save(p, caller[p].mine, [Last(caller[p].mine) EXCEPT !.outcome = "accepted"],
          [by |-> "answer"], "applying")
  /\ UNCHANGED <<storeVars, serverVars, faults>>

(* The server refuses the prompt, or accepts it with an answer that cannot *)
(* be used: the exception leaves submit.                                   *)
Rejected(p) ==
  /\ At(p, "posted")
  /\ \/ job.flying /\ job' = [job EXCEPT !.flying = FALSE]
     \/ ~job.flying /\ job.place # "none" /\ UNCHANGED job
  /\ Goto(p, "idle")
  /\ UNCHANGED <<storeVars, posts, faults>>

(* No answer in time: ambiguous, then the bounded reconciliation, which a  *)
(* cancellation or an unavailable server cuts to nothing.                  *)
NoAnswer(p) ==
  /\ At(p, "posted")
  /\ \E then \in {"loading", "idle"} :
       Save(p, caller[p].mine, MarkAmbiguous(Last(caller[p].mine)), Nothing, then)
  /\ UNCHANGED <<storeVars, serverVars, faults>>

-----------------------------------------------------------------------------
(* reconcile_once: load, queue, history, and then one revision a change.   *)

Poll(p) ==
  /\ At(p, "idle")
  /\ Goto(p, "loading")
  /\ UNCHANGED <<storeVars, serverVars, faults>>

\* Mutant: a terminal run is reconciled like any other.
LoadAny(p) ==
  /\ At(p, "loading")
  /\ IF Readable
       THEN caller' = [caller EXCEPT ![p] = [Idle EXCEPT !.pc = "queue", !.mine = current]]
       ELSE Goto(p, "idle")
  /\ UNCHANGED <<storeVars, serverVars, faults>>

Load(p) ==
  /\ At(p, "loading")
  /\ IF Readable /\ ~Terminal(current)
       THEN caller' = [caller EXCEPT ![p] = [Idle EXCEPT !.pc = "queue", !.mine = current]]
       ELSE Goto(p, "idle")
  /\ UNCHANGED <<storeVars, serverVars, faults>>

QueueNow == IF job.place \in {"pending", "running"} THEN job.place ELSE "none"

ReadQueue(p) ==
  /\ At(p, "queue")
  /\ caller' = [caller EXCEPT ![p] = [@ EXCEPT !.pc = "history",
                                              !.seen = [by |-> "poll", queue |-> QueueNow]]]
  /\ UNCHANGED <<storeVars, serverVars, faults>>

(* A final verdict on a prompt that the queue still had is a contradiction.*)
ReadHistory(p) ==
  /\ At(p, "history")
  /\ LET seen == [by |-> "poll", queue |-> caller[p].seen.queue, verdict |-> job.verdict]
     IN IF job.verdict \in Verdicts \cup {"incomplete"} /\ seen.queue # "none"
          THEN Goto(p, "idle")
          ELSE caller' = [caller EXCEPT ![p] = [@ EXCEPT !.pc = "applying", !.seen = seen]]
  /\ UNCHANGED <<storeVars, serverVars, faults>>

Unavailable(p) ==
  /\ caller[p].pc \in {"queue", "history"}
  /\ Goto(p, "idle")
  /\ UNCHANGED <<storeVars, serverVars, faults>>

Apply(p) ==
  /\ At(p, "applying")
  /\ LET c == Last(caller[p].mine)
         seen == caller[p].seen
     IN IF Due(c, seen) = {} THEN Goto(p, "idle")
        ELSE Save(p, caller[p].mine, Changes(c, seen)[Min(Due(c, seen))], seen, "applying")
  /\ UNCHANGED <<storeVars, serverVars, faults>>

(* observe_event with an event of the executing prompt, at the latest      *)
(* delivered after the prompt has ended.                                   *)
Observe(p) ==
  /\ At(p, "idle")
  /\ Readable /\ ~Terminal(current)
  /\ job.place \in {"running", "done"} /\ job.verdict # "cancelled"
  /\ \E f \in 0 .. 1 :
       caller' = [caller EXCEPT ![p] = [Idle EXCEPT !.pc = "applying", !.mine = current,
                                                    !.seen = [by |-> "event", fraction |-> f]]]
  /\ UNCHANGED <<storeVars, serverVars, faults>>

-----------------------------------------------------------------------------
(* The ComfyUI server and the network. *)

Arrive ==
  /\ job.flying
  /\ job' = [job EXCEPT !.flying = FALSE, !.place = IF @ = "none" THEN "pending" ELSE @]
  /\ UNCHANGED <<storeVars, caller, posts, faults>>

Lose ==
  /\ job.flying
  /\ job' = [job EXCEPT !.flying = FALSE]
  /\ UNCHANGED <<storeVars, caller, posts, faults>>

Start ==
  /\ job.place = "pending"
  /\ job' = [job EXCEPT !.place = "running"]
  /\ UNCHANGED <<storeVars, caller, posts, faults>>

Finish ==
  /\ \/ job.place = "running" /\ \E v \in Endings :
          job' = [job EXCEPT !.place = "done", !.verdict = v]
     \/ job.place = "pending" /\ job' = [job EXCEPT !.place = "done", !.verdict = "cancelled"]
  /\ UNCHANGED <<storeVars, caller, posts, faults>>

-----------------------------------------------------------------------------
(* Faults. *)

(* A caller dies; if it was writing a revision the file may be cut short.  *)
Crash(p) ==
  /\ ~At(p, "idle")
  /\ faults < MaxFaults
  /\ faults' = faults + 1
  /\ \/ UNCHANGED torn
     \/ /\ At(p, "saving") /\ MayWrite(p) /\ caller[p].next \notin files
        /\ torn' = torn \cup {caller[p].next}
  /\ Goto(p, "idle")
  /\ UNCHANGED <<current, files, serverVars>>

Damage ==
  /\ Readable
  /\ faults < MaxFaults
  /\ faults' = faults + 1
  /\ current' = Damaged
  /\ UNCHANGED <<files, torn, caller, serverVars>>

-----------------------------------------------------------------------------
(* Init is the run as prepare() leaves it. *)
Init ==
  /\ current = <<Prepared>>
  /\ files = {<<Prepared>>}
  /\ torn = {}
  /\ caller = [p \in Callers |-> Idle]
  /\ job = [flying |-> FALSE, place |-> "none", verdict |-> "none"]
  /\ posts = 0 /\ faults = 0

Store(p) == WriteRevision(p) \/ WriteNothing(p) \/ ReplaceCurrent(p)

Submit(p) == SubmitCancelled(p) \/ SubmitFirst(p) \/ SubmitAgain(p)

Answer(p) == Accepted(p) \/ Rejected(p) \/ NoAnswer(p)

Server == Arrive \/ Lose \/ Start \/ Finish

Proceed(p) == Store(p) \/ Post(p) \/ Answer(p) \/ Load(p) \/ Apply(p)

Next ==
  \/ \E p \in Callers :
       \/ Submit(p) \/ Poll(p) \/ Observe(p) \/ Recover(p)
       \/ Proceed(p) \/ ReadQueue(p) \/ ReadHistory(p) \/ Unavailable(p) \/ Crash(p)
  \/ Server
  \/ Damage

(* A call that was begun goes on. Nothing makes anybody begin one, nothing *)
(* makes the server answer a read, and nobody has to call recover.         *)
Fairness == \A p \in Callers : WF_vars(Proceed(p))

Spec == Init /\ [][Next]_vars

FairSpec == Spec /\ Fairness

-----------------------------------------------------------------------------
(* Properties. *)

(* The POST of a run is sent once, whatever crashes, is lost or is called  *)
(* again: ATTEMPTING is durable before it leaves.                          *)
AtMostOnePost == posts <= 1

(* The manifest never runs ahead of the server: it says queued only of a   *)
(* prompt that arrived, running only of one that started, succeeded or     *)
(* failed only after that verdict, recovered only of a prompt the server   *)
(* has. Neither a lost answer nor an old queue reading may tell it more.   *)
NeverAheadOfTheServer ==
  Readable =>
    LET c == Last(current) IN
    /\ c.state = "queued" \/ c.outcome \in {"accepted", "recovered"} => job.place # "none"
    /\ c.state = "running" => job.place \in {"running", "done"}
    /\ c.state \in {"succeeded", "failed"} => c.state = job.verdict

(* The run ends once: no revision was written after one that is terminal,  *)
(* by whatever callers poll, listen, submit and recover side by side. The  *)
(* state is looked at long before a revision is written, and a poll writes *)
(* several of them.                                                        *)
NothingFollowsAVerdict ==
  \A f \in files : \A i \in 1 .. Len(f) - 1 : f[i].state \notin Verdicts

(* The verdict of the server, once it is the current manifest's, is not    *)
(* taken back by another caller (R9_1_DESIGN.md:29: "terminal states       *)
(* cannot return to active states"): save checks the current manifest and  *)
(* replaces it afterwards.                                                 *)
VerdictIsFinal ==
  [][Readable /\ Last(current).state \in {"succeeded", "failed"} /\ current' # Damaged
       => Last(current').state = Last(current).state]_vars

(* A poll that has read a final verdict brings it into the manifest, also  *)
(* when an earlier poll was cut off between a revision file and the        *)
(* current pointer, unless it is itself cut off, the pointer is lost, or a *)
(* torn revision file stands in the way.                                   *)
VerdictIsRecorded ==
  \A p \in Callers : \A n \in 0 .. MaxFaults :
    /\ At(p, "applying") /\ caller[p].seen.by = "poll" /\ caller[p].seen.verdict \in Verdicts
    /\ Readable /\ faults = n
    ~> (Readable /\ Terminal(current)) \/ faults > n \/ torn # {}
=============================================================================
