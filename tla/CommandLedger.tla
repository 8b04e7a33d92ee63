--------------------------- MODULE CommandLedger ---------------------------
(***************************************************************************)
(* What the authoritative backend promises of the commands it applies      *)
(* (docs/roadmap/R14_6_DESIGN.md, "Idempotency and ordering" and           *)
(* "Concurrency"): they form one log, in which an idempotency key is used  *)
(* once, the commands of a session follow their sequence numbers without a *)
(* gap, and a command is applied to exactly the revision of its target     *)
(* that its sender expected.                                               *)
(***************************************************************************)
EXTENDS Naturals, Sequences, FiniteSets

CONSTANT Commands

VARIABLE log

SentBy(s) == {i \in 1..Len(log) : log[i].session = s}
WrittenTo(o) == {i \in 1..Len(log) : log[i].target = o}

Init == log = <<>>

Apply(c) ==
    /\ \A i \in 1..Len(log) : log[i].key # c.key
    /\ c.sequence = Cardinality(SentBy(c.session)) + 1
    /\ c.expected = Cardinality(WrittenTo(c.target))
    /\ log' = Append(log, c)

Next == \E c \in Commands : Apply(c)

Spec == Init /\ [][Next]_log
=============================================================================
