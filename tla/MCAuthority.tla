---------------------------- MODULE MCAuthority ----------------------------
(***************************************************************************)
(* Commands of two sessions on two objects.  a1 and b1 compete for the     *)
(* first revision of x, b2 is what b sends when it lost, a2 follows b2,    *)
(* a3 re-uses the key of a1, and c1 is one the processor refuses.  The     *)
(* event of b2 fills the buffer alone.                                     *)
(***************************************************************************)
EXTENDS RealtimeBuffer

CONSTANTS a, b, x, y, k1, k2, k3, k4, k5, t1, t2, s1, s2

Cmd(session, sequence, target, expected, key) ==
    [session |-> session, sequence |-> sequence, target |-> target,
     expected |-> expected, key |-> key]

a1 == Cmd(a, 1, x, 0, k1)
a2 == Cmd(a, 2, x, 2, k2)
a3 == Cmd(a, 2, y, 0, k1)
b1 == Cmd(b, 1, x, 0, k3)
b2 == Cmd(b, 1, x, 1, k4)
c1 == Cmd(b, 2, y, 0, k5)

AllCommands == {a1, a2, a3, b1, b2, c1}
Refused == {c1}
Sizes == [c \in Commands |-> IF c = b2 THEN 2 ELSE 1]

Symmetry == Permutations(Threads) \cup Permutations(Subscribers)
=============================================================================
