---------------------------- MODULE AtomicChange ----------------------------
(***************************************************************************)
(* What src/kodepoia/core/fault_recovery.py promises of the files of a     *)
(* project: at most one of them has a change pending; the file may then    *)
(* hold anything, and the change ends with the file as it was or as it was *)
(* meant to be, never with something else taken for good.                  *)
(***************************************************************************)
CONSTANTS Files, Values, None

VARIABLES
    value,     \* the contents of each file
    pending    \* the change in progress, or None

Changes == [file : Files, old : Values, new : Values]

Init == value \in [Files -> Values] /\ pending = None

Begin(c) ==
    /\ pending = None
    /\ c.old = value[c.file]
    /\ pending' = c
    /\ UNCHANGED value

Write(v) ==
    /\ pending # None
    /\ value' = [value EXCEPT ![pending.file] = v]
    /\ UNCHANGED pending

Settle ==
    /\ pending # None
    /\ value[pending.file] \in {pending.old, pending.new}
    /\ pending' = None
    /\ UNCHANGED value

Next ==
    \/ \E c \in Changes : Begin(c)
    \/ \E v \in Values : Write(v)
    \/ Settle

Spec == Init /\ [][Next]_<<value, pending>>
=============================================================================
