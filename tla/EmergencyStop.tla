--------------------------- MODULE EmergencyStop ---------------------------
(***************************************************************************)
(* What the process-wide emergency stop promises to the services that use  *)
(* it (src/kodepoia/core/kill_switch.py, class docstring), with no lock,    *)
(* no thread and no signal in sight: no work is admitted while the stop is *)
(* active, and only a reset with nothing admitted releases the stop.       *)
(***************************************************************************)
CONSTANT Procs

VARIABLES stopped,    \* the emergency stop is active
          admitted    \* processes admitted as protected work

vars == <<stopped, admitted>>

Init ==
    /\ stopped = FALSE
    /\ admitted = {}

Admit(p) ==
    /\ ~stopped
    /\ admitted' = admitted \cup {p}
    /\ UNCHANGED stopped

Leave(p) ==
    /\ admitted' = admitted \ {p}
    /\ UNCHANGED stopped

Stop ==
    /\ stopped' = TRUE
    /\ UNCHANGED admitted

Reset ==
    /\ admitted = {}
    /\ stopped' = FALSE
    /\ UNCHANGED admitted

Next ==
    \/ \E p \in Procs : Admit(p) \/ Leave(p)
    \/ Stop
    \/ Reset

Spec == Init /\ [][Next]_vars
=============================================================================
