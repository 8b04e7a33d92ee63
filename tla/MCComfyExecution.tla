-------------------------- MODULE MCComfyExecution --------------------------
(***************************************************************************)
(* Small instances of ComfyExecution: one caller with faults, and two      *)
(* callers of one store, such as KodeStudio's panel and the CLI's          *)
(* run-status (comfyui/service_cli.py:84-87), neither of which recovers.   *)
(***************************************************************************)
EXTENDS ComfyExecution

SpecWithoutRecover == Init /\ [][Next /\ \A p \in Callers : ~Recover(p)]_vars

=============================================================================
