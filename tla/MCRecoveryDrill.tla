-------------------------- MODULE MCRecoveryDrill --------------------------
(* A small instance of RecoveryDrill: the constants are model values.      *)
EXTENDS RecoveryDrill
=============================================================================
