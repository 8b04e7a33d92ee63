---------------------------- MODULE MCKillSwitch ----------------------------
(* A small instance of KillSwitch: the constants are model values.         *)
EXTENDS KillSwitch
=============================================================================
