----------------------------- MODULE MCLiveOps ------------------------------
(***************************************************************************)
(* A small instance of LiveOps: two threads, two activations of one        *)
(* campaign.                                                               *)
(***************************************************************************)
EXTENDS LiveOps

=============================================================================
