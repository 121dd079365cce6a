-------------------------- MODULE MCLiveOrderLoop --------------------------
(* The constants of LiveOrderLoop are numbers, given in the configurations. *)
EXTENDS LiveOrderLoop
=============================================================================
