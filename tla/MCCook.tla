------------------------------- MODULE MCCook -------------------------------
(* Instances of Cook for TLC. *)
EXTENDS Cook

CONSTANTS r1, r2
=============================================================================
