------------------------------ MODULE MCInput -------------------------------
(* Instances of Input for TLC. *)
EXTENDS Input

CONSTANTS r1, r2
=============================================================================
