------------------------------ MODULE MCLibco -------------------------------
(* Instances of Libco for TLC. *)
EXTENDS Libco

CONSTANTS c1, c2, c3
=============================================================================
