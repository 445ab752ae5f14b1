-------------------------------- MODULE Null --------------------------------
(* The null pointer, which the modules that share a run have in common. *)
CONSTANT NULL
=============================================================================
