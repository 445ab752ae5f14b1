----------------------------- MODULE MCPrograms -----------------------------
(* The algorithms of the library and of kalloc, and the command line tools,*)
(* each on its own inputs: a behaviour is one of one of them.              *)
EXTENDS Rounding, Int64, Klib, Crepl, Pstree, Sperf

\* Every small request of kalloc, and the neighbours of every power of two.
Edges == (0 .. 200) \cup {2^k + e : k \in 7 .. 24, e \in -2 .. 2}

\* Every conversion, followed by a plain one.
Plain == [zero : {FALSE}, plus : {FALSE}, width : {0, 4}, conv : {"d", "u", "p", "x", "b"}]
Flagged == [zero : BOOLEAN, plus : BOOLEAN, width : {0, 4, 10}, conv : {"d", "u", "p", "x", "b"}]
Letters == [zero : {FALSE}, plus : {FALSE}, width : {0}, conv : {"c", "s"}]
Conversions == (Flagged \cup Letters) \X (Plain \cup Letters)

\* Process 1 with two children, each of which has a child of its own.
Family == <<0, 1, 2, 1, 4>>

CONSTANTS call1, call2, call3, call4

VARIABLE part
library == <<roundvars, int64vars, klibvars>>
tools == <<creplvars, pstreevars, sperfvars>>
vars == <<part, library, tools>>

Init ==
  /\ part \in {"rounding", "int64", "klib", "crepl", "pstree", "sperf"}
  /\ RoundInit /\ Int64Init /\ KlibInit /\ CreplInit /\ PstreeInit /\ SperfInit

LibraryNext ==
  \/ part = "rounding" /\ RoundNext /\ UNCHANGED <<int64vars, klibvars>>
  \/ part = "int64" /\ Int64Next /\ UNCHANGED <<roundvars, klibvars>>
  \/ part = "klib" /\ KlibNext /\ UNCHANGED <<roundvars, int64vars>>

ToolNext ==
  \/ part = "crepl" /\ CreplNext /\ UNCHANGED <<pstreevars, sperfvars>>
  \/ part = "pstree" /\ PstreeNext /\ UNCHANGED <<creplvars, sperfvars>>
  \/ part = "sperf" /\ SperfNext /\ UNCHANGED <<creplvars, pstreevars>>

Next ==
  /\ UNCHANGED part
  /\ (LibraryNext /\ UNCHANGED tools) \/ (ToolNext /\ UNCHANGED library)

Spec == Init /\ [][Next]_vars
=============================================================================
