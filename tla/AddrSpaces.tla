----------------------------- MODULE AddrSpaces -----------------------------
(***************************************************************************)
(* What the AM interface promises of address spaces: each is a set of      *)
(* pages, virtual address to physical page, that only map changes.         *)
(***************************************************************************)
EXTENDS Integers

CONSTANTS Spaces, Va, Pa, NULL

VARIABLE space   \* per space, a function from its mapped addresses; NULL without one

Init == space = [s \in Spaces |-> NULL]

NoPages == [v \in {} |-> NULL]

(* What may happen to one space: it is made, it is given up, a page is     *)
(* mapped that was not, or one is unmapped that was.                       *)
Protect(old, new)   == old = NULL /\ new = NoPages
Unprotect(old, new) == old # NULL /\ new = NULL
Map(old, new) ==
  /\ old # NULL /\ new # NULL
  /\ \E v \in Va \ DOMAIN old, p \in Pa, w \in BOOLEAN :
       new = [u \in DOMAIN old \cup {v} |-> IF u = v THEN [to |-> p, write |-> w] ELSE old[u]]
Unmap(old, new) ==
  /\ old # NULL /\ new # NULL
  /\ \E v \in DOMAIN old : new = [u \in DOMAIN old \ {v} |-> old[u]]

Change(old, new) ==
  Protect(old, new) \/ Unprotect(old, new) \/ Map(old, new) \/ Unmap(old, new)

Next ==
  \E s \in Spaces :
    /\ Change(space[s], space'[s])
    /\ \A t \in Spaces \ {s} : space'[t] = space[t]

Spec == Init /\ [][Next]_space
=============================================================================
