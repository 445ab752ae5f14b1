----------------------------- MODULE MCContexts -----------------------------
(* The address spaces and the traps of the two machines, each on its own   *)
(* instance: a behaviour is one of one of them.                            *)
EXTENDS X86Vme, NativeVme, X86Cte, NativeCte

CONSTANTS s1, s2, f1, f2, f3, f4, f5, f6, d1, c1, c2, k1, u1

VARIABLE part
spaces == <<x86vars, nativevars>>
traps == <<ctevars, ncvars>>
vars == <<part, spaces, traps>>

Init ==
  /\ part \in {"x86 vme", "native vme", "x86 cte", "native cte"}
  /\ X86Init /\ NativeInit /\ CteInit /\ NcInit

SpaceNext ==
  \/ part = "x86 vme" /\ X86Next /\ UNCHANGED nativevars
  \/ part = "native vme" /\ NativeNext /\ UNCHANGED x86vars

TrapNext ==
  \/ part = "x86 cte" /\ CteNext /\ UNCHANGED ncvars
  \/ part = "native cte" /\ NcNext /\ UNCHANGED ctevars

Next ==
  /\ UNCHANGED part
  /\ (SpaceNext /\ UNCHANGED traps) \/ (TrapNext /\ UNCHANGED spaces)

Spec == Init /\ [][Next]_vars
=============================================================================
