----------------------------- MODULE MCMachines -----------------------------
(* Processors and devices, each on its own instance: a behaviour is one of *)
(* one of them.                                                            *)
EXTENDS X86Boot, Sd, NativeIoe

\* Two blocks and a half.
Bytes == [i \in 1 .. 5 |-> <<"old", 0, i>>]

VARIABLE part
vars == <<part, bootvars, sdvars, ioevars>>

Init ==
  /\ part \in {"boot", "disk", "keys", "audio"}
  /\ BootInit /\ SdInit /\ IoeInit

Next ==
  /\ UNCHANGED part
  /\ \/ part = "boot" /\ BootNext /\ UNCHANGED <<sdvars, ioevars>>
     \/ part = "disk" /\ SdNext /\ UNCHANGED <<bootvars, ioevars>>
     \/ part = "keys" /\ KeyNext /\ UNCHANGED <<bootvars, sdvars>>
     \/ part = "audio" /\ AudioNext /\ UNCHANGED <<bootvars, sdvars>>

\* A processor that can go on does; nothing makes it call halt.
Fairness == \A c \in Processor : WF_bootvars(part = "boot" /\ power = "on" /\ BootStep(c))

Spec == Init /\ [][Next]_vars /\ Fairness
=============================================================================
