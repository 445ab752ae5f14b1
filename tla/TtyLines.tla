------------------------------ MODULE TtyLines ------------------------------
(***************************************************************************)
(* What the input half of a tty promises: a first-in, first-out queue of   *)
(* finished lines and one draft.  A backspace erases from the draft only;  *)
(* a read gives the oldest line to one reader, cut to the length asked     *)
(* for, and the rest of that line to nobody.                               *)
(***************************************************************************)
EXTENDS Integers, SequencesExt

CONSTANTS Reader, Char, Counts, NULL

VARIABLES
  finished,  \* the lines no reader has had, oldest first
  draft,     \* the line being typed
  got        \* per reader, the line of its last read

specVars == <<finished, draft, got>>

Init ==
  /\ finished = <<>>
  /\ draft = <<>>
  /\ got = [r \in Reader |-> NULL]

Type(ch) ==
  /\ draft' = Append(draft, ch)
  /\ UNCHANGED <<finished, got>>

Erase ==
  /\ draft # <<>>
  /\ draft' = Front(draft)
  /\ UNCHANGED <<finished, got>>

Enter ==
  /\ finished' = Append(finished, Append(draft, "LF"))
  /\ draft' = <<>>
  /\ UNCHANGED got

Read(r, n) ==
  /\ finished # <<>>
  /\ got' = [got EXCEPT ![r] = SubSeq(Head(finished), 1, Min({n, Len(Head(finished))}))]
  /\ finished' = Tail(finished)
  /\ UNCHANGED draft

Next ==
  \/ \E ch \in Char : Type(ch)
  \/ Erase
  \/ Enter
  \/ \E r \in Reader, n \in Counts : Read(r, n)

Spec == Init /\ [][Next]_specVars
=============================================================================
