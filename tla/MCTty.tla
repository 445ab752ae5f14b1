------------------------------- MODULE MCTty --------------------------------
(* Instances of Tty for TLC. *)
EXTENDS Tty, TLC

CONSTANTS w1, w2
Alike == Permutations(Writer)

\* Either the daemon is alone and may switch, or the others write to tty 1 and it does
\* not: what both together do is left to the run that shows the race.
VARIABLE alone

MCInit == Init /\ alone \in BOOLEAN
MCNext ==
  /\ Next
  /\ UNCHANGED alone
  /\ IF alone THEN \A w \in Writer : pc'[w] = "idle" ELSE \A w \in Task : dev'[w] = 1
MCSpec == MCInit /\ [][MCNext]_<<vars, alone>>

(* The daemon alone, on any tty it switches to, leaves the display showing *)
(* exactly that tty: echo, scrolling, blinking and switching mark and draw *)
(* every cell they change (dev_tty_task, tty_write, tty_render).           *)
Displayed == alone => CellsShown
=============================================================================
