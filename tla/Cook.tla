-------------------------------- MODULE Cook --------------------------------
(***************************************************************************)
(* The input half of a tty, src/kernel/src/dev/dev_tty.c: the daemon's     *)
(* tty_cook puts the keys of a line into a ring of TTY_COOK_BUF_SZ bytes   *)
(* with a '\0' after each newline, and tty_read takes one line out.        *)
(*                                                                         *)
(* Both work on the ring under tty->lock, so each is one step; tty_read    *)
(* waits for the semaphore cooked before it.  kmt's semaphores are         *)
(* external.  Memory fresh from the boot heap is zero.                     *)
(***************************************************************************)
EXTENDS Integers, SequencesExt

CONSTANTS
  Reader,   \* the tasks that call tty_read
  SZ,       \* TTY_COOK_BUF_SZ
  Char,     \* characters other than newline, backspace and '\0'
  Counts,   \* the lengths readers ask for
  NULL

Zero == "0"
Byte == Char \cup {"LF", Zero}
Pos  == 0 .. SZ - 1

ASSUME CookAssumption ==
  /\ SZ \in Nat /\ SZ >= 2
  /\ {"LF", "BS", Zero} \cap Char = {}
  /\ Counts \subseteq Nat /\ NULL \notin Counts

VARIABLES
  q,        \* the ring: buf, front, rear
  cooked,   \* semaphore: lines in the ring
  reader,   \* per reader, whether it is past sem_wait(cooked), and its count
  got,      \* per reader, what its last tty_read returned
  panic     \* "tty queue full"

vars == <<q, cooked, reader, got, panic>>

Init ==
  /\ q = [buf |-> [i \in Pos |-> Zero], front |-> 0, rear |-> 0]
  /\ cooked = 0
  /\ reader = [r \in Reader |-> NULL]
  /\ got = [r \in Reader |-> NULL]
  /\ panic = FALSE

----------------------------------------------------------------------------
(* tty_cook.  Definitions named *_Bug are slips this code invites; each is  *)
(* put in the place of the definition after it to see a property notice.   *)

(* rear++ or front++, back to buf at end. *)
After(i) == (i + 1) % SZ

Full(x) == After(x.rear) = x.front

(* A ring that is not Full takes ch, and a '\0' that the next byte         *)
(* overwrites.                                                             *)
tty_enqueue(x, ch) ==
  [x EXCEPT !.buf[x.rear] = ch, !.buf[After(x.rear)] = Zero, !.rear = After(@)]

BeforeRear(x) == (x.rear - 1) % SZ

(* The '\0' after a line that was finished, or read, stops a backspace:    *)
(* front # end, the code's other test, always holds.                       *)
CanErase(x) == x.buf[BeforeRear(x)] # Zero

tty_pop_back(x) == [x EXCEPT !.buf[BeforeRear(x)] = Zero, !.rear = BeforeRear(x)]

(* Where the panic comes before the queue is used again, the queue does    *)
(* not matter any more.                                                    *)
Overflow ==
  /\ panic' = TRUE
  /\ UNCHANGED <<q, cooked, reader, got>>

cook_char(ch) ==
  \/ Full(q) /\ Overflow
  \/ /\ ~Full(q)
     /\ q' = tty_enqueue(q, ch)
     /\ UNCHANGED <<cooked, reader, got, panic>>

Signalled_Bug == cooked
Signalled == cooked + 1

cook_newline ==
  LET x == tty_enqueue(q, "LF") IN
  \/ (Full(q) \/ Full(x)) /\ Overflow
  \/ /\ ~Full(q) /\ ~Full(x)
     /\ q' = tty_enqueue(x, Zero)
     /\ cooked' = Signalled
     /\ UNCHANGED <<reader, got, panic>>

(* Returns 1, and the daemon echoes nothing, if nothing can be erased. *)
cook_backspace ==
  /\ CanErase(q)
  /\ q' = tty_pop_back(q)
  /\ UNCHANGED <<cooked, reader, got, panic>>

----------------------------------------------------------------------------
(* tty_read *)

tty_read_wait(r, count) ==
  /\ reader[r] = NULL
  /\ cooked > 0
  /\ cooked' = cooked - 1
  /\ reader' = [reader EXCEPT ![r] = count]
  /\ UNCHANGED <<q, got, panic>>

At(i) == q.buf[(q.front + i) % SZ]

(* Bytes before the first '\0'. *)
LineLen == Min({i \in Pos : At(i) = Zero})

Copied_Bug(count) == LineLen
Copied(count) == Min({count, LineLen})

(* The loop copies up to count bytes and passes over the '\0'. *)
tty_read(r) ==
  /\ reader[r] # NULL
  /\ got' = [got EXCEPT ![r] = [i \in 1 .. Copied(reader[r]) |-> At(i - 1)]]
  /\ q' = [q EXCEPT !.front = (@ + LineLen + 1) % SZ]
  /\ reader' = [reader EXCEPT ![r] = NULL]
  /\ UNCHANGED <<cooked, panic>>

----------------------------------------------------------------------------
Next ==
  /\ ~panic
  /\ \/ \E ch \in Char : cook_char(ch)
     \/ cook_newline
     \/ cook_backspace
     \/ \E r \in Reader :
          \/ \E count \in Counts : tty_read_wait(r, count)
          \/ tty_read(r)

Spec == Init /\ [][Next]_vars

(* Readers get their turn; nobody has to type. *)
FairSpec ==
  Spec /\ \A r \in Reader :
            WF_vars(~panic /\ (tty_read(r) \/ \E n \in Counts : tty_read_wait(r, n)))

----------------------------------------------------------------------------
(* Properties *)

(* The bytes from front to rear, and where lines end among them. *)
Bytes == [i \in 1 .. (q.rear - q.front) % SZ |-> At(i - 1)]
Ends  == {i \in DOMAIN Bytes : Bytes[i] = Zero}
End(k) == IF k = 0 THEN 0
          ELSE CHOOSE i \in Ends : Cardinality({j \in Ends : j <= i}) = k

(***************************************************************************)
(* The ring implements the queue of lines: lines are what lies between the *)
(* '\0's, the draft what comes after the last one.                         *)
(***************************************************************************)
Finished == [k \in 1 .. Cardinality(Ends) |-> SubSeq(Bytes, End(k - 1) + 1, End(k) - 1)]
Draft    == SubSeq(Bytes, End(Cardinality(Ends)) + 1, Len(Bytes))

Promise == INSTANCE TtyLines WITH finished <- Finished, draft <- Draft

(* Every tty_cook and tty_read is a step TtyLines allows, or changes       *)
(* nothing there: a backspace never reaches a finished line, also not when *)
(* the ring has wrapped or the line before was already read.               *)
Refines == Promise!Spec

(* Unless the ring overflows, a finished line does not stay while readers  *)
(* come back for more.                                                     *)
LinesRead ==
  \A i \in Pos : (q.front = i /\ Ends # {}) ~> (q.front # i \/ panic)
=============================================================================
