------------------------------- MODULE Input --------------------------------
(***************************************************************************)
(* The keyboard device, src/kernel/src/dev/dev_input.c: the interrupt      *)
(* handler input_notify, the daemon dev_input_task that turns key codes    *)
(* into events, and the readers (the tty daemon) that take them out of a   *)
(* ring of NEVENTS slots.                                                  *)
(*                                                                         *)
(* kmt's spin locks and semaphores and the keyboard behind AM_INPUT_KEYBRD *)
(* are external: a semaphore is a counter, the keyboard a queue of codes.  *)
(* The keyboard sends no code twice for a key that is held down.           *)
(***************************************************************************)
EXTENDS Integers, FiniteSets, SequencesExt

CONSTANTS
  Reader,    \* the tasks that call input_read
  Keys,      \* the keys that are used
  NEVENTS,   \* slots of the ring
  KeysAhead, \* bound on the codes the keyboard has not delivered
  IrqsAhead, \* bound on sem_kbdirq
  NULL

(* Keys stand for what input_keydown tells apart: a letter, another        *)
(* character, a key without one, and modifiers, both shifts among them.    *)
Letter    == "a"
Sign      == "1"
Mute      == "F1"
Modifier  == {"CAPSLOCK", "LCTRL", "RALT", "LSHIFT", "RSHIFT"}
Key       == {Letter, Sign, Mute} \cup Modifier
HasChar   == {Letter, Sign}

ASSUME InputAssumption ==
  /\ Keys \subseteq Key
  /\ NEVENTS \in Nat /\ NEVENTS >= 2
  /\ KeysAhead \in Nat /\ IrqsAhead \in Nat
  /\ IsFiniteSet(Reader) /\ "task" \notin Reader
  /\ NULL \notin Reader \cup HasChar \cup {"task", "input queue full"}

VARIABLES
  keys,        \* the keyboard's queue of [code, keydown]
  held,        \* the keys that are physically down
  capsLight,   \* whether CAPSLOCK was pressed an odd number of times
  irq,         \* an interrupt of the keyboard is pending
  sem_kbdirq,
  down,        \* the driver's ctrl_down, alt_down and shift_down, as a set
  capslock,
  events, front, rear,
  lock,        \* who holds in->lock
  event_sem,
  task,        \* where dev_input_task is
  ev,          \* the event it is pushing
  reader,      \* per reader, where pop_event is
  panic        \* the message of a failed panic_on, or NULL

keyboard == <<keys, held, capsLight, irq>>
ring     == <<events, front, rear>>
vars == <<keyboard, sem_kbdirq, down, capslock, ring, lock, event_sem,
          task, ev, reader, panic>>

Slot  == 0 .. NEVENTS - 1
Char  == [key : HasChar \cup {NULL}, row : {0, 1}]
Event == [ctrl : BOOLEAN, alt : BOOLEAN, data : Char]
event(ctrl, alt, data) == [ctrl |-> ctrl, alt |-> alt, data |-> data]
Tick  == event(FALSE, FALSE, [key |-> NULL, row |-> 0])

Init ==
  /\ keys = <<>> /\ held = {} /\ capsLight = FALSE /\ irq = FALSE
  /\ sem_kbdirq = 0 /\ event_sem = 0
  /\ down = {} /\ capslock = FALSE
  /\ events = [i \in Slot |-> Tick] /\ front = 0 /\ rear = 0
  /\ lock = NULL
  /\ task = "poll" /\ ev = Tick
  /\ reader = [r \in Reader |-> "idle"]
  /\ panic = NULL

----------------------------------------------------------------------------
(* The keyboard and its interrupts *)

press(k) ==
  /\ Len(keys) < KeysAhead
  /\ k \notin held
  /\ held' = held \cup {k}
  /\ capsLight' = (capsLight # (k = "CAPSLOCK"))
  /\ keys' = Append(keys, [code |-> k, keydown |-> TRUE, with |-> held, caps |-> capsLight])
  /\ irq' = TRUE
  /\ UNCHANGED <<sem_kbdirq, down, capslock, ring, lock, event_sem, task, ev, reader, panic>>

release(k) ==
  /\ Len(keys) < KeysAhead
  /\ k \in held
  /\ held' = held \ {k}
  /\ keys' = Append(keys, [code |-> k, keydown |-> FALSE, with |-> held, caps |-> capsLight])
  /\ irq' = TRUE
  /\ UNCHANGED <<capsLight, sem_kbdirq, down, capslock, ring, lock, event_sem, task, ev, reader, panic>>

Irqs_Bug == IF task = "wait" THEN sem_kbdirq + 1 ELSE sem_kbdirq
Irqs == sem_kbdirq + 1

(* Registered for EVENT_IRQ_IODEV and for EVENT_IRQ_TIMER. *)
input_notify ==
  /\ sem_kbdirq < IrqsAhead
  /\ sem_kbdirq' = Irqs
  /\ irq' = FALSE
  /\ UNCHANGED <<keys, held, capsLight, down, capslock, ring, lock, event_sem,
                 task, ev, reader, panic>>

----------------------------------------------------------------------------
(* dev_input_task *)

Shift(d) == d \cap {"LSHIFT", "RSHIFT"} # {}
Ctrl(d)  == "LCTRL" \in d
Alt(d)   == "RALT" \in d

EventOf_Bug(k) ==
  event(FALSE, FALSE, [key |-> k, row |-> IF Shift(down) # capslock THEN 1 ELSE 0])

(* The event of character key k; capslock turns letters only. *)
EventOf(k) ==
  LET shift == Shift(down) # (k = Letter /\ capslock)
  IN  IF Ctrl(down) \/ Alt(down)
      THEN event(Ctrl(down), Alt(down), [key |-> k, row |-> 0])
      ELSE event(FALSE, FALSE, [key |-> k, row |-> IF shift THEN 1 ELSE 0])

(* The flags after a modifier's code. *)
Down(key) == IF key.keydown THEN down \cup {key.code} ELSE down \ {key.code}

input_keydown(key) ==
  /\ down' = IF key.code \in Modifier \ {"CAPSLOCK"} THEN Down(key) ELSE down
  /\ capslock' = (capslock # (key.keydown /\ key.code = "CAPSLOCK"))
  /\ IF key.keydown /\ key.code \in HasChar
     THEN ev' = EventOf(key.code) /\ task' = "push"
     ELSE UNCHANGED <<ev, task>>

(* One round of the inner loop; code 0 (nothing there) ends it. *)
poll ==
  /\ task = "poll"
  /\ \/ /\ keys = <<>>
        /\ task' = "time"
        /\ UNCHANGED <<keys, down, capslock, ev>>
     \/ /\ keys # <<>>
        /\ keys' = Tail(keys)
        /\ input_keydown(Head(keys))
  /\ UNCHANGED <<held, capsLight, irq, sem_kbdirq, ring, lock, event_sem, reader, panic>>

is_empty == rear = front

TickDue_Bug == TRUE
TickDue == is_empty

(* The daemon looks at the ring without its lock.  Whether 100 ms have     *)
(* passed is not modelled: either branch may be taken.                     *)
time ==
  /\ task = "time"
  /\ \/ /\ TickDue
        /\ ev' = Tick
        /\ task' = "push"
     \/ /\ task' = "wait"
        /\ UNCHANGED ev
  /\ UNCHANGED <<keyboard, sem_kbdirq, down, capslock, ring, lock, event_sem, reader, panic>>

sem_wait ==
  /\ task = "wait"
  /\ sem_kbdirq > 0
  /\ sem_kbdirq' = sem_kbdirq - 1
  /\ task' = "poll"
  /\ UNCHANGED <<keyboard, down, capslock, ring, lock, event_sem, ev, reader, panic>>

Free(l) == l = NULL

(* push_event: the write under the lock, then the signal. *)
push_lock ==
  /\ task = "push"
  /\ Free(lock)
  /\ lock' = "task"
  /\ task' = "write"
  /\ UNCHANGED <<keyboard, sem_kbdirq, down, capslock, ring, event_sem, ev, reader, panic>>

Advance(i) == (i + 1) % NEVENTS

Written == [events EXCEPT ![rear] = ev]

push_write ==
  /\ task = "write"
  /\ events' = Written
  /\ rear' = Advance(rear)
  /\ IF rear' = front
     THEN /\ panic' = "input queue full"
          /\ task' = "halted"
          /\ UNCHANGED lock
     ELSE /\ lock' = NULL
          /\ task' = "signal"
          /\ UNCHANGED panic
  /\ UNCHANGED <<keyboard, sem_kbdirq, down, capslock, front, event_sem, ev, reader>>

Signalled_Bug == event_sem
Signalled == event_sem + 1

(* Back to the inner loop after a key, on to sem_wait after a tick; ev,    *)
(* an argument, is gone.                                                   *)
push_signal ==
  /\ task = "signal"
  /\ event_sem' = Signalled
  /\ task' = IF ev = Tick THEN "wait" ELSE "poll"
  /\ ev' = Tick
  /\ UNCHANGED <<keyboard, sem_kbdirq, down, capslock, ring, lock, reader, panic>>

----------------------------------------------------------------------------
(* pop_event, called by input_read *)

pop_wait(r) ==
  /\ reader[r] = "idle"
  /\ event_sem > 0
  /\ event_sem' = event_sem - 1
  /\ reader' = [reader EXCEPT ![r] = "lock"]
  /\ UNCHANGED <<keyboard, sem_kbdirq, down, capslock, ring, lock, task, ev, panic>>

pop_lock(r) ==
  /\ reader[r] = "lock"
  /\ Free(lock)
  /\ lock' = r
  /\ reader' = [reader EXCEPT ![r] = "take"]
  /\ UNCHANGED <<keyboard, sem_kbdirq, down, capslock, ring, event_sem, task, ev, panic>>

(* panic_on(is_empty(in), "input queue empty") is the guard. *)
pop_take(r) ==
  /\ reader[r] = "take"
  /\ ~is_empty
  /\ front' = Advance(front)
  /\ lock' = NULL
  /\ reader' = [reader EXCEPT ![r] = "idle"]
  /\ UNCHANGED <<keyboard, sem_kbdirq, down, capslock, events, rear, event_sem, task, ev, panic>>

----------------------------------------------------------------------------
Daemon == poll \/ time \/ sem_wait \/ push_lock \/ push_write \/ push_signal
Read(r) == pop_wait(r) \/ pop_lock(r) \/ pop_take(r)

(* A panic halts the machine. *)
Next ==
  /\ panic = NULL
  /\ \/ \E k \in Keys : press(k) \/ release(k)
     \/ input_notify
     \/ Daemon
     \/ \E r \in Reader : Read(r)

Spec == Init /\ [][Next]_vars

(* A pending interrupt is delivered, the daemon runs, and the readers (the *)
(* tty daemon's loop) come back for more.                                  *)
FairSpec ==
  /\ Spec
  /\ WF_vars(panic = NULL /\ irq /\ input_notify)
  /\ WF_vars(panic = NULL /\ Daemon)
  /\ \A r \in Reader : WF_vars(panic = NULL /\ Read(r))

----------------------------------------------------------------------------
(* Properties *)

Count == (rear - front) % NEVENTS
Queue == [i \in 1 .. Count |-> events[(front + i - 1) % NEVENTS]]

(* event_sem and the ring agree, up to the readers that are past sem_wait  *)
(* and the event whose signal is still to come: no event is stranded in    *)
(* the ring and no reader is let in to find it empty (the panic "input     *)
(* queue empty").                                                          *)
SemExact ==
  panic = NULL =>
    Count = event_sem + Cardinality({r \in Reader : reader[r] \in {"lock", "take"}})
                      + (IF task = "signal" THEN 1 ELSE 0)

(* Events leave the ring in the order they entered it, one at a time, and  *)
(* none is overwritten, except by the push that ends in "input queue full",*)
(* which is never a tick's: that one is pushed because the ring looked     *)
(* empty in a read without the lock, however old the read is.              *)
InOrder ==
  [][\/ Queue' = Queue
     \/ Queue' = Append(Queue, ev)
     \/ Queue # <<>> /\ Queue' = Tail(Queue)
     \/ panic' # NULL /\ ev # Tick]_vars

(* A key gives the event of the modifiers that were down when it was       *)
(* pressed, however late the daemon comes to it: shift and capslock cancel *)
(* for letters, ctrl and alt win over both.                                *)
TypedAsPressed ==
  [][keys # <<>> /\ keys' = Tail(keys) /\ task' = "push" =>
       LET k == Head(keys) IN
         /\ ev'.data.key = k.code
         /\ ev'.ctrl = ("LCTRL" \in k.with) /\ ev'.alt = ("RALT" \in k.with)
         /\ ~ev'.ctrl /\ ~ev'.alt =>
              (ev'.data.row = 1) = (Shift(k.with) # (k.code = Letter /\ k.caps))]_vars

(* Unless the ring overflows, every code the keyboard has is taken in its  *)
(* turn, though its interrupt may come while the daemon is not waiting.    *)
KeysTaken ==
  \/ []<>(keys = <<>> \/ panic # NULL)
  \/ []<><<keys # <<>> /\ keys' = Tail(keys)>>_vars

(* Unless the ring overflows, the oldest event is always taken by some     *)
(* reader, although the daemon and the readers race for an unfair lock.    *)
EventsRead ==
  \A i \in Slot : (front = i /\ ~is_empty) ~> (front # i \/ panic # NULL)
=============================================================================
