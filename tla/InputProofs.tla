---------------------------- MODULE InputProofs ----------------------------
(***************************************************************************)
(* Proofs about Input: the semaphore counts the ring, the ring is a queue, *)
(* and a key gives the event of the modifiers it was pressed with.         *)
(***************************************************************************)
EXTENDS Input, FiniteSetTheorems, SequenceTheorems, TLAPS

LEMMA SlotCount == NEVENTS \in Nat /\ NEVENTS >= 2
  BY InputAssumption DEF InputAssumption

LEMMA Readers ==
  /\ IsFiniteSet(Reader)
  /\ "task" \notin Reader /\ NULL \notin Reader \cup HasChar \cup {"task", "input queue full"}
  BY InputAssumption DEF InputAssumption

USE SlotCount

(***************************************************************************)
(* The ring.                                                               *)
(***************************************************************************)

(* Where the code is, and who holds the lock: one task at most, in the     *)
(* section it guards.                                                      *)
RingType ==
  /\ events \in [Slot -> Event] /\ ev \in Event
  /\ front \in Slot /\ rear \in Slot
  /\ event_sem \in Nat
  /\ task \in {"poll", "time", "wait", "push", "write", "signal", "halted"}
  /\ reader \in [Reader -> {"idle", "lock", "take"}]
  /\ lock \in {NULL, "task"} \cup Reader

LockHeld ==
  /\ lock = "task" <=> task \in {"write", "halted"}
  /\ \A r \in Reader : lock = r <=> reader[r] = "take"

(* The ring that looked empty to the daemon stays empty until it has       *)
(* pushed its tick: only the daemon fills it.                              *)
TickOnEmpty == task \in {"push", "write"} /\ ev = Tick => front = rear

RingInv == RingType /\ LockHeld /\ TickOnEmpty /\ SemExact

LEMMA ModSlot ==
  ASSUME NEW x \in Int
  PROVE  /\ 0 <= x /\ x < NEVENTS => x % NEVENTS = x
         /\ NEVENTS <= x /\ x < 2 * NEVENTS => x % NEVENTS = x - NEVENTS
         /\ -NEVENTS <= x /\ x < 0 => x % NEVENTS = x + NEVENTS
  OBVIOUS

LEMMA CountOf ==
  ASSUME NEW f \in Slot, NEW r \in Slot
  PROVE  /\ (r - f) % NEVENTS = IF f <= r THEN r - f ELSE r - f + NEVENTS
         /\ (r - f) % NEVENTS \in 0 .. NEVENTS - 1
         /\ (r - f) % NEVENTS = 0 <=> r = f
         /\ (r + 1) % NEVENTS = (IF r = NEVENTS - 1 THEN 0 ELSE r + 1)
         /\ (r + 1) % NEVENTS \in Slot
  BY ModSlot DEF Slot

LEMMA CountStep ==
  ASSUME NEW f \in Slot, NEW r \in Slot
  PROVE  /\ Advance(r) # f => (Advance(r) - f) % NEVENTS = ((r - f) % NEVENTS) + 1
         /\ r # f => (r - Advance(f)) % NEVENTS = ((r - f) % NEVENTS) - 1
<1>1. /\ Advance(r) = (IF r = NEVENTS - 1 THEN 0 ELSE r + 1) /\ Advance(r) \in Slot
      /\ Advance(f) = (IF f = NEVENTS - 1 THEN 0 ELSE f + 1) /\ Advance(f) \in Slot
  BY CountOf DEF Advance
<1>2. (r - f) % NEVENTS = IF f <= r THEN r - f ELSE r - f + NEVENTS
  BY CountOf
<1>3. ASSUME NEW a \in Slot, NEW b \in Slot
      PROVE  (a - b) % NEVENTS = IF b <= a THEN a - b ELSE a - b + NEVENTS
  BY CountOf
<1>4. (Advance(r) - f) % NEVENTS = IF f <= Advance(r) THEN Advance(r) - f ELSE Advance(r) - f + NEVENTS
  BY <1>1, <1>3
<1>5. (r - Advance(f)) % NEVENTS = IF Advance(f) <= r THEN r - Advance(f) ELSE r - Advance(f) + NEVENTS
  BY <1>1, <1>3
<1>6. Advance(r) # f => (Advance(r) - f) % NEVENTS = ((r - f) % NEVENTS) + 1
  BY <1>1, <1>2, <1>4 DEF Slot
<1>7. r # f => (r - Advance(f)) % NEVENTS = ((r - f) % NEVENTS) - 1
  BY <1>1, <1>2, <1>5 DEF Slot
<1> QED
  BY <1>6, <1>7

(* Past sem_wait. *)
Inside == {r \in Reader : reader[r] \in {"lock", "take"}}

LEMMA InsideFinite == IsFiniteSet(Inside) /\ Cardinality(Inside) \in Nat
  BY Readers, FS_Subset, FS_CardinalityType DEF Inside

LEMMA RingInitInv == Init => RingInv
<1> SUFFICES ASSUME Init PROVE RingInv
  OBVIOUS
<1>1. Tick \in Event
  BY DEF Tick, Event, event, Char
<1>2. 0 \in Slot
  BY DEF Slot
<1>3. RingType /\ LockHeld /\ TickOnEmpty
  BY <1>1, <1>2, Readers DEF Init, RingType, LockHeld, TickOnEmpty
<1>4. SemExact
  <2>1. Inside = {}
    BY DEF Init, Inside
  <2>2. Cardinality(Inside) = 0
    BY <2>1, FS_EmptySet
  <2>3. Count = 0
    BY <1>2, CountOf DEF Init, Count
  <2> QED
    BY <2>2, <2>3 DEF SemExact, Inside, Init
<1> QED
  BY <1>3, <1>4 DEF RingInv

LEMMA EventType ==
  ASSUME NEW k \in HasChar
  PROVE  EventOf(k) \in Event /\ EventOf(k) # Tick
<1>1. PICK c \in BOOLEAN, a \in BOOLEAN, n \in {0, 1} : EventOf(k) = event(c, a, [key |-> k, row |-> n])
  <2>1. CASE Ctrl(down) \/ Alt(down)
    <3>1. EventOf(k) = event(Ctrl(down), Alt(down), [key |-> k, row |-> 0])
      BY <2>1 DEF EventOf
    <3>2. Ctrl(down) \in BOOLEAN /\ Alt(down) \in BOOLEAN
      BY DEF Ctrl, Alt
    <3> QED
      BY <3>1, <3>2
  <2>2. CASE ~(Ctrl(down) \/ Alt(down))
    <3>1. EventOf(k) = event(FALSE, FALSE, [key |-> k, row |->
             IF Shift(down) # (k = Letter /\ capslock) THEN 1 ELSE 0])
      BY <2>2 DEF EventOf
    <3> QED
      BY <3>1
  <2> QED
    BY <2>1, <2>2
<1>2. [key |-> k, row |-> n] \in Char
  BY DEF Char
<1>3. EventOf(k) \in Event
  BY <1>1, <1>2 DEF event, Event
<1>4. EventOf(k).data.key = k
  BY <1>1 DEF event
<1>5. Tick.data.key = NULL
  BY DEF event, Tick
<1>6. k # NULL
  BY Readers
<1> QED
  BY <1>3, <1>4, <1>5, <1>6

LEMMA PollRing ==
  ASSUME RingInv, poll
  PROVE  RingInv'
<1>1. /\ RingType /\ LockHeld /\ SemExact /\ task = "poll"
      /\ UNCHANGED <<ring, event_sem, reader, lock, panic>>
  BY DEF RingInv, poll
<1>2. \/ task' \in {"time", "poll"} /\ ev' = ev
      \/ /\ task' = "push" /\ ev' # Tick /\ ev' \in Event
  <2>1. CASE keys = <<>>
    BY <2>1 DEF poll
  <2>2. CASE keys # <<>>
    <3>1. input_keydown(Head(keys))
      BY <2>2 DEF poll
    <3>2. CASE Head(keys).keydown /\ Head(keys).code \in HasChar
      BY <3>1, <3>2, EventType DEF input_keydown
    <3>3. CASE ~(Head(keys).keydown /\ Head(keys).code \in HasChar)
      BY <3>1, <3>3, <1>1 DEF input_keydown
    <3> QED
      BY <3>2, <3>3
  <2> QED
    BY <2>1, <2>2
<1>3. RingType'
  BY <1>1, <1>2 DEF RingType, ring
<1>4. LockHeld' /\ TickOnEmpty'
  BY <1>1, <1>2 DEF LockHeld, TickOnEmpty, ring
<1>5. SemExact'
  BY <1>1, <1>2 DEF SemExact, Count, ring
<1> QED
  BY <1>3, <1>4, <1>5 DEF RingInv

(* Steps of the daemon that leave the ring and its semaphore alone. *)
LEMMA DaemonRing ==
  ASSUME RingInv, time \/ sem_wait \/ push_lock
  PROVE  RingInv'
<1>1. /\ RingType /\ LockHeld /\ TickOnEmpty /\ SemExact
      /\ UNCHANGED <<ring, event_sem, reader, panic>>
  BY DEF RingInv, time, sem_wait, push_lock
<1>2. CASE time
  <2>1. /\ task = "time" /\ lock' = lock
        /\ \/ task' = "push" /\ front = rear /\ ev' = Tick
           \/ task' = "wait" /\ ev' = ev
    BY <1>2 DEF time, TickDue, is_empty
  <2>2. Tick \in Event
    BY DEF Tick, Event, event, Char
  <2>3. RingType'
    BY <1>1, <2>1, <2>2 DEF RingType, ring
  <2>4. LockHeld' /\ TickOnEmpty'
    BY <1>1, <2>1 DEF LockHeld, TickOnEmpty, ring
  <2>5. SemExact'
    BY <1>1, <2>1 DEF SemExact, Count, ring
  <2> QED
    BY <2>3, <2>4, <2>5 DEF RingInv
<1>3. CASE sem_wait
  <2>1. task = "wait" /\ lock' = lock /\ task' = "poll" /\ ev' = ev
    BY <1>3 DEF sem_wait
  <2>2. RingType' /\ LockHeld' /\ TickOnEmpty'
    BY <1>1, <2>1 DEF RingType, LockHeld, TickOnEmpty, ring
  <2>3. SemExact'
    BY <1>1, <2>1 DEF SemExact, Count, ring
  <2> QED
    BY <2>2, <2>3 DEF RingInv
<1>4. CASE push_lock
  <2>1. task = "push" /\ lock = NULL /\ lock' = "task" /\ task' = "write" /\ ev' = ev
    BY <1>4 DEF push_lock, Free
  <2>2. RingType'
    BY <1>1, <2>1 DEF RingType, ring
  <2>3. LockHeld' /\ TickOnEmpty'
    BY <1>1, <2>1, Readers DEF LockHeld, TickOnEmpty, RingType, ring
  <2>4. SemExact'
    BY <1>1, <2>1 DEF SemExact, Count, ring
  <2> QED
    BY <2>2, <2>3, <2>4 DEF RingInv
<1> QED
  BY <1>2, <1>3, <1>4

LEMMA PushWriteRing ==
  ASSUME RingInv, push_write, panic = NULL
  PROVE  RingInv'
<1>1. /\ RingType /\ LockHeld /\ TickOnEmpty /\ SemExact
      /\ UNCHANGED <<front, event_sem, reader, ev>>
      /\ task = "write" /\ lock = "task"
      /\ events' = [events EXCEPT ![rear] = ev] /\ rear' = Advance(rear)
  BY DEF RingInv, push_write, Written, LockHeld
<1>2. Advance(rear) \in Slot
  BY <1>1, CountOf DEF Advance, RingType
<1>3. CASE rear' = front
  <2>1. panic' = "input queue full" /\ task' = "halted" /\ lock' = lock
    BY <1>3 DEF push_write
  <2>2. RingType'
    BY <1>1, <1>2, <2>1 DEF RingType
  <2>3. LockHeld' /\ TickOnEmpty'
    BY <1>1, <2>1 DEF LockHeld, TickOnEmpty
  <2>4. SemExact'
    BY <2>1, Readers DEF SemExact
  <2> QED
    BY <2>2, <2>3, <2>4 DEF RingInv
<1>4. CASE rear' # front
  <2>1. panic' = NULL /\ task' = "signal" /\ lock' = NULL
    BY <1>4 DEF push_write
  <2>2. RingType'
    BY <1>1, <1>2, <2>1 DEF RingType
  <2>3. LockHeld' /\ TickOnEmpty'
    BY <1>1, <2>1, Readers DEF LockHeld, TickOnEmpty
  <2>4. Count' = Count + 1
    BY <1>1, <1>2, <1>4, CountStep DEF Count, RingType
  <2>5. Count = event_sem + Cardinality(Inside) + 0
    BY <1>1 DEF SemExact, Inside
  <2>6. Count' = event_sem + Cardinality(Inside) + 1
    BY <1>1, <2>4, <2>5, InsideFinite DEF RingType
  <2>7. SemExact'
    BY <1>1, <2>1, <2>6 DEF SemExact, Inside
  <2> QED
    BY <2>2, <2>3, <2>7 DEF RingInv
<1> QED
  BY <1>3, <1>4

LEMMA PushSignalRing ==
  ASSUME RingInv, push_signal
  PROVE  RingInv'
<1>1. /\ RingType /\ LockHeld /\ TickOnEmpty /\ SemExact
      /\ UNCHANGED <<ring, lock, reader, panic>>
      /\ task = "signal" /\ task' \in {"wait", "poll"} /\ ev' = Tick
      /\ event_sem' = event_sem + 1
  BY DEF RingInv, push_signal, Signalled
<1>2. Tick \in Event
  BY DEF Tick, Event, event, Char
<1>3. RingType'
  BY <1>1, <1>2 DEF RingType, ring
<1>4. LockHeld' /\ TickOnEmpty'
  BY <1>1 DEF LockHeld, TickOnEmpty
<1>5. SemExact'
  BY <1>1, InsideFinite DEF SemExact, Count, ring, Inside, RingType
<1> QED
  BY <1>3, <1>4, <1>5 DEF RingInv

LEMMA PopRing ==
  ASSUME RingInv, NEW r \in Reader, Read(r)
  PROVE  RingInv'
<1>1. /\ RingType /\ LockHeld /\ TickOnEmpty /\ SemExact
      /\ UNCHANGED <<events, rear, task, ev, panic>>
  BY DEF RingInv, Read, pop_wait, pop_lock, pop_take, ring
<1> DEFINE n == Cardinality(Inside)
<1>2. IsFiniteSet(Inside) /\ n \in Nat
  BY InsideFinite
<1>3. CASE pop_wait(r)
  <2>1. /\ reader[r] = "idle" /\ event_sem > 0 /\ event_sem' = event_sem - 1
        /\ reader' = [reader EXCEPT ![r] = "lock"] /\ lock' = lock /\ front' = front
    BY <1>3 DEF pop_wait, ring
  <2>2. RingType' /\ LockHeld' /\ TickOnEmpty'
    BY <1>1, <2>1 DEF RingType, LockHeld, TickOnEmpty
  <2>3. Inside' = Inside \cup {r} /\ r \notin Inside
    BY <1>1, <2>1 DEF Inside, RingType
  <2>4. Cardinality(Inside') = n + 1
    BY <1>2, <2>3, FS_AddElement
  <2>5. SemExact'
    BY <1>1, <1>2, <2>1, <2>4 DEF SemExact, Count, Inside, RingType
  <2> QED
    BY <2>2, <2>5 DEF RingInv
<1>4. CASE pop_lock(r)
  <2>1. /\ reader[r] = "lock" /\ lock = NULL /\ lock' = r
        /\ reader' = [reader EXCEPT ![r] = "take"] /\ event_sem' = event_sem /\ front' = front
    BY <1>4 DEF pop_lock, ring, Free
  <2>2. RingType' /\ TickOnEmpty'
    BY <1>1, <2>1 DEF RingType, TickOnEmpty
  <2>3. LockHeld'
    BY <1>1, <2>1, Readers DEF LockHeld, RingType
  <2>4. Inside' = Inside
    BY <1>1, <2>1 DEF Inside, RingType
  <2>5. SemExact'
    BY <1>1, <2>1, <2>4 DEF SemExact, Count, Inside
  <2> QED
    BY <2>2, <2>3, <2>5 DEF RingInv
<1>5. CASE pop_take(r)
  <2>1. /\ reader[r] = "take" /\ rear # front /\ front' = Advance(front) /\ lock' = NULL
        /\ reader' = [reader EXCEPT ![r] = "idle"] /\ event_sem' = event_sem
    BY <1>5 DEF pop_take, is_empty
  <2>2. Advance(front) \in Slot
    BY <1>1, CountOf DEF Advance, RingType
  <2>3. RingType' /\ TickOnEmpty'
    BY <1>1, <2>1, <2>2 DEF RingType, TickOnEmpty
  <2>4. LockHeld'
    BY <1>1, <2>1, Readers DEF LockHeld, RingType
  <2>5. Inside' = Inside \ {r} /\ r \in Inside
    BY <1>1, <2>1 DEF Inside, RingType
  <2>6. Cardinality(Inside') = n - 1
    BY <1>2, <2>5, FS_RemoveElement
  <2>7. Count' = Count - 1
    BY <1>1, <2>1, <2>2, CountStep DEF Count, RingType
  <2>8. SemExact'
    BY <1>1, <1>2, <2>1, <2>6, <2>7 DEF SemExact, Inside, RingType
  <2> QED
    BY <2>3, <2>4, <2>8 DEF RingInv
<1> QED
  BY <1>3, <1>4, <1>5 DEF Read

LEMMA RingInvNext == RingInv /\ [Next]_vars => RingInv'
<1> SUFFICES ASSUME RingInv, [Next]_vars PROVE RingInv'
  OBVIOUS
<1>1. ASSUME UNCHANGED <<ring, event_sem, reader, lock, panic, task, ev>> PROVE RingInv'
  <2>1. RingType' /\ LockHeld' /\ TickOnEmpty'
    BY <1>1 DEF RingInv, RingType, LockHeld, TickOnEmpty, ring
  <2>2. SemExact'
    BY <1>1 DEF RingInv, SemExact, Count, ring
  <2> QED
    BY <2>1, <2>2 DEF RingInv
<1>2. ASSUME NEW k \in Keys, press(k) \/ release(k) PROVE RingInv'
  BY <1>1, <1>2 DEF press, release
<1>3. CASE input_notify
  BY <1>1, <1>3 DEF input_notify
<1>4. CASE panic = NULL /\ Daemon
  BY <1>4, PollRing, DaemonRing, PushWriteRing, PushSignalRing DEF Daemon
<1>5. ASSUME NEW r \in Reader, Read(r) PROVE RingInv'
  BY <1>5, PopRing
<1>6. CASE UNCHANGED vars
  BY <1>1, <1>6 DEF vars
<1> QED
  BY <1>2, <1>3, <1>4, <1>5, <1>6 DEF Next

(* The semaphore counts the events of the ring, up to those who are past   *)
(* sem_wait and the event about to be signalled (push_event, pop_event):   *)
(* for any number of readers and any ring.                                 *)
THEOREM SemaphoreExact == Spec => []SemExact
<1>1. RingInv => SemExact
  BY DEF RingInv
<1> QED
  BY RingInitInv, RingInvNext, <1>1, PTL DEF Spec

(***************************************************************************)
(* The order of the events.                                                *)
(***************************************************************************)

LEMMA PlaceOf ==
  ASSUME NEW f \in Slot, NEW i \in 1 .. NEVENTS
  PROVE  /\ (f + i - 1) % NEVENTS = IF f + i - 1 < NEVENTS THEN f + i - 1 ELSE f + i - 1 - NEVENTS
         /\ (f + i - 1) % NEVENTS \in Slot
<1>1. PICK x \in Int : x = f + i - 1
  BY DEF Slot
<1>2. 0 <= x /\ x < 2 * NEVENTS
  BY <1>1 DEF Slot
<1>3. x % NEVENTS = IF x < NEVENTS THEN x ELSE x - NEVENTS
  BY <1>2, ModSlot
<1>4. x % NEVENTS \in Slot
  BY <1>2, <1>3 DEF Slot
<1>5. (f + i - 1) % NEVENTS = x % NEVENTS
  BY <1>1, Zenon
<1> QED
  BY <1>1, <1>3, <1>4, <1>5 DEF Slot

(* What waits is in the places from front on, and rear is the next one. *)
LEMMA Places ==
  ASSUME NEW f \in Slot, NEW r \in Slot
  PROVE  /\ \A i \in 1 .. (r - f) % NEVENTS : (f + i - 1) % NEVENTS \in Slot \ {r}
         /\ (f + (((r - f) % NEVENTS) + 1) - 1) % NEVENTS = r
         /\ \A i \in 1 .. NEVENTS - 1 : (Advance(f) + i - 1) % NEVENTS = (f + (i + 1) - 1) % NEVENTS
<1> DEFINE n == (r - f) % NEVENTS
<1>1. n = (IF f <= r THEN r - f ELSE r - f + NEVENTS) /\ n \in 0 .. NEVENTS - 1
  BY CountOf
<1>2. Advance(f) = (IF f = NEVENTS - 1 THEN 0 ELSE f + 1) /\ Advance(f) \in Slot
  BY CountOf DEF Advance
<1> HIDE DEF n
<1>3. ASSUME NEW i \in 1 .. n PROVE (f + i - 1) % NEVENTS \in Slot \ {r}
  <2>1. i \in 1 .. NEVENTS
    BY <1>1
  <2>2. (f + i - 1) % NEVENTS = (IF f + i - 1 < NEVENTS THEN f + i - 1 ELSE f + i - 1 - NEVENTS)
        /\ (f + i - 1) % NEVENTS \in Slot
    BY <2>1, PlaceOf
  <2> QED
    BY <1>1, <2>1, <2>2 DEF Slot
<1>4. (f + (n + 1) - 1) % NEVENTS = r
  <2>1. n + 1 \in 1 .. NEVENTS
    BY <1>1
  <2>2. (f + (n + 1) - 1) % NEVENTS = IF f + (n + 1) - 1 < NEVENTS THEN f + (n + 1) - 1 ELSE f + (n + 1) - 1 - NEVENTS
    BY <2>1, PlaceOf
  <2> QED
    BY <1>1, <2>2 DEF Slot
<1>5. ASSUME NEW i \in 1 .. NEVENTS - 1
      PROVE  (Advance(f) + i - 1) % NEVENTS = (f + (i + 1) - 1) % NEVENTS
  <2>1. i \in 1 .. NEVENTS /\ i + 1 \in 1 .. NEVENTS
    OBVIOUS
  <2>2. (Advance(f) + i - 1) % NEVENTS
          = IF Advance(f) + i - 1 < NEVENTS THEN Advance(f) + i - 1 ELSE Advance(f) + i - 1 - NEVENTS
    BY <1>2, <2>1, PlaceOf
  <2>3. (f + (i + 1) - 1) % NEVENTS
          = IF f + (i + 1) - 1 < NEVENTS THEN f + (i + 1) - 1 ELSE f + (i + 1) - 1 - NEVENTS
    BY <2>1, PlaceOf
  <2> QED
    BY <1>2, <2>1, <2>2, <2>3 DEF Slot
<1> QED
  BY <1>3, <1>4, <1>5 DEF n

LEMMA QueueType ==
  ASSUME NEW e \in [Slot -> Event], NEW f \in Slot, NEW r \in Slot
  PROVE  LET n == (r - f) % NEVENTS
             q == [i \in 1 .. n |-> e[(f + i - 1) % NEVENTS]]
         IN  /\ n \in 0 .. NEVENTS - 1 /\ q \in Seq(Event) /\ Len(q) = n
             /\ \A i \in 1 .. n : q[i] = e[(f + i - 1) % NEVENTS]
<1> DEFINE n == (r - f) % NEVENTS
<1>1. n \in 0 .. NEVENTS - 1
  BY CountOf
<1>2. \A i \in 1 .. n : e[(f + i - 1) % NEVENTS] \in Event
  BY Places
<1> QED
  BY <1>1, <1>2

LEMMA PushInOrder ==
  ASSUME RingInv, push_write
  PROVE  Queue' = Append(Queue, ev) \/ (panic' # NULL /\ ev # Tick)
<1>1. /\ RingType /\ TickOnEmpty /\ front' = front /\ ev' = ev
      /\ task = "write" /\ events' = [events EXCEPT ![rear] = ev] /\ rear' = Advance(rear)
  BY DEF RingInv, push_write, Written
<1>2. Advance(rear) = (IF rear = NEVENTS - 1 THEN 0 ELSE rear + 1) /\ Advance(rear) \in Slot
  BY <1>1, CountOf DEF Advance, RingType
<1>3. CASE rear' = front
  <2>1. panic' # NULL
    BY <1>3, Readers DEF push_write
  <2>2. ev # Tick
    BY <1>1, <1>2, <1>3 DEF TickOnEmpty, RingType, Slot
  <2> QED
    BY <2>1, <2>2
<1>4. CASE rear' # front
  <2>1. Count' = Count + 1
    BY <1>1, <1>2, <1>4, CountStep DEF Count, RingType
  <2>2. RingType'
    BY <1>1, <1>2, <1>4 DEF RingType, push_write
  <2>3. /\ Queue' \in Seq(Event) /\ Len(Queue') = Count + 1
        /\ \A i \in 1 .. Count + 1 : Queue'[i] = events'[(front + i - 1) % NEVENTS]
    <3>1. events' \in [Slot -> Event] /\ rear' \in Slot /\ front \in Slot
      BY <1>1, <2>2 DEF RingType
    <3>2. PICK e \in [Slot -> Event], r \in Slot : e = events' /\ r = rear'
      BY <3>1
    <3>3. (r - front) % NEVENTS = Count + 1
      BY <1>1, <2>1, <3>2 DEF Count
    <3>4. Queue' = [i \in 1 .. Count + 1 |-> e[(front + i - 1) % NEVENTS]]
      BY <1>1, <2>1, <3>2 DEF Queue
    <3> QED
      BY <3>1, <3>2, <3>3, <3>4, QueueType
  <2>4. /\ Count \in 0 .. NEVENTS - 1 /\ Queue \in Seq(Event) /\ Len(Queue) = Count
        /\ \A i \in 1 .. Count : Queue[i] = events[(front + i - 1) % NEVENTS]
    BY <1>1, QueueType DEF Queue, Count, RingType
  <2>5. ASSUME NEW i \in 1 .. Count PROVE Queue'[i] = Queue[i]
    <3>1. (front + i - 1) % NEVENTS \in Slot \ {rear}
      BY <1>1, Places DEF RingType, Count
    <3>2. events'[(front + i - 1) % NEVENTS] = events[(front + i - 1) % NEVENTS]
      BY <1>1, <3>1 DEF RingType
    <3>3. i \in 1 .. Count + 1
      BY <2>4
    <3> QED
      BY <2>3, <2>4, <3>2, <3>3
  <2>6. Queue'[Count + 1] = ev
    BY <1>1, <2>3, <2>4, Places DEF RingType, Count
  <2>7. /\ Append(Queue, ev) \in Seq(Event) /\ Len(Append(Queue, ev)) = Count + 1
        /\ \A i \in 1 .. Count : Append(Queue, ev)[i] = Queue[i]
        /\ Append(Queue, ev)[Count + 1] = ev
    BY <1>1, <2>4, AppendProperties DEF RingType
  <2>8. \A i \in 1 .. Count + 1 : Queue'[i] = Append(Queue, ev)[i]
    BY <2>4, <2>5, <2>6, <2>7
  <2> QED
    BY <2>3, <2>7, <2>8, SeqEqual
<1> QED
  BY <1>3, <1>4

LEMMA PopInOrder ==
  ASSUME RingInv, NEW r \in Reader, pop_take(r)
  PROVE  Queue # <<>> /\ Queue' = Tail(Queue)
<1>1. /\ RingType /\ RingType' /\ front' = Advance(front) /\ rear # front
      /\ UNCHANGED <<events, rear>>
  BY PopRing DEF RingInv, pop_take, Read, is_empty
<1>2. Count' = Count - 1 /\ Count > 0
  BY <1>1, CountStep, CountOf DEF Count, RingType
<1>3. /\ Queue' \in Seq(Event) /\ Len(Queue') = Count - 1
      /\ \A i \in 1 .. Count - 1 : Queue'[i] = events[(Advance(front) + i - 1) % NEVENTS]
  <2>1. events \in [Slot -> Event] /\ rear \in Slot /\ front' \in Slot
    BY <1>1 DEF RingType
  <2> QED
    BY <1>1, <1>2, <2>1, QueueType DEF Queue, Count
<1>4. /\ Count \in 0 .. NEVENTS - 1 /\ Queue \in Seq(Event) /\ Len(Queue) = Count
      /\ \A i \in 1 .. Count : Queue[i] = events[(front + i - 1) % NEVENTS]
  BY <1>1, QueueType DEF Queue, Count, RingType
<1>5. ASSUME NEW i \in 1 .. Count - 1 PROVE Queue'[i] = Queue[i + 1]
  <2>1. i \in 1 .. NEVENTS - 1 /\ i + 1 \in 1 .. Count
    BY <1>4
  <2>2. (Advance(front) + i - 1) % NEVENTS = (front + (i + 1) - 1) % NEVENTS
    BY <1>1, <2>1, Places DEF RingType
  <2>3. Queue[i + 1] = events[(front + (i + 1) - 1) % NEVENTS]
    BY <1>4, <2>1
  <2> QED
    BY <1>3, <2>2, <2>3
<1>6. Queue # <<>>
  BY <1>2, <1>4
<1>7. /\ Tail(Queue) \in Seq(Event) /\ Len(Tail(Queue)) = Count - 1
      /\ \A i \in 1 .. Count - 1 : Tail(Queue)[i] = Queue[i + 1]
  BY <1>4, <1>6
<1> QED
  BY <1>3, <1>5, <1>6, <1>7, SeqEqual

(* The ring is a first-in first-out queue that loses nothing: a step takes *)
(* its first event, or appends the daemon's, or ends in "input queue       *)
(* full", which no tick does (push_event, pop_event, dev_input_task): for  *)
(* any number of readers and any ring.                                     *)
THEOREM RingInOrder == Spec => InOrder
<1> DEFINE Moves == \/ Queue' = Queue
                    \/ Queue' = Append(Queue, ev)
                    \/ Queue # <<>> /\ Queue' = Tail(Queue)
                    \/ panic' # NULL /\ ev # Tick
<1>1. RingInv /\ [Next]_vars => [Moves]_vars
  <2> SUFFICES ASSUME RingInv, Next PROVE Moves
    OBVIOUS
  <2>1. CASE UNCHANGED ring
    BY <2>1 DEF Queue, Count, ring
  <2>2. CASE push_write
    BY <2>2, PushInOrder
  <2>3. ASSUME NEW r \in Reader, pop_take(r) PROVE Moves
    BY <2>3, PopInOrder
  <2> QED
    BY <2>1, <2>2, <2>3 DEF Next, press, release, input_notify, Daemon, poll, time, sem_wait,
                            push_lock, push_signal, Read, pop_wait, pop_lock
<1> QED
  BY RingInitInv, RingInvNext, <1>1, PTL DEF Spec, InOrder

(***************************************************************************)
(* The modifiers.                                                          *)
(***************************************************************************)

KeyCode == [code : Keys, keydown : BOOLEAN, with : SUBSET Keys, caps : BOOLEAN]

(* What was held down, and the capslock light, when the i-th of the codes  *)
(* that wait was sent; past the last of them, what is down now.            *)
HeldAt(i) == IF i <= Len(keys) THEN keys[i].with ELSE held
CapsAt(i) == IF i <= Len(keys) THEN keys[i].caps ELSE capsLight

HeldAfter(h, k) == IF k.keydown THEN h \cup {k.code} ELSE h \ {k.code}

CodesType ==
  /\ keys \in Seq(KeyCode) /\ held \in SUBSET Keys
  /\ capsLight \in BOOLEAN /\ capslock \in BOOLEAN

(* Each code changes what is held by its own key. *)
CodesChain ==
  \A i \in 1 .. Len(keys) :
    /\ HeldAt(i + 1) = HeldAfter(HeldAt(i), keys[i])
    /\ CapsAt(i + 1) = (CapsAt(i) # (keys[i].keydown /\ keys[i].code = "CAPSLOCK"))

(* The driver's flags are what was down before the first code that waits:  *)
(* they lag behind the keyboard, by the codes that wait and no more.       *)
FlagsLag ==
  /\ down = HeldAt(1) \cap (Modifier \ {"CAPSLOCK"})
  /\ capslock = CapsAt(1)

FlagsInv == CodesType /\ CodesChain /\ FlagsLag

LEMMA FlagsInitInv == Init => FlagsInv
<1> SUFFICES ASSUME Init PROVE FlagsInv
  OBVIOUS
<1>1. keys = <<>> /\ keys \in Seq(KeyCode) /\ Len(keys) = 0
  BY EmptySeq DEF Init
<1>2. HeldAt(1) = {} /\ CapsAt(1) = FALSE
  BY <1>1 DEF HeldAt, CapsAt, Init
<1>3. CodesType
  BY <1>1 DEF Init, CodesType
<1>4. CodesChain
  BY <1>1 DEF CodesChain
<1>5. FlagsLag
  BY <1>2 DEF Init, FlagsLag
<1> QED
  BY <1>3, <1>4, <1>5 DEF FlagsInv

LEMMA StrikeFlags ==
  ASSUME FlagsInv, NEW k \in Keys, press(k) \/ release(k)
  PROVE  FlagsInv'
<1> DEFINE n == Len(keys)
<1>1. /\ CodesType /\ CodesChain /\ FlagsLag /\ UNCHANGED <<down, capslock>>
  BY DEF FlagsInv, press, release
<1>2. PICK c \in KeyCode :
        /\ c.code = k /\ c.with = held /\ c.caps = capsLight
        /\ keys' = Append(keys, c)
        /\ held' = HeldAfter(held, c)
        /\ capsLight' = (capsLight # (c.keydown /\ c.code = "CAPSLOCK"))
  <2>1. CASE press(k)
    <3> DEFINE c == [code |-> k, keydown |-> TRUE, with |-> held, caps |-> capsLight]
    <3>1. c \in KeyCode
      BY <1>1 DEF CodesType, KeyCode
    <3>2. keys' = Append(keys, c) /\ held' = held \cup {k} /\ capsLight' = (capsLight # (k = "CAPSLOCK"))
      BY <2>1 DEF press
    <3> QED
      BY <3>1, <3>2 DEF HeldAfter
  <2>2. CASE release(k)
    <3> DEFINE c == [code |-> k, keydown |-> FALSE, with |-> held, caps |-> capsLight]
    <3>1. c \in KeyCode
      BY <1>1 DEF CodesType, KeyCode
    <3>2. keys' = Append(keys, c) /\ held' = held \ {k} /\ capsLight' = capsLight
      BY <2>2 DEF release
    <3>3. capsLight' = (capsLight # (c.keydown /\ c.code = "CAPSLOCK"))
      BY <1>1, <3>2 DEF CodesType
    <3> QED
      BY <3>1, <3>2, <3>3 DEF HeldAfter
  <2> QED
    BY <2>1, <2>2
<1>3. /\ keys \in Seq(KeyCode) /\ n \in Nat
      /\ keys' \in Seq(KeyCode) /\ Len(keys') = n + 1
      /\ \A i \in 1 .. n : keys'[i] = keys[i]
      /\ keys'[n + 1] = c
  BY <1>1, <1>2, AppendProperties DEF CodesType
<1> HIDE DEF n
<1>4. /\ \A i \in 1 .. n + 1 : HeldAt(i)' = HeldAt(i) /\ CapsAt(i)' = CapsAt(i)
      /\ HeldAt(n + 2)' = held' /\ CapsAt(n + 2)' = capsLight'
      /\ HeldAt(n + 1) = held /\ CapsAt(n + 1) = capsLight
  BY <1>2, <1>3 DEF HeldAt, CapsAt, n
<1>5. CodesType'
  <2>1. held' \in SUBSET Keys
    BY <1>1, <1>2 DEF CodesType, HeldAfter, KeyCode
  <2> QED
    BY <1>1, <1>2, <1>3, <2>1 DEF CodesType
<1>6. CodesChain'
  <2> SUFFICES ASSUME NEW i \in 1 .. n + 1
               PROVE  /\ HeldAt(i + 1)' = HeldAfter(HeldAt(i)', keys'[i])
                      /\ CapsAt(i + 1)' = (CapsAt(i)' # (keys'[i].keydown /\ keys'[i].code = "CAPSLOCK"))
    BY <1>3 DEF CodesChain
  <2>1. CASE i \in 1 .. n
    <3>1. i + 1 \in 1 .. n + 1 /\ i \in 1 .. n + 1
      BY <1>3, <2>1
    <3>2. keys'[i] = keys[i]
      BY <1>3, <2>1
    <3>3. /\ HeldAt(i + 1) = HeldAfter(HeldAt(i), keys[i])
          /\ CapsAt(i + 1) = (CapsAt(i) # (keys[i].keydown /\ keys[i].code = "CAPSLOCK"))
      BY <1>1, <2>1 DEF CodesChain, n
    <3> QED
      BY <1>4, <3>1, <3>2, <3>3
  <2>2. CASE i = n + 1
    <3>1. i + 1 = n + 2
      BY <1>3, <2>2
    <3>2. HeldAt(i + 1)' = held' /\ CapsAt(i + 1)' = capsLight' /\ HeldAt(i)' = held /\ CapsAt(i)' = capsLight
      <4>1. i \in 1 .. n + 1
        BY <1>3, <2>2
      <4>2. HeldAt(i)' = HeldAt(i) /\ CapsAt(i)' = CapsAt(i)
        BY <1>4, <4>1
      <4>3. HeldAt(i) = held /\ CapsAt(i) = capsLight
        BY <1>4, <2>2
      <4>4. HeldAt(i + 1)' = held' /\ CapsAt(i + 1)' = capsLight'
        BY <1>2, <1>3, <3>1 DEF HeldAt, CapsAt
      <4> QED
        BY <4>2, <4>3, <4>4
    <3>3. keys'[i] = c
      BY <1>3, <2>2
    <3> QED
      BY <1>2, <3>2, <3>3
  <2> QED
    BY <1>3, <2>1, <2>2
<1>7. FlagsLag'
  BY <1>1, <1>3, <1>4 DEF FlagsLag
<1> QED
  BY <1>5, <1>6, <1>7 DEF FlagsInv

LEMMA PollFlags ==
  ASSUME FlagsInv, poll
  PROVE  FlagsInv'
<1>1. CodesType /\ CodesChain /\ FlagsLag /\ UNCHANGED <<held, capsLight>>
  BY DEF FlagsInv, poll
<1>2. CASE keys = <<>>
  <2>1. UNCHANGED <<keys, down, capslock>>
    BY <1>2 DEF poll
  <2> QED
    BY <1>1, <2>1 DEF FlagsInv, CodesType, CodesChain, FlagsLag, HeldAt, CapsAt
<1>3. CASE keys # <<>>
  <2> DEFINE n == Len(keys)
             c == Head(keys)
  <2>1. keys' = Tail(keys) /\ input_keydown(c)
    BY <1>3 DEF poll
  <2>2. /\ keys \in Seq(KeyCode) /\ n \in Nat \ {0} /\ c = keys[1] /\ c \in KeyCode
        /\ keys' \in Seq(KeyCode) /\ Len(keys') = n - 1
        /\ \A i \in 1 .. n - 1 : keys'[i] = keys[i + 1]
    BY <1>1, <1>3, <2>1 DEF CodesType
  <2>3. /\ down' = IF c.code \in Modifier \ {"CAPSLOCK"} THEN Down(c) ELSE down
        /\ capslock' = (capslock # (c.keydown /\ c.code = "CAPSLOCK"))
    BY <2>1 DEF input_keydown
  <2> HIDE DEF n, c
  <2>4. \A i \in 1 .. n : HeldAt(i)' = HeldAt(i + 1) /\ CapsAt(i)' = CapsAt(i + 1)
    BY <1>1, <2>2 DEF HeldAt, CapsAt, n
  <2>5. CodesType'
    BY <1>1, <2>2, <2>3 DEF CodesType
  <2>6. CodesChain'
    <3> SUFFICES ASSUME NEW i \in 1 .. n - 1
                 PROVE  /\ HeldAt(i + 1)' = HeldAfter(HeldAt(i)', keys'[i])
                        /\ CapsAt(i + 1)' = (CapsAt(i)' # (keys'[i].keydown /\ keys'[i].code = "CAPSLOCK"))
      BY <2>2 DEF CodesChain
    <3>1. i \in 1 .. n /\ i + 1 \in 1 .. n /\ keys'[i] = keys[i + 1]
      BY <2>2
    <3>2. /\ HeldAt((i + 1) + 1) = HeldAfter(HeldAt(i + 1), keys[i + 1])
          /\ CapsAt((i + 1) + 1) = (CapsAt(i + 1) # (keys[i + 1].keydown /\ keys[i + 1].code = "CAPSLOCK"))
      BY <1>1, <3>1 DEF CodesChain, n
    <3> QED
      BY <2>4, <3>1, <3>2
  <2>7. /\ HeldAt(1)' = HeldAfter(HeldAt(1), c)
        /\ CapsAt(1)' = (CapsAt(1) # (c.keydown /\ c.code = "CAPSLOCK"))
    <3>1. 1 \in 1 .. n /\ 1 + 1 = 2
      BY <2>2
    <3>2. /\ HeldAt(1 + 1) = HeldAfter(HeldAt(1), c)
          /\ CapsAt(1 + 1) = (CapsAt(1) # (c.keydown /\ c.code = "CAPSLOCK"))
      BY <1>1, <2>2, <3>1 DEF CodesChain, n
    <3> QED
      BY <2>4, <3>1, <3>2
  <2>8. down' = HeldAt(1)' \cap (Modifier \ {"CAPSLOCK"})
    BY <1>1, <2>3, <2>7 DEF FlagsLag, HeldAfter, Down
  <2>9. capslock' = CapsAt(1)'
    BY <1>1, <2>3, <2>7, Zenon DEF FlagsLag
  <2> QED
    BY <2>5, <2>6, <2>8, <2>9 DEF FlagsInv, FlagsLag
<1> QED
  BY <1>2, <1>3

LEMMA FlagsInvNext == FlagsInv /\ [Next]_vars => FlagsInv'
<1> SUFFICES ASSUME FlagsInv, [Next]_vars PROVE FlagsInv'
  OBVIOUS
<1>1. ASSUME UNCHANGED <<keys, held, capsLight, down, capslock>> PROVE FlagsInv'
  BY <1>1 DEF FlagsInv, CodesType, CodesChain, FlagsLag, HeldAt, CapsAt
<1>2. ASSUME NEW k \in Keys, press(k) \/ release(k) PROVE FlagsInv'
  BY <1>2, StrikeFlags
<1>3. CASE poll
  BY <1>3, PollFlags
<1>4. CASE input_notify \/ time \/ sem_wait \/ push_lock \/ push_write \/ push_signal
  BY <1>1, <1>4 DEF input_notify, time, sem_wait, push_lock, push_write, push_signal, keyboard
<1>5. ASSUME NEW r \in Reader, Read(r) PROVE FlagsInv'
  BY <1>1, <1>5 DEF Read, pop_wait, pop_lock, pop_take, keyboard
<1>6. CASE UNCHANGED vars
  BY <1>1, <1>6 DEF vars, keyboard
<1> QED
  BY <1>2, <1>3, <1>4, <1>5, <1>6 DEF Next, Daemon

LEMMA PollTypes ==
  ASSUME FlagsInv, poll, keys # <<>>, task' = "push"
  PROVE  LET k == Head(keys) IN
           /\ ev'.data.key = k.code
           /\ ev'.ctrl = ("LCTRL" \in k.with) /\ ev'.alt = ("RALT" \in k.with)
           /\ ~ev'.ctrl /\ ~ev'.alt =>
                (ev'.data.row = 1) = (Shift(k.with) # (k.code = Letter /\ k.caps))
<1> DEFINE k == Head(keys)
<1>1. task = "poll" /\ input_keydown(k)
  BY DEF poll
<1>2. ev' = EventOf(k.code)
  BY <1>1 DEF input_keydown
<1>3. keys \in Seq(KeyCode) /\ down = HeldAt(1) \cap (Modifier \ {"CAPSLOCK"}) /\ capslock = CapsAt(1)
  BY DEF FlagsInv, CodesType, FlagsLag
<1>4. Len(keys) \in Nat \ {0} /\ k = keys[1] /\ k \in KeyCode
  BY <1>3
<1>5. HeldAt(1) = k.with /\ CapsAt(1) = k.caps
  BY <1>4 DEF HeldAt, CapsAt
<1> HIDE DEF k
<1>6. down = k.with \cap (Modifier \ {"CAPSLOCK"}) /\ capslock = k.caps
  BY <1>3, <1>5
<1>7. /\ Ctrl(down) = ("LCTRL" \in k.with) /\ Alt(down) = ("RALT" \in k.with)
      /\ Shift(down) = Shift(k.with)
  BY <1>6 DEF Ctrl, Alt, Shift, Modifier
<1>8. CASE Ctrl(down) \/ Alt(down)
  <2>1. ev' = event(Ctrl(down), Alt(down), [key |-> k.code, row |-> 0])
    BY <1>2, <1>8 DEF EventOf
  <2>2. ev'.data.key = k.code /\ ev'.ctrl = Ctrl(down) /\ ev'.alt = Alt(down)
    BY <2>1 DEF event
  <2> QED
    BY <1>7, <1>8, <2>2 DEF k
<1>9. CASE ~(Ctrl(down) \/ Alt(down))
  <2> DEFINE shift == Shift(down) # (k.code = Letter /\ capslock)
  <2>1. ev' = event(FALSE, FALSE, [key |-> k.code, row |-> IF shift THEN 1 ELSE 0])
    BY <1>2, <1>9 DEF EventOf
  <2>2. ev'.data.key = k.code /\ ev'.ctrl = FALSE /\ ev'.alt = FALSE
        /\ ev'.data.row = IF shift THEN 1 ELSE 0
    BY <2>1 DEF event
  <2>3. shift = (Shift(k.with) # (k.code = Letter /\ k.caps))
    BY <1>6, <1>7
  <2>6. shift \in BOOLEAN
    OBVIOUS
  <2> HIDE DEF shift
  <2>4. (ev'.data.row = 1) = shift
    <3>1. CASE shift
      BY <2>2, <3>1
    <3>2. CASE ~shift
      <4>1. ev'.data.row = 0
        BY <2>2, <3>2
      <4> QED
        BY <3>2, <4>1, <2>6
    <3> QED
      BY <2>6, <3>1, <3>2
  <2>5. ev'.ctrl = ("LCTRL" \in k.with) /\ ev'.alt = ("RALT" \in k.with)
    <3>1. "LCTRL" \notin k.with /\ "RALT" \notin k.with
      BY <1>7, <1>9
    <3>2. ("LCTRL" \in k.with) = FALSE /\ ("RALT" \in k.with) = FALSE
      BY <3>1
    <3> QED
      BY <2>2, <3>2, Zenon
  <2> QED
    BY <2>2, <2>3, <2>4, <2>5 DEF k
<1> QED
  BY <1>8, <1>9

(* The event of a key is that of the modifiers that were down when it was  *)
(* pressed, however late the daemon takes its code (input_keydown): for    *)
(* any number of codes that wait.                                          *)
THEOREM KeysTyped == Spec => TypedAsPressed
<1> DEFINE Typed == keys # <<>> /\ keys' = Tail(keys) /\ task' = "push" =>
       LET k == Head(keys) IN
         /\ ev'.data.key = k.code
         /\ ev'.ctrl = ("LCTRL" \in k.with) /\ ev'.alt = ("RALT" \in k.with)
         /\ ~ev'.ctrl /\ ~ev'.alt =>
              (ev'.data.row = 1) = (Shift(k.with) # (k.code = Letter /\ k.caps))
<1>1. FlagsInv /\ [Next]_vars => [Typed]_vars
  <2> SUFFICES ASSUME FlagsInv, Next, keys # <<>>, keys' = Tail(keys), task' = "push" PROVE Typed
    OBVIOUS
  <2>1. keys \in Seq(KeyCode) /\ Tail(keys) \in Seq(KeyCode) /\ Len(Tail(keys)) = Len(keys) - 1
    BY DEF FlagsInv, CodesType
  <2>2. CASE poll
    BY <2>2, PollTypes
  <2>3. CASE UNCHANGED keys
    BY <2>1, <2>3
  <2>4. ASSUME NEW k \in Keys, press(k) \/ release(k) PROVE FALSE
    <3>1. PICK c \in KeyCode : keys' = Append(keys, c)
      BY <2>4 DEF press, release, FlagsInv, CodesType, KeyCode
    <3>2. PICK s \in Seq(KeyCode) : s = keys
      BY <2>1
    <3>4. Len(Append(s, c)) = Len(s) + 1
      OBVIOUS
    <3>5. Len(keys') = Len(keys) + 1
      BY <3>1, <3>2, <3>4
    <3>3. Len(keys) \in Nat /\ Len(keys') = Len(keys) - 1
      BY <2>1
    <3> QED
      BY <3>3, <3>5
  <2> QED
    BY <2>2, <2>3, <2>4 DEF Next, input_notify, Daemon, time, sem_wait, push_lock, push_write,
                            push_signal, Read, pop_wait, pop_lock, pop_take, keyboard
<1> QED
  BY FlagsInitInv, FlagsInvNext, <1>1, PTL DEF Spec, TypedAsPressed
=============================================================================
