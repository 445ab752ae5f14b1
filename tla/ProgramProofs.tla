--------------------------- MODULE ProgramProofs ---------------------------
(***************************************************************************)
(* Theorems about three programs that share nothing.                       *)
(*                                                                         *)
(* Libco: POOL has every coroutine once, every wake-up goes to who waits   *)
(* for it, and fd_next always finds a coroutine to run.                    *)
(*                                                                         *)
(* Crepl: a session that has loaded no library of another one prints the   *)
(* value of the expression just typed.                                     *)
(*                                                                         *)
(* Pstree: the second scan of /proc finds room for every process, unless   *)
(* more were created after the first than there are entries to spare.      *)
(***************************************************************************)
EXTENDS Libco, Crepl, Pstree, FiniteSetTheorems, WellFoundedInduction, TLAPS

----------------------------------------------------------------------------
(* Libco *)

Status == {"free", "NEW", "RUNNING", "WAITING", "DEAD"}
Gone   == {"free", "DEAD"}

CoType(st, w, t, h) ==
  /\ st \in [Co -> Status]
  /\ w \in [Co -> Co \cup {NULL}] /\ t \in [Co -> Co \cup {NULL}] /\ h \in [Co -> Co \cup {NULL}]

(* What the statuses st, waiters w, targets t and handles h of the         *)
(* coroutines have to do with each other.  A co_wait is for a coroutine    *)
(* whose owner the caller holds, so that no two wait for the same.        *)
Held(st, h) ==
  \A c \in Co : h[c] # NULL => h[c] # c /\ st[c] # "free" /\ st[h[c]] \notin Gone
Waits(st, w, t, h) ==
  /\ \A c \in Co : t[c] # NULL => st[c] \in {"RUNNING", "WAITING"} /\ h[t[c]] = c /\ w[t[c]] = c
  /\ \A c \in Co : st[c] = "WAITING" => t[c] # NULL /\ st[t[c]] # "DEAD"
  /\ \A c \in Co : st[c] = "RUNNING" /\ t[c] # NULL => st[t[c]] = "DEAD"
Wakes(st, w, t) ==
  \A c \in Co : st[c] \notin Gone /\ w[c] # NULL => st[w[c]] = "WAITING" /\ t[w[c]] = c

(* Handles lead from a coroutine to those started before it: among any     *)
(* coroutines there is one that holds none of the others.                  *)
Forest(h) == \A S \in SUBSET Co : S # {} => \E c \in S : \A d \in S : h[d] # c

Sound(st, w, t, h) ==
  /\ CoType(st, w, t, h)
  /\ st[co_main] \notin Gone
  /\ Held(st, h) /\ Waits(st, w, t, h) /\ Wakes(st, w, t) /\ Forest(h)

Pooled(p, st) ==
  /\ p \in [Slot -> Co \cup {NULL}]
  /\ \A c \in Co : st[c] # "free" => \E i \in Slot : p[i] = c
  /\ \A i, j \in Slot : p[i] # NULL => st[p[i]] # "free" /\ (p[i] = p[j] => i = j)

CoInv ==
  /\ Sound(status, waiter, target, owner)
  /\ Pooled(POOL, status)
  /\ id \in Slot /\ POOL[id] = current /\ current \in Co /\ status[current] = "RUNNING"

LEMMA Constants == MAXCO \in Nat \ {0} /\ co_main \in Co /\ NULL \notin Co /\ 0 \in Slot
  BY CoAssumption DEF Slot

LEMMA CoInitInv == Init => CoInv
<1> SUFFICES ASSUME Init PROVE CoInv
  OBVIOUS
<1>1. CoType(status, waiter, target, owner)
  BY Constants DEF Init, CoType, Status
<1>2. Held(status, owner) /\ Waits(status, waiter, target, owner)
  BY Constants DEF Init, Held, Waits
<1>3. Wakes(status, waiter, target) /\ status[co_main] \notin Gone
  BY Constants DEF Init, Wakes, Gone
<1>4. Forest(owner)
  BY Constants DEF Init, Forest
<1>5. Pooled(POOL, status)
  BY Constants DEF Init, Pooled
<1>6. id \in Slot /\ POOL[id] = current /\ current \in Co /\ status[current] = "RUNNING"
  BY Constants DEF Init
<1> QED
  BY <1>1, <1>2, <1>3, <1>4, <1>5, <1>6 DEF CoInv, Sound

(* The chosen coroutine is one that may run; it is RUNNING now. *)
LEMMA SwitchSound ==
  ASSUME NEW st, NEW w, NEW t, NEW h, NEW p, Sound(st, w, t, h), Pooled(p, st),
         NEW i \in Slot, p[i] # NULL, st[p[i]] \in {"RUNNING", "NEW"}
  PROVE  LET u == [st EXCEPT ![p[i]] = "RUNNING"]
         IN  Sound(u, w, t, h) /\ Pooled(p, u) /\ p[i] \in Co /\ u[p[i]] = "RUNNING"
<1> DEFINE e == p[i]
           u == [st EXCEPT ![e] = "RUNNING"]
<1>1. /\ CoType(st, w, t, h) /\ Held(st, h) /\ Waits(st, w, t, h) /\ Wakes(st, w, t) /\ Forest(h)
      /\ st[co_main] \notin Gone
  BY DEF Sound
<1>2. e \in Co /\ e # NULL /\ st \in [Co -> Status] /\ st[e] \in {"RUNNING", "NEW"}
  BY <1>1, Constants DEF Pooled, CoType
<1> HIDE DEF e
<1>3. u \in [Co -> Status] /\ u[e] = "RUNNING" /\ \A c \in Co : c # e => u[c] = st[c]
  BY <1>2 DEF Status
<1>4. \A c \in Co : /\ u[c] = "free" <=> st[c] = "free"
                    /\ u[c] = "DEAD" <=> st[c] = "DEAD"
                    /\ u[c] = "WAITING" <=> st[c] = "WAITING"
  BY <1>2, <1>3
<1> HIDE DEF u
<1>5. CoType(u, w, t, h)
  BY <1>1, <1>3 DEF CoType
<1>6. Held(u, h)
  BY <1>1, <1>4 DEF Held, CoType, Gone
<1>7. Waits(u, w, t, h)
  <2>1. \A c \in Co : t[c] # NULL => t[c] \in Co
    BY <1>1 DEF CoType
  <2>2. st[e] = "NEW" => t[e] = NULL
    BY <1>1, <1>2 DEF Waits
  <2>3. \A c \in Co : t[c] # NULL => u[c] \in {"RUNNING", "WAITING"} /\ h[t[c]] = c /\ w[t[c]] = c
    BY <1>1, <1>3 DEF Waits
  <2>4. \A c \in Co : u[c] = "WAITING" => t[c] # NULL /\ u[t[c]] # "DEAD"
    BY <1>1, <1>4, <2>1 DEF Waits
  <2>5. \A c \in Co : u[c] = "RUNNING" /\ t[c] # NULL => u[t[c]] = "DEAD"
    BY <1>1, <1>2, <1>3, <1>4, <2>1, <2>2 DEF Waits
  <2> QED
    BY <2>3, <2>4, <2>5 DEF Waits
<1>8. Wakes(u, w, t)
  BY <1>1, <1>4 DEF Wakes, CoType, Gone
<1>9. u[co_main] \notin Gone
  BY <1>1, <1>4, Constants DEF Gone
<1>10. Pooled(p, u)
  BY <1>4, Constants DEF Pooled
<1> QED
  BY <1>1, <1>2, <1>3, <1>5, <1>6, <1>7, <1>8, <1>9, <1>10 DEF Sound, e, u

LEMMA SwitchInv ==
  ASSUME NEW st, NEW w, NEW t, NEW h, Sound(st, w, t, h), Pooled(POOL, st), switch(st),
         waiter' = w, target' = t, owner' = h, POOL' = POOL
  PROVE  CoInv'
<1>1. PICK i \in Slot : /\ POOL[i] # NULL /\ st[POOL[i]] \in {"RUNNING", "NEW"}
                        /\ id' = i /\ current' = POOL[i]
                        /\ status' = [st EXCEPT ![POOL[i]] = "RUNNING"]
  BY DEF switch, fd_next, MayRun
<1>2. /\ Sound(status', w, t, h) /\ Pooled(POOL, status')
      /\ POOL[i] \in Co /\ status'[POOL[i]] = "RUNNING"
  BY <1>1, SwitchSound
<1> QED
  BY <1>1, <1>2 DEF CoInv

LEMMA YieldInv ==
  ASSUME CoInv, co_yield
  PROVE  CoInv'
  BY SwitchInv DEF CoInv, co_yield

LEMMA LeastElement ==
  ASSUME NEW X, X \subseteq Nat, X # {}
  PROVE  \E x \in X : \A y \in X : x <= y
<1>1. PICK x \in X : \A y \in X : ~ (<<y, x>> \in OpToRel(<, Nat))
  BY NatLessThanWellFounded, WFMin
<1>2. OpToRel(<, Nat) = {ss \in Nat \X Nat : ss[1] < ss[2]}
  BY DEF OpToRel
<1>3. ASSUME NEW y \in X PROVE x <= y
  <2>1. <<y, x>> \in Nat \X Nat /\ <<y, x>>[1] = y /\ <<y, x>>[2] = x
    OBVIOUS
  <2>2. <<y, x>> \notin {ss \in Nat \X Nat : ss[1] < ss[2]}
    BY <1>1, <1>2, Zenon
  <2>3. ~(y < x)
    BY <2>1, <2>2
  <2> QED
    BY <2>3
<1> QED
  BY <1>3

(* A coroutine that is not in POOL has a slot to go to: POOL would hold    *)
(* MAXCO others, and there are not so many.                                *)
LEMMA SlotLeft ==
  ASSUME NEW c \in Co, NEW p \in [Slot -> Co \cup {NULL}],
         \A i \in Slot : p[i] # c,
         \A i, j \in Slot : p[i] # NULL /\ p[i] = p[j] => i = j
  PROVE  \E i \in Slot : p[i] = NULL /\ \A j \in 0 .. i - 1 : p[j] # NULL
<1> DEFINE E == {i \in Slot : p[i] = NULL}
<1>1. E # {}
  <2> SUFFICES ASSUME E = {} PROVE FALSE
    OBVIOUS
  <2>1. p \in [Slot -> Co \ {c}]
    OBVIOUS
  <2>2. IsFiniteSet(Co) /\ Cardinality(Co) \in Nat /\ Cardinality(Co) <= MAXCO
    BY PoolAssumption, FS_CardinalityType
  <2>3. IsFiniteSet(Co \ {c}) /\ Cardinality(Co \ {c}) = Cardinality(Co) - 1
    BY <2>2, FS_RemoveElement
  <2>4. IsFiniteSet(Slot) /\ Cardinality(Slot) = MAXCO
    BY Constants, FS_Interval DEF Slot
  <2>5. Cardinality(Co \ {c}) < Cardinality(Slot)
    BY <2>2, <2>3, <2>4, Constants
  <2>6. PICK i \in Slot, j \in Slot : i # j /\ p[i] = p[j]
    BY <2>1, <2>3, <2>4, <2>5, FS_PigeonHole
  <2> QED
    BY <2>6
<1>2. E \subseteq Nat
  BY DEF Slot
<1>3. PICK i \in E : \A j \in E : i <= j
  BY <1>1, <1>2, LeastElement
<1>4. \A j \in 0 .. i - 1 : j \in Slot /\ ~(i <= j)
  BY Constants DEF Slot
<1> QED
  BY <1>3, <1>4

LEMMA StartInv ==
  ASSUME CoInv, NEW c \in Co, co_start(c)
  PROVE  CoInv'
<1>1. /\ CoType(status, waiter, target, owner) /\ status[co_main] \notin Gone
      /\ Held(status, owner) /\ Waits(status, waiter, target, owner)
      /\ Wakes(status, waiter, target) /\ Forest(owner)
      /\ Pooled(POOL, status)
      /\ id \in Slot /\ POOL[id] = current /\ current \in Co /\ status[current] = "RUNNING"
  BY DEF CoInv, Sound
<1>2. /\ status[c] = "free" /\ UNCHANGED <<id, current, target>>
      /\ status' = [status EXCEPT ![c] = "NEW"] /\ waiter' = [waiter EXCEPT ![c] = NULL]
      /\ owner' = [owner EXCEPT ![c] = current]
      /\ POOL' = [i \in Slot |-> IF i \in FirstFree THEN c ELSE POOL[i]]
  BY DEF co_start, Fresh
<1>3. c # current /\ c # NULL
  BY <1>1, <1>2, Constants
<1>4. /\ \A d \in Co : owner[d] # c
      /\ \A d \in Co : d = c => target[d] = NULL
      /\ \A d \in Co : target[d] # c
      /\ \A d \in Co : status[d] \notin Gone => waiter[d] # c
  BY <1>1, <1>2, <1>3, Constants DEF Held, Waits, Wakes, CoType, Gone
<1>5. CoType(status', waiter', target', owner')
  BY <1>1, <1>2 DEF CoType, Status
<1>6. Held(status', owner')
  BY <1>1, <1>2, <1>3, <1>4 DEF Held, CoType, Gone
<1>7. Waits(status', waiter', target', owner')
  <2>1. \A d \in Co : target[d] # NULL => target[d] \in Co
    BY <1>1 DEF CoType
  <2>2. ASSUME NEW d \in Co, target[d] # NULL
        PROVE  status'[d] \in {"RUNNING", "WAITING"} /\ owner'[target[d]] = d /\ waiter'[target[d]] = d
    BY <1>1, <1>2, <1>4, <2>1, <2>2 DEF Waits, CoType
  <2>3. ASSUME NEW d \in Co, status'[d] = "WAITING"
        PROVE  target[d] # NULL /\ status'[target[d]] # "DEAD"
    BY <1>1, <1>2, <1>4, <2>1, <2>3 DEF Waits, CoType
  <2>4. ASSUME NEW d \in Co, status'[d] = "RUNNING", target[d] # NULL
        PROVE  status'[target[d]] = "DEAD"
    BY <1>1, <1>2, <1>4, <2>1, <2>4 DEF Waits, CoType
  <2> QED
    BY <1>2, <2>2, <2>3, <2>4 DEF Waits
<1>8. Wakes(status', waiter', target')
  <2> SUFFICES ASSUME NEW d \in Co, status'[d] \notin Gone, waiter'[d] # NULL
               PROVE  status'[waiter'[d]] = "WAITING" /\ target[waiter'[d]] = d
    BY <1>2 DEF Wakes
  <2>1. d # c
    BY <1>1, <1>2 DEF CoType
  <2>2. waiter'[d] = waiter[d] /\ status'[d] = status[d] /\ waiter[d] \in Co
    BY <1>1, <1>2, <2>1 DEF CoType
  <2>3. status[waiter[d]] = "WAITING" /\ target[waiter[d]] = d /\ waiter[d] # c
    BY <1>1, <1>4, <2>2 DEF Wakes
  <2> QED
    BY <1>1, <1>2, <2>2, <2>3 DEF CoType
<1>9. Forest(owner')
  <2> SUFFICES ASSUME NEW S \in SUBSET Co, S # {}
               PROVE  \E a \in S : \A d \in S : owner'[d] # a
    BY DEF Forest
  <2>1. CASE c \in S
    <3>1. \A d \in S : owner'[d] # c
      BY <1>1, <1>2, <1>3, <1>4 DEF CoType
    <3> QED
      BY <2>1, <3>1
  <2>2. CASE c \notin S
    <3>1. \A d \in S : owner'[d] = owner[d]
      BY <1>1, <1>2, <2>2 DEF CoType
    <3> QED
      BY <1>1, <3>1 DEF Forest
  <2> QED
    BY <2>1, <2>2
<1>10. status'[co_main] \notin Gone /\ status'[current] = "RUNNING"
  BY <1>1, <1>2, <1>3, Constants DEF CoType, Gone
<1>11. PICK k \in Slot : FirstFree = {k} /\ POOL[k] = NULL
  <2>1. POOL \in [Slot -> Co \cup {NULL}] /\ \A i \in Slot : POOL[i] # c
    BY <1>1, <1>2, <1>3 DEF Pooled
  <2>2. \A i, j \in Slot : POOL[i] # NULL /\ POOL[i] = POOL[j] => i = j
    BY <1>1 DEF Pooled
  <2>3. PICK k \in Slot : POOL[k] = NULL /\ \A j \in 0 .. k - 1 : POOL[j] # NULL
    BY <2>1, <2>2, SlotLeft
  <2>4. ASSUME NEW m \in Slot, POOL[m] = NULL, \A j \in 0 .. m - 1 : POOL[j] # NULL PROVE m = k
    BY <2>3, <2>4 DEF Slot
  <2> QED
    BY <2>3, <2>4 DEF FirstFree
<1>12. POOL' = [POOL EXCEPT ![k] = c] /\ POOL \in [Slot -> Co \cup {NULL}]
  BY <1>1, <1>2, <1>11 DEF Pooled
<1>13. \A i \in Slot : POOL'[i] = IF i = k THEN c ELSE POOL[i]
  BY <1>12
<1>14. Pooled(POOL', status')
  <2>1. POOL' \in [Slot -> Co \cup {NULL}]
    BY <1>12
  <2>2. ASSUME NEW d \in Co, status'[d] # "free" PROVE \E i \in Slot : POOL'[i] = d
    <3>1. CASE d = c
      BY <1>13, <3>1
    <3>2. CASE d # c
      <4>1. status[d] # "free"
        BY <1>1, <1>2, <2>2, <3>2 DEF CoType
      <4>2. PICK i \in Slot : POOL[i] = d
        BY <1>1, <4>1 DEF Pooled
      <4>3. i # k
        BY <1>11, <4>2, Constants
      <4> QED
        BY <1>13, <4>2, <4>3
    <3> QED
      BY <3>1, <3>2
  <2>3. ASSUME NEW i \in Slot, POOL'[i] # NULL PROVE status'[POOL'[i]] # "free"
    <3>1. CASE i = k
      BY <1>1, <1>2, <1>13, <3>1 DEF CoType
    <3>2. CASE i # k
      <4>1. POOL'[i] = POOL[i] /\ POOL[i] \in Co /\ status[POOL[i]] # "free" /\ POOL[i] # c
        BY <1>1, <1>2, <1>13, <2>3, <3>2 DEF Pooled
      <4> QED
        BY <1>1, <1>2, <4>1 DEF CoType
    <3> QED
      BY <3>1, <3>2
  <2>4. ASSUME NEW i \in Slot, NEW j \in Slot, POOL'[i] # NULL, POOL'[i] = POOL'[j] PROVE i = j
    <3>1. \A m \in Slot : POOL[m] # c
      BY <1>1, <1>2, <1>3 DEF Pooled
    <3> QED
      BY <1>1, <1>13, <2>4, <3>1 DEF Pooled
  <2> QED
    BY <2>1, <2>2, <2>3, <2>4 DEF Pooled
<1>15. id' \in Slot /\ POOL'[id'] = current' /\ current' \in Co
  <2>1. id # k
    BY <1>1, <1>11, Constants
  <2> QED
    BY <1>1, <1>2, <1>13, <2>1
<1> QED
  BY <1>2, <1>5, <1>6, <1>7, <1>8, <1>9, <1>10, <1>14, <1>15 DEF CoInv, Sound

(* The end of a co_wait: the coroutine waited for is dead, and freed. *)
LEMMA FreeInv ==
  ASSUME CoInv, NEW c \in Co, status[c] = "DEAD", owner[c] = current,
         target[current] \in {NULL, c},
         status' = [status EXCEPT ![c] = "free"],
         target' = [target EXCEPT ![current] = NULL],
         owner' = [owner EXCEPT ![c] = NULL],
         waiter' = waiter \/ waiter' = [waiter EXCEPT ![c] = current],
         POOL' = Removed(c), UNCHANGED <<id, current>>
  PROVE  CoInv'
<1>1. /\ CoType(status, waiter, target, owner) /\ status[co_main] \notin Gone
      /\ Held(status, owner) /\ Waits(status, waiter, target, owner)
      /\ Wakes(status, waiter, target) /\ Forest(owner)
      /\ Pooled(POOL, status)
      /\ id \in Slot /\ POOL[id] = current /\ current \in Co /\ status[current] = "RUNNING"
  BY DEF CoInv, Sound
<1>2. c # current /\ c # co_main /\ NULL \notin Co
  BY <1>1, Constants DEF Gone
<1>3. \A d \in Co : /\ d # c => status'[d] = status[d] /\ owner'[d] = owner[d] /\ waiter'[d] = waiter[d]
                    /\ d # current => target'[d] = target[d]
  BY <1>1 DEF CoType
<1>4. status'[c] = "free" /\ owner'[c] = NULL /\ target'[current] = NULL
  BY <1>1 DEF CoType
<1>5. \A d \in Co : /\ owner[d] # c
                    /\ target[d] = c => d = current
                    /\ status[d] \notin Gone => waiter[d] # c /\ waiter[d] # current
                    /\ target[d] # NULL => target[d] \in Co
                    /\ waiter[d] # NULL => waiter[d] \in Co
                    /\ owner[d] # NULL => owner[d] \in Co
  BY <1>1, <1>2 DEF Held, Waits, Wakes, CoType, Gone
<1>6. CoType(status', waiter', target', owner')
  BY <1>1 DEF CoType, Status
<1>7. Held(status', owner')
  BY <1>1, <1>3, <1>4, <1>5 DEF Held
<1>8. Waits(status', waiter', target', owner')
  <2>1. \A d \in Co : target'[d] # NULL => d # current /\ target'[d] = target[d] /\ target[d] # c
    BY <1>3, <1>4, <1>5
  <2>2. \A d \in Co : target'[d] # NULL => d # c
    BY <1>1, <2>1 DEF Waits
  <2>3. \A d \in Co : target'[d] # NULL =>
          status'[d] \in {"RUNNING", "WAITING"} /\ owner'[target'[d]] = d /\ waiter'[target'[d]] = d
    BY <1>1, <1>3, <1>5, <2>1, <2>2 DEF Waits
  <2>4. \A d \in Co : status'[d] = "WAITING" => target'[d] # NULL /\ status'[target'[d]] # "DEAD"
    <3> SUFFICES ASSUME NEW d \in Co, status'[d] = "WAITING"
                 PROVE  target'[d] # NULL /\ status'[target'[d]] # "DEAD"
      OBVIOUS
    <3>1. d # c /\ status[d] = "WAITING" /\ d # current
      BY <1>1, <1>3, <1>4
    <3> QED
      BY <1>1, <1>3, <1>5, <3>1 DEF Waits
  <2>5. \A d \in Co : status'[d] = "RUNNING" /\ target'[d] # NULL => status'[target'[d]] = "DEAD"
    BY <1>1, <1>3, <1>4, <1>5, <2>1, <2>2 DEF Waits
  <2> QED
    BY <2>3, <2>4, <2>5 DEF Waits
<1>9. Wakes(status', waiter', target')
  <2> SUFFICES ASSUME NEW d \in Co, status'[d] \notin Gone, waiter'[d] # NULL
               PROVE  status'[waiter'[d]] = "WAITING" /\ target'[waiter'[d]] = d
    BY DEF Wakes
  <2>1. d # c /\ status[d] \notin Gone /\ waiter'[d] = waiter[d]
    BY <1>3, <1>4 DEF Gone
  <2>2. waiter[d] \in Co /\ waiter[d] # c /\ waiter[d] # current
    BY <1>5, <2>1
  <2> QED
    BY <1>1, <1>3, <2>1, <2>2 DEF Wakes
<1>10. Forest(owner')
  <2> SUFFICES ASSUME NEW S \in SUBSET Co, S # {}
               PROVE  \E a \in S : \A d \in S : owner'[d] # a
    BY DEF Forest
  <2>1. PICK a \in S : \A d \in S : owner[d] # a
    BY <1>1 DEF Forest
  <2>2. \A d \in S : owner'[d] # a
    BY <1>2, <1>3, <1>4, <2>1
  <2> QED
    BY <2>2
<1>11. status'[co_main] \notin Gone /\ status'[current] = "RUNNING"
  BY <1>1, <1>2, <1>3, Constants
<1>12. PICK k \in Slot : POOL[k] = c /\ \A i \in Slot : POOL[i] = c => i = k
  BY <1>1, Constants DEF Pooled
<1>13. POOL' = [i \in Slot |-> IF i = k THEN NULL ELSE POOL[i]]
  <2>1. {i \in Slot : POOL[i] = c} = {k}
    BY <1>12
  <2>2. k <= k
    BY DEF Slot
  <2> QED
    BY <2>1, <2>2 DEF Removed
<1>14. \A i \in Slot : POOL'[i] = IF i = k THEN NULL ELSE POOL[i]
  BY <1>13
<1>15. Pooled(POOL', status')
  <2>1. POOL' \in [Slot -> Co \cup {NULL}]
    BY <1>1, <1>13 DEF Pooled
  <2>2. ASSUME NEW d \in Co, status'[d] # "free" PROVE \E i \in Slot : POOL'[i] = d
    <3>1. d # c /\ status[d] # "free"
      BY <1>3, <1>4, <2>2
    <3>2. PICK i \in Slot : POOL[i] = d
      BY <1>1, <3>1 DEF Pooled
    <3> QED
      BY <1>12, <1>14, <3>1, <3>2
  <2>3. ASSUME NEW i \in Slot, POOL'[i] # NULL PROVE status'[POOL'[i]] # "free"
    <3>1. i # k /\ POOL'[i] = POOL[i] /\ POOL[i] # c
      BY <1>12, <1>14, <2>3
    <3>2. POOL[i] \in Co /\ status[POOL[i]] # "free"
      BY <1>1, <2>3, <3>1 DEF Pooled
    <3> QED
      BY <1>3, <3>1, <3>2
  <2>4. ASSUME NEW i \in Slot, NEW j \in Slot, POOL'[i] # NULL, POOL'[i] = POOL'[j] PROVE i = j
    BY <1>1, <1>14, <2>4 DEF Pooled
  <2> QED
    BY <2>1, <2>2, <2>3, <2>4 DEF Pooled
<1>16. id' \in Slot /\ POOL'[id'] = current' /\ current' \in Co
  <2>1. id # k
    BY <1>1, <1>2, <1>12
  <2> QED
    BY <1>1, <1>14, <2>1
<1> QED
  BY <1>6, <1>7, <1>8, <1>9, <1>10, <1>11, <1>15, <1>16 DEF CoInv, Sound

LEMMA WaitInv ==
  ASSUME CoInv, NEW c \in Co, co_wait(c)
  PROVE  CoInv'
<1> DEFINE st == [status EXCEPT ![current] = "WAITING"]
           w  == [waiter EXCEPT ![c] = current]
           t  == [target EXCEPT ![current] = c]
<1>1. /\ CoType(status, waiter, target, owner) /\ status[co_main] \notin Gone
      /\ Held(status, owner) /\ Waits(status, waiter, target, owner)
      /\ Wakes(status, waiter, target) /\ Forest(owner)
      /\ Pooled(POOL, status)
      /\ id \in Slot /\ POOL[id] = current /\ current \in Co /\ status[current] = "RUNNING"
  BY DEF CoInv, Sound
<1>2. target[current] = NULL /\ owner[c] = current /\ waiter' = w /\ await(c, st)
  BY DEF co_wait, InCode
<1>3. c # current /\ status[c] # "free" /\ current # NULL /\ NULL \notin Co
  BY <1>1, <1>2, Constants DEF Held
<1>4. /\ st \in [Co -> Status] /\ st[current] = "WAITING"
      /\ \A d \in Co : d # current => st[d] = status[d]
  BY <1>1 DEF CoType, Status
<1>5. CASE status[c] = "DEAD"
  <2>1. /\ POOL' = Removed(c) /\ status' = [st EXCEPT ![c] = "free", ![current] = "RUNNING"]
        /\ target' = [target EXCEPT ![current] = NULL] /\ owner' = [owner EXCEPT ![c] = NULL]
        /\ UNCHANGED <<id, current>>
    BY <1>2, <1>3, <1>4, <1>5 DEF await
  <2>2. status' = [status EXCEPT ![c] = "free"]
    BY <1>1, <1>3, <2>1 DEF CoType
  <2> QED
    BY <1>2, <1>5, <2>1, <2>2, FreeInv
<1>6. CASE status[c] # "DEAD"
  <2>1. switch(st) /\ target' = t /\ UNCHANGED <<POOL, owner>>
    BY <1>2, <1>3, <1>4, <1>6 DEF await
  <2>2. /\ w \in [Co -> Co \cup {NULL}] /\ w[c] = current /\ \A d \in Co : d # c => w[d] = waiter[d]
        /\ t \in [Co -> Co \cup {NULL}] /\ t[current] = c /\ \A d \in Co : d # current => t[d] = target[d]
    BY <1>1 DEF CoType
  <2>3. \A d \in Co : /\ owner[d] # NULL => owner[d] \in Co
                      /\ target[d] # NULL => target[d] \in Co /\ target[d] # c
                      /\ waiter[d] # NULL => waiter[d] \in Co
                      /\ status[d] \notin Gone => waiter[d] # current
    BY <1>1, <1>2, <1>3 DEF CoType, Waits, Wakes
  <2> HIDE DEF st, w, t
  <2>4. CoType(st, w, t, owner)
    BY <1>1, <1>4, <2>2 DEF CoType
  <2>5. Held(st, owner) /\ st[co_main] \notin Gone
    BY <1>1, <1>4, <2>3, Constants DEF Held, Gone
  <2>6. Waits(st, w, t, owner)
    <3>1. \A d \in Co : t[d] # NULL => st[d] \in {"RUNNING", "WAITING"} /\ owner[t[d]] = d /\ w[t[d]] = d
      BY <1>1, <1>2, <1>3, <1>4, <2>2, <2>3 DEF Waits
    <3>2. \A d \in Co : st[d] = "WAITING" => t[d] # NULL /\ st[t[d]] # "DEAD"
      BY <1>1, <1>3, <1>4, <1>6, <2>2, <2>3 DEF Waits
    <3>3. \A d \in Co : st[d] = "RUNNING" /\ t[d] # NULL => st[t[d]] = "DEAD"
      <4> SUFFICES ASSUME NEW d \in Co, st[d] = "RUNNING", t[d] # NULL PROVE st[t[d]] = "DEAD"
        OBVIOUS
      <4>1. d # current /\ status[d] = "RUNNING" /\ t[d] = target[d] /\ target[d] \in Co
        BY <1>4, <2>2, <2>3
      <4>2. status[target[d]] = "DEAD" /\ target[d] # current
        BY <1>1, <4>1, <2>2 DEF Waits
      <4> QED
        BY <1>4, <4>1, <4>2
    <3> QED
      BY <3>1, <3>2, <3>3 DEF Waits
  <2>7. Wakes(st, w, t)
    <3> SUFFICES ASSUME NEW d \in Co, st[d] \notin Gone, w[d] # NULL
                 PROVE  st[w[d]] = "WAITING" /\ t[w[d]] = d
      BY DEF Wakes
    <3>1. CASE d = c
      BY <1>4, <2>2, <3>1
    <3>2. CASE d # c
      <4>1. w[d] = waiter[d] /\ status[d] \notin Gone /\ waiter[d] \in Co /\ waiter[d] # current
        BY <1>1, <1>4, <2>2, <2>3, <3>2 DEF Gone
      <4> QED
        BY <1>1, <1>4, <2>2, <4>1 DEF Wakes
    <3> QED
      BY <3>1, <3>2
  <2>8. Sound(st, w, t, owner)
    BY <1>1, <2>4, <2>5, <2>6, <2>7 DEF Sound
  <2>9. Pooled(POOL, st)
    <3>1. \A d \in Co : st[d] = "free" <=> status[d] = "free"
      BY <1>1, <1>4
    <3> QED
      BY <1>1, <3>1, Constants DEF Pooled
  <2> QED
    BY <1>2, <2>1, <2>8, <2>9, SwitchInv
<1> QED
  BY <1>5, <1>6

(* co_yield has returned because the coroutine waited for is dead. *)
LEMMA WaitLoopInv ==
  ASSUME CoInv, co_wait_loop
  PROVE  CoInv'
<1> DEFINE c == target[current]
<1>1. /\ CoType(status, waiter, target, owner) /\ Waits(status, waiter, target, owner)
      /\ Held(status, owner) /\ current \in Co /\ status[current] = "RUNNING"
  BY DEF CoInv, Sound
<1>2. c # NULL /\ await(c, status) /\ waiter' = waiter
  BY DEF co_wait_loop
<1>3. c \in Co /\ status[c] = "DEAD" /\ owner[c] = current /\ c # current
  BY <1>1, <1>2 DEF CoType, Waits
<1>4. /\ POOL' = Removed(c) /\ status' = [status EXCEPT ![c] = "free", ![current] = "RUNNING"]
      /\ target' = [target EXCEPT ![current] = NULL] /\ owner' = [owner EXCEPT ![c] = NULL]
      /\ UNCHANGED <<id, current>>
  BY <1>2, <1>3 DEF await
<1>5. status' = [status EXCEPT ![c] = "free"]
  BY <1>1, <1>3, <1>4 DEF CoType
<1> QED
  BY <1>2, <1>3, <1>4, <1>5, FreeInv

LEMMA ExitInv ==
  ASSUME CoInv, co_exit
  PROVE  CoInv'
<1> DEFINE dead == [status EXCEPT ![current] = "DEAD"]
           st   == Woken(dead)
           h    == [c \in Co |-> IF owner[c] = current THEN NULL ELSE owner[c]]
<1>1. /\ CoType(status, waiter, target, owner) /\ status[co_main] \notin Gone
      /\ Held(status, owner) /\ Waits(status, waiter, target, owner)
      /\ Wakes(status, waiter, target) /\ Forest(owner)
      /\ Pooled(POOL, status)
      /\ id \in Slot /\ POOL[id] = current /\ current \in Co /\ status[current] = "RUNNING"
  BY DEF CoInv, Sound
<1>2. /\ target[current] = NULL /\ current # co_main /\ switch(st) /\ owner' = h
      /\ UNCHANGED <<POOL, waiter, target>>
  BY DEF co_exit, InCode
<1>3. current # NULL /\ NULL \notin Co
  BY <1>1, Constants
<1>4. waiter[current] # NULL => /\ waiter[current] \in Co /\ status[waiter[current]] = "WAITING"
                                /\ target[waiter[current]] = current /\ waiter[current] # current
  BY <1>1 DEF CoType, Wakes, Gone
(* The one that waits for current, if any, runs again. *)
<1>5. /\ st \in [Co -> Status] /\ st[current] = "DEAD"
      /\ \A d \in Co : d # current =>
           st[d] = IF target[d] = current /\ status[d] = "WAITING" THEN "RUNNING" ELSE status[d]
  <2>1. dead \in [Co -> Status] /\ dead[current] = "DEAD" /\ \A d \in Co : d # current => dead[d] = status[d]
    BY <1>1 DEF CoType, Status
  <2> HIDE DEF dead
  <2>2. CASE waiter[current] = NULL
    <3>1. st = dead
      BY <2>2 DEF Woken
    <3>2. \A d \in Co : ~(target[d] = current /\ status[d] = "WAITING")
      BY <1>1, <1>3, <2>2 DEF Waits
    <3> QED
      BY <2>1, <3>1, <3>2
  <2>3. CASE waiter[current] # NULL
    <3>1. st = [dead EXCEPT ![waiter[current]] = "RUNNING"]
      BY <2>3 DEF Woken
    <3>2. \A d \in Co : target[d] = current => d = waiter[current]
      BY <1>1, <1>3 DEF Waits
    <3> QED
      BY <1>4, <2>1, <2>3, <3>1, <3>2 DEF Status
  <2> QED
    BY <2>2, <2>3
<1> HIDE DEF st
<1>6. /\ h \in [Co -> Co \cup {NULL}]
      /\ \A c \in Co : h[c] # NULL => h[c] = owner[c] /\ owner[c] # current
      /\ \A c \in Co : owner[c] # current => h[c] = owner[c]
  BY <1>1 DEF CoType
<1> HIDE DEF h
<1>7. CoType(st, waiter, target, h)
  BY <1>1, <1>5, <1>6 DEF CoType
<1>8. \A d \in Co : /\ st[d] = "free" <=> status[d] = "free"
                    /\ d # current => (st[d] = "DEAD" <=> status[d] = "DEAD")
  BY <1>1, <1>5
<1>9. Held(st, h) /\ st[co_main] \notin Gone
  <2>1. \A c \in Co : owner[c] # NULL => owner[c] \in Co
    BY <1>1 DEF CoType
  <2>2. Held(st, h)
    BY <1>1, <1>6, <1>8, <2>1 DEF Held, Gone
  <2> QED
    BY <1>1, <1>2, <1>8, <2>2, Constants DEF Gone
<1>10. \A d \in Co : target[d] # NULL => target[d] \in Co /\ d # current
  BY <1>1, <1>2 DEF CoType
<1>11. Waits(st, waiter, target, h)
  <2>1. ASSUME NEW d \in Co, target[d] # NULL
        PROVE  st[d] \in {"RUNNING", "WAITING"} /\ h[target[d]] = d /\ waiter[target[d]] = d
    BY <1>1, <1>5, <1>6, <1>10, <2>1 DEF Waits
  <2>2. ASSUME NEW d \in Co, st[d] = "WAITING"
        PROVE  target[d] # NULL /\ st[target[d]] # "DEAD"
    <3>1. d # current /\ status[d] = "WAITING" /\ target[d] # current
      BY <1>1, <1>5, <2>2
    <3> QED
      BY <1>1, <1>8, <1>10, <3>1 DEF Waits
  <2>3. ASSUME NEW d \in Co, st[d] = "RUNNING", target[d] # NULL
        PROVE  st[target[d]] = "DEAD"
    <3>1. d # current /\ target[d] \in Co
      BY <1>10, <2>3
    <3>2. CASE target[d] = current
      BY <1>5, <3>2
    <3>3. CASE target[d] # current
      <4>1. status[d] = "RUNNING"
        BY <1>5, <2>3, <3>1, <3>3
      <4> QED
        BY <1>1, <1>8, <2>3, <3>1, <3>3, <4>1 DEF Waits
    <3> QED
      BY <3>2, <3>3
  <2> QED
    BY <2>1, <2>2, <2>3 DEF Waits
<1>12. Wakes(st, waiter, target)
  <2> SUFFICES ASSUME NEW d \in Co, st[d] \notin Gone, waiter[d] # NULL
               PROVE  st[waiter[d]] = "WAITING" /\ target[waiter[d]] = d
    BY DEF Wakes
  <2>1. d # current /\ status[d] \notin Gone
    BY <1>5, <1>8 DEF Gone
  <2>2. waiter[d] \in Co /\ status[waiter[d]] = "WAITING" /\ target[waiter[d]] = d
    BY <1>1, <2>1 DEF Wakes, CoType
  <2> QED
    BY <1>1, <1>5, <2>1, <2>2
<1>13. Forest(h)
  <2> SUFFICES ASSUME NEW S \in SUBSET Co, S # {}
               PROVE  \E a \in S : \A d \in S : h[d] # a
    BY DEF Forest
  <2>1. PICK a \in S : \A d \in S : owner[d] # a
    BY <1>1 DEF Forest
  <2>2. \A d \in S : h[d] # a
    BY <1>3, <1>6, <2>1
  <2> QED
    BY <2>2
<1>14. Sound(st, waiter, target, h)
  BY <1>7, <1>9, <1>11, <1>12, <1>13 DEF Sound
<1>15. Pooled(POOL, st)
  BY <1>1, <1>8, Constants DEF Pooled
<1> QED
  BY <1>2, <1>14, <1>15, SwitchInv

LEMMA CoInvNext == CoInv /\ [Next]_vars => CoInv'
<1> SUFFICES ASSUME CoInv, [Next]_vars PROVE CoInv'
  OBVIOUS
<1>1. CASE UNCHANGED vars
  BY <1>1 DEF vars, CoInv
<1> QED
  BY <1>1, YieldInv, StartInv, WaitInv, WaitLoopInv, ExitInv DEF Next

LEMMA CoInvariant == Spec => []CoInv
  BY CoInitInv, CoInvNext, PTL DEF Spec

(* POOL has every coroutine that is not freed in one slot and no freed one *)
(* (co_start, co_wait), and the slot fd_next stopped at is the running     *)
(* coroutine's: for any number of coroutines no larger than POOL.          *)
THEOREM PoolKept == Spec => []PoolExact
<1>1. CoInv => PoolExact
  <2> SUFFICES ASSUME CoInv PROVE PoolExact
    OBVIOUS
  <2>1. Pooled(POOL, status) /\ POOL[id] = current /\ status[current] = "RUNNING"
    BY DEF CoInv
  <2>2. \A c \in Known : \E i \in Slot : POOL[i] = c
    BY <2>1 DEF Pooled, Known
  <2>3. \A i, j \in Slot : POOL[i] # NULL => POOL[i] \in Known /\ (POOL[i] = POOL[j] => i = j)
    BY <2>1 DEF Pooled, Known
  <2> QED
    BY <2>1, <2>2, <2>3 DEF PoolExact
<1> QED
  BY CoInvariant, <1>1, PTL

(* A coroutine in co_wait is woken by the death it waits for and by none   *)
(* other, and goes round the loop of co_wait once (co_wait, co_yield).     *)
THEOREM WaitersWoken == Spec => []WaiterSound
<1>1. CoInv => WaiterSound
  <2> SUFFICES ASSUME CoInv PROVE WaiterSound
    OBVIOUS
  <2>1. /\ CoType(status, waiter, target, owner) /\ Held(status, owner)
        /\ Waits(status, waiter, target, owner) /\ Wakes(status, waiter, target)
        /\ current \in Co /\ status[current] = "RUNNING"
    BY DEF CoInv, Sound
  <2>2. \A c \in Known : status[c] = "WAITING" =>
          target[c] \in Known /\ waiter[target[c]] = c /\ status[target[c]] # "DEAD"
    <3> SUFFICES ASSUME NEW c \in Known, status[c] = "WAITING"
                 PROVE  target[c] \in Known /\ waiter[target[c]] = c /\ status[target[c]] # "DEAD"
      OBVIOUS
    <3>1. /\ c \in Co /\ target[c] \in Co /\ owner[target[c]] = c
          /\ waiter[target[c]] = c /\ status[target[c]] # "DEAD"
      BY <2>1 DEF Known, Waits, CoType
    <3> QED
      BY <2>1, <3>1, Constants DEF Held, Known
  <2>3. \A c \in Known : status[c] # "DEAD" /\ waiter[c] # NULL =>
          status[waiter[c]] = "WAITING" /\ target[waiter[c]] = c
    BY <2>1 DEF Wakes, Known, Gone
  <2>4. target[current] # NULL => status[target[current]] = "DEAD"
    BY <2>1 DEF Waits
  <2> QED
    BY <2>2, <2>3, <2>4 DEF WaiterSound
<1> QED
  BY CoInvariant, <1>1, PTL

(* Statuses with which nobody may run leave every coroutine that waits a   *)
(* coroutine to wait for that waits as well: the forest has no leaf.       *)
LEMMA SomeoneRuns ==
  ASSUME CoInv, NEW st \in [Co -> Status], NEW m \in Co, st[m] = "WAITING",
         \A d \in Co : st[d] # "free" <=> status[d] # "free",
         \A d \in Co : st[d] = "WAITING" =>
           \E c \in Co : owner[c] = d /\ st[c] \notin Gone
  PROVE  \E i \in Slot : MayRun(st, i)
<1> SUFFICES ASSUME \A i \in Slot : ~MayRun(st, i) PROVE FALSE
  OBVIOUS
<1> DEFINE S == {d \in Co : st[d] = "WAITING"}
<1>1. Pooled(POOL, status) /\ Forest(owner)
  BY DEF CoInv, Sound
<1>2. ASSUME NEW d \in Co, st[d] \notin Gone PROVE d \in S
  <2>1. PICK i \in Slot : POOL[i] = d
    BY <1>1, <1>2 DEF Pooled, Gone
  <2>2. ~(st[d] \in {"RUNNING", "NEW"})
    BY <2>1, Constants DEF MayRun
  <2> QED
    BY <1>2, <2>2 DEF Status, Gone
<1>3. S \in SUBSET Co /\ S # {}
  OBVIOUS
<1>4. PICK a \in S : \A d \in S : owner[d] # a
  BY <1>1, <1>3 DEF Forest
<1>5. PICK c \in Co : owner[c] = a /\ st[c] \notin Gone
  BY <1>4
<1> QED
  BY <1>2, <1>4, <1>5

(* When a coroutine starts to wait or ends there is one that may run, so   *)
(* that fd_next returns (co_wait, co_yield): whatever the program starts   *)
(* and waits for.                                                          *)
THEOREM AlwaysOneToRun == Spec => []NoHang
<1>1. CoInv => NoHang
  <2> SUFFICES ASSUME CoInv, InCode PROVE NoHang
    BY DEF NoHang
  <2>1. /\ CoType(status, waiter, target, owner) /\ status[co_main] \notin Gone
        /\ Held(status, owner) /\ Waits(status, waiter, target, owner)
        /\ Wakes(status, waiter, target) /\ NULL \notin Co /\ co_main \in Co
        /\ current \in Co /\ status[current] = "RUNNING" /\ target[current] = NULL
    BY Constants DEF CoInv, Sound, InCode
  <2>2. ASSUME NEW d \in Co, status[d] = "WAITING"
        PROVE  /\ target[d] \in Co /\ owner[target[d]] = d /\ status[target[d]] \notin Gone
               /\ waiter[target[d]] = d
    BY <2>1, <2>2 DEF Waits, CoType, Held, Gone
  <2>3. ASSUME NEW c \in Co, owner[c] = current, status[c] # "DEAD"
        PROVE  \E i \in Slot : MayRun([status EXCEPT ![current] = "WAITING"], i)
    <3> DEFINE st == [status EXCEPT ![current] = "WAITING"]
    <3>1. /\ st \in [Co -> Status] /\ st[current] = "WAITING"
          /\ \A d \in Co : d # current => st[d] = status[d]
      BY <2>1 DEF CoType, Status
    <3>2. c # current /\ status[c] # "free"
      BY <2>1, <2>3 DEF Held
    <3> HIDE DEF st
    <3>3. \A d \in Co : st[d] # "free" <=> status[d] # "free"
      BY <2>1, <3>1
    <3>4. ASSUME NEW d \in Co, st[d] = "WAITING" PROVE \E e \in Co : owner[e] = d /\ st[e] \notin Gone
      <4>1. CASE d = current
        BY <2>3, <3>1, <3>2, <4>1 DEF Gone
      <4>2. CASE d # current
        <5>1. status[d] = "WAITING"
          BY <3>1, <3>4, <4>2
        <5>2. target[d] \in Co /\ owner[target[d]] = d /\ st[target[d]] \notin Gone
          BY <2>2, <3>1, <5>1 DEF Gone
        <5> QED
          BY <5>2
      <4> QED
        BY <4>1, <4>2
    <3>5. \E i \in Slot : MayRun(st, i)
      BY <2>1, <3>1, <3>3, <3>4, SomeoneRuns
    <3> QED
      BY <3>5 DEF st
  <2>4. ASSUME current # co_main
        PROVE  \E i \in Slot : MayRun(Woken([status EXCEPT ![current] = "DEAD"]), i)
    <3> DEFINE dead == [status EXCEPT ![current] = "DEAD"]
               st == Woken(dead)
    <3>1. dead \in [Co -> Status] /\ dead[current] = "DEAD" /\ \A d \in Co : d # current => dead[d] = status[d]
      BY <2>1 DEF CoType, Status
    <3> HIDE DEF dead
    <3>2. waiter[current] # NULL => /\ waiter[current] \in Co /\ status[waiter[current]] = "WAITING"
                                    /\ waiter[current] # current
      BY <2>1 DEF CoType, Wakes, Gone
    <3>3. /\ st \in [Co -> Status] /\ st[current] = "DEAD"
          /\ \A d \in Co : d # current => st[d] = IF d = waiter[current] THEN "RUNNING" ELSE status[d]
      <4>1. CASE waiter[current] = NULL
        BY <2>1, <3>1, <4>1 DEF Woken
      <4>2. CASE waiter[current] # NULL
        BY <3>1, <3>2, <4>2 DEF Woken, Status
      <4> QED
        BY <4>1, <4>2
    <3> HIDE DEF st
    <3>4. \A d \in Co : st[d] # "free" <=> status[d] # "free"
      BY <2>1, <3>2, <3>3
    <3>5. ASSUME NEW d \in Co, st[d] = "WAITING" PROVE \E e \in Co : owner[e] = d /\ st[e] \notin Gone
      <4>1. d # current /\ status[d] = "WAITING" /\ d # waiter[current]
        BY <2>1, <3>3, <3>5
      <4>2. target[d] \in Co /\ owner[target[d]] = d /\ status[target[d]] \notin Gone /\ target[d] # current
        BY <2>2, <4>1
      <4>3. st[target[d]] \notin Gone
        BY <3>3, <4>2 DEF Gone
      <4> QED
        BY <4>2, <4>3
    <3>6. \E i \in Slot : MayRun(st, i)
      <4>1. st[co_main] \notin Gone
        BY <2>1, <2>4, <3>3 DEF Gone
      <4>2. CASE st[co_main] = "WAITING"
        BY <3>3, <3>4, <3>5, <2>1, <4>2, SomeoneRuns
      <4>3. CASE st[co_main] # "WAITING"
        <5>1. st[co_main] \in {"RUNNING", "NEW"}
          BY <2>1, <3>3, <4>1, <4>3 DEF Status, Gone
        <5>2. PICK i \in Slot : POOL[i] = co_main
          BY <2>1 DEF CoInv, Pooled, Gone
        <5> QED
          BY <2>1, <5>1, <5>2 DEF MayRun
      <4> QED
        BY <4>2, <4>3
    <3> QED
      BY <3>6 DEF st, dead
  <2> QED
    BY <2>3, <2>4 DEF NoHang
<1> QED
  BY CoInvariant, <1>1, PTL

----------------------------------------------------------------------------
(* Crepl *)

Definition ==
  [name : (Func \cup {"__expr_wrapper_"}) \X Nat, id : Nat \X Nat, uses : SUBSET (Func \X {0})]

CreplTypes ==
  /\ pc \in [Session -> {"prompt", "valid", "append", "gcc", "dlopen", "dlsym", "end"}]
  /\ line \in [Session -> Definition \cup {NULL}]
  /\ nexp \in [Session -> Nat]
  /\ file \in [Session -> Seq(Definition)]
  /\ typed \in [Session -> Nat]
  /\ handle \in [Session -> (SUBSET Definition) \cup {NULL}]
  /\ lib \in (SUBSET Definition) \cup {NULL}
  /\ DOMAIN answer = Session /\ DOMAIN opens = Session
  /\ foreign \in [Session -> BOOLEAN]

(* A wrapper in a session's file has a number that was handed out.         *)
Numbered(s) ==
  \A d \in ToSet(file[s]) :
    d.id[1] = s /\ (d.name[1] \notin Func => d.name[2] < nexp[s])

(* The line at hand, until its turn ends: an expression has the last       *)
(* number, and what the file holds under its name is this very line.       *)
Busy == {"valid", "append", "gcc", "dlopen", "dlsym"}
Current(s) ==
  pc[s] \in Busy =>
    /\ line[s] \in Definition /\ line[s].id[1] = s
    /\ IsExpr(s) => /\ line[s].name[2] < nexp[s]
                    /\ \A d \in ToSet(file[s]) : d.name = line[s].name => d.id = line[s].id

(* What is in the library came from the file of the session it names, and  *)
(* what a session has open, if only its own, from its own file.            *)
Built == lib # NULL => \A d \in lib : d.id[1] \in Session => d \in ToSet(file[d.id[1]])
Loaded(s) == handle[s] # NULL /\ ~foreign[s] => handle[s] \subseteq ToSet(file[s])
Open(s) == /\ pc[s] \in {"dlopen", "dlsym"} => IsExpr(s)
           /\ pc[s] = "dlsym" => handle[s] # NULL

Answered(s) == answer[s] # NULL /\ ~foreign[s] => answer[s].got = answer[s].asked

CreplInv ==
  /\ CreplTypes /\ Built
  /\ \A s \in Session : Numbered(s) /\ Current(s) /\ Loaded(s) /\ Open(s) /\ Answered(s)

(* Appending a line adds it to what the file holds, and nothing else.      *)
LEMMA AppendSet ==
  ASSUME NEW f \in Seq(Definition), NEW d \in Definition
  PROVE  Append(f, d) \in Seq(Definition) /\ ToSet(Append(f, d)) = ToSet(f) \cup {d}
<1>1. /\ Append(f, d) \in Seq(Definition) /\ Len(Append(f, d)) = Len(f) + 1
      /\ Append(f, d)[Len(f) + 1] = d /\ \A i \in 1 .. Len(f) : Append(f, d)[i] = f[i]
  OBVIOUS
<1>2. ASSUME NEW e \in ToSet(Append(f, d)) PROVE e \in ToSet(f) \cup {d}
  <2>1. PICK i \in 1 .. Len(f) + 1 : e = Append(f, d)[i]
    BY <1>1 DEF ToSet
  <2> QED
    BY <1>1, <2>1 DEF ToSet
<1>3. ASSUME NEW e \in ToSet(f) \cup {d} PROVE e \in ToSet(Append(f, d))
  <2>1. CASE e = d
    BY <1>1, <2>1 DEF ToSet
  <2>2. CASE e \in ToSet(f)
    <3>1. PICK i \in 1 .. Len(f) : e = f[i]
      BY <2>2 DEF ToSet
    <3> QED
      BY <1>1, <3>1 DEF ToSet
  <2> QED
    BY <1>3, <2>1, <2>2
<1> QED
  BY <1>1, <1>2, <1>3

LEMMA FileSet ==
  ASSUME NEW f \in Seq(Definition) PROVE ToSet(f) \subseteq Definition
  BY DEF ToSet

LEMMA CreplInitInv == CreplInit => CreplInv
<1> SUFFICES ASSUME CreplInit PROVE CreplInv
  OBVIOUS
<1>1. Leftover \subseteq Definition /\ \A d \in Leftover : d.id[1] = 0
  BY DEF Leftover, Definition
<1>2. CreplTypes
  <2>1. /\ pc \in [Session -> {"prompt", "valid", "append", "gcc", "dlopen", "dlsym", "end"}]
        /\ nexp \in [Session -> Nat] /\ typed \in [Session -> Nat] /\ foreign \in [Session -> BOOLEAN]
    BY DEF CreplInit
  <2>2. line \in [Session -> Definition \cup {NULL}] /\ handle \in [Session -> (SUBSET Definition) \cup {NULL}]
    BY DEF CreplInit
  <2>3. file \in [Session -> Seq(Definition)]
    BY DEF CreplInit
  <2>4. lib \in (SUBSET Definition) \cup {NULL}
    BY <1>1 DEF CreplInit
  <2>5. DOMAIN answer = Session /\ DOMAIN opens = Session
    BY DEF CreplInit
  <2> QED
    BY <2>1, <2>2, <2>3, <2>4, <2>5 DEF CreplTypes
<1>3. Built
  BY <1>1, CreplAssumption DEF CreplInit, Built
<1>4. ASSUME NEW s \in Session PROVE ToSet(file[s]) = {}
  BY DEF CreplInit, ToSet
<1>5. ASSUME NEW s \in Session PROVE Numbered(s) /\ Current(s) /\ Loaded(s) /\ Open(s) /\ Answered(s)
  BY <1>4 DEF CreplInit, Numbered, Current, Busy, Loaded, Open, Answered
<1> QED
  BY <1>2, <1>3, <1>5 DEF CreplInv

(* fgets: the number of a new wrapper is one the file does not have.       *)
LEMMA ReadStep ==
  ASSUME CreplInv, NEW s \in Session, fgets(s) PROVE CreplInv'
<1>1. CreplTypes /\ Built /\ \A t \in Session : Numbered(t) /\ Current(t) /\ Loaded(t) /\ Open(t) /\ Answered(t)
  BY DEF CreplInv
<1>2. UNCHANGED <<file, lib, handle, opens, answer, foreign>>
  BY DEF fgets
<1>3. \A t \in Session : t # s => pc'[t] = pc[t] /\ line'[t] = line[t] /\ nexp'[t] = nexp[t]
  BY <1>1 DEF fgets, Goto, CreplTypes
<1>4. CASE pc' = [pc EXCEPT ![s] = "end"] /\ UNCHANGED <<line, nexp, typed>>
  <2>1. CreplTypes' /\ Built'
    BY <1>1, <1>2, <1>4 DEF CreplTypes, Built
  <2>2. pc'[s] = "end"
    BY <1>1, <1>4 DEF CreplTypes
  <2>3. ASSUME NEW t \in Session PROVE (Numbered(t) /\ Current(t) /\ Loaded(t) /\ Open(t) /\ Answered(t))'
    BY <1>1, <1>2, <1>3, <1>4, <2>2 DEF Numbered, Current, Busy, Loaded, Open, Answered, IsExpr
  <2> QED
    BY <2>1, <2>3 DEF CreplInv
<1>5. CASE /\ pc' = [pc EXCEPT ![s] = "valid"] /\ typed' = [typed EXCEPT ![s] = @ + 1]
           /\ \/ \E f \in Func :
                   line' = [line EXCEPT ![s] = [name |-> <<f, 0>>, id |-> <<s, typed[s]>>, uses |-> {}]] /\ UNCHANGED nexp
              \/ \E u \in SUBSET (Func \X {0}) :
                   /\ line' = [line EXCEPT ![s] = [name |-> Wrapper(nexp[s]), id |-> <<s, typed[s]>>, uses |-> u]]
                   /\ nexp' = [nexp EXCEPT ![s] = @ + 1]
  <2>1. s \in Nat /\ typed[s] \in Nat /\ nexp[s] \in Nat /\ "__expr_wrapper_" \notin Func
    BY <1>1, CreplAssumption DEF CreplTypes
  <2>2. /\ line'[s] \in Definition /\ line'[s].id[1] = s /\ nexp'[s] \in Nat /\ nexp'[s] >= nexp[s]
        /\ line'[s].name[1] \notin Func => line'[s].name[2] = nexp[s] /\ nexp[s] < nexp'[s]
        /\ line' = [line EXCEPT ![s] = line'[s]] /\ nexp' = [nexp EXCEPT ![s] = nexp'[s]]
    <3>1. CASE \E f \in Func :
                 line' = [line EXCEPT ![s] = [name |-> <<f, 0>>, id |-> <<s, typed[s]>>, uses |-> {}]] /\ UNCHANGED nexp
      BY <1>1, <2>1, <3>1 DEF CreplTypes, Definition
    <3>2. CASE \E u \in SUBSET (Func \X {0}) :
                 /\ line' = [line EXCEPT ![s] = [name |-> Wrapper(nexp[s]), id |-> <<s, typed[s]>>, uses |-> u]]
                 /\ nexp' = [nexp EXCEPT ![s] = @ + 1]
      BY <1>1, <2>1, <3>2 DEF CreplTypes, Definition, Wrapper
    <3> QED
      BY <1>5, <3>1, <3>2
  <2>3. CreplTypes' /\ Built'
    <3>1. Built'
      BY <1>1, <1>2 DEF Built
    <3>2. line' \in [Session -> Definition \cup {NULL}] /\ nexp' \in [Session -> Nat]
      <4>1. PICK l, n : l = line'[s] /\ n = nexp'[s]
        OBVIOUS
      <4>2. l \in Definition /\ n \in Nat /\ line' = [line EXCEPT ![s] = l] /\ nexp' = [nexp EXCEPT ![s] = n]
        BY <2>2, <4>1
      <4> QED
        BY ONLY <1>1, <4>2 DEF CreplTypes
    <3>3. typed' \in [Session -> Nat]
      BY <1>1, <1>5 DEF CreplTypes
    <3>4. pc' \in [Session -> {"prompt", "valid", "append", "gcc", "dlopen", "dlsym", "end"}]
      BY <1>1, <1>5 DEF CreplTypes
    <3> QED
      BY <1>1, <1>2, <3>1, <3>2, <3>3, <3>4 DEF CreplTypes
  <2>4. pc'[s] = "valid"
    BY <1>1, <1>5 DEF CreplTypes
  <2>5. ASSUME NEW t \in Session PROVE (Loaded(t) /\ Open(t) /\ Answered(t))'
    BY <1>1, <1>2, <1>3, <2>4 DEF Loaded, Open, Answered, IsExpr
  <2>6. ASSUME NEW t \in Session PROVE Numbered(t)' /\ Current(t)'
    <3>1. CASE t # s
      BY <1>1, <1>2, <1>3, <3>1 DEF Numbered, Current, Busy, IsExpr
    <3>2. CASE t = s
      <4>1. ASSUME NEW d \in ToSet(file[s]) PROVE d \in Definition /\ d.name[2] \in Nat
        <5>1. file[s] \in Seq(Definition)
          BY <1>1 DEF CreplTypes
        <5>2. d \in Definition
          BY <4>1, <5>1, FileSet
        <5> QED
          BY <5>2 DEF Definition
      <4>2. Numbered(s)'
        BY <1>1, <1>2, <2>1, <2>2, <4>1 DEF Numbered
      <4>3. line'[s].name[1] \notin Func => \A d \in ToSet(file[s]) : d.name # line'[s].name
        BY <1>1, <2>1, <2>2, <4>1 DEF Numbered
      <4>4. Current(s)'
        BY <1>2, <2>1, <2>2, <4>3 DEF Current, IsExpr
      <4> QED
        BY <3>2, <4>2, <4>4
    <3> QED
      BY <3>1, <3>2
  <2> QED
    BY <2>3, <2>5, <2>6 DEF CreplInv
<1> QED
  BY <1>4, <1>5 DEF fgets, Goto

(* append: only the line at hand comes to the file.                        *)
LEMMA AppendStep ==
  ASSUME CreplInv, NEW s \in Session, append(s) PROVE CreplInv'
<1>1. CreplTypes /\ Built /\ \A t \in Session : Numbered(t) /\ Current(t) /\ Loaded(t) /\ Open(t) /\ Answered(t)
  BY DEF CreplInv
<1>2. /\ UNCHANGED <<line, nexp, lib, handle, opens, answer, typed, foreign>>
      /\ pc[s] = "append" /\ pc' = [pc EXCEPT ![s] = "gcc"] /\ file' = [file EXCEPT ![s] = Append(@, line[s])]
  BY DEF append, Goto
<1>3. \A t \in Session : t # s => pc'[t] = pc[t] /\ file'[t] = file[t]
  BY <1>1, <1>2 DEF CreplTypes
<1>4. line[s] \in Definition /\ line[s].id[1] = s /\ (IsExpr(s) => line[s].name[2] < nexp[s])
  BY <1>1, <1>2 DEF Current, Busy
<1>5. pc'[s] = "gcc" /\ file'[s] \in Seq(Definition) /\ ToSet(file'[s]) = ToSet(file[s]) \cup {line[s]}
  BY <1>1, <1>2, <1>4, AppendSet DEF CreplTypes
<1>6. CreplTypes'
  BY <1>1, <1>2, <1>5 DEF CreplTypes
<1>7. \A t \in Session : ToSet(file[t]) \subseteq ToSet(file'[t])
  BY <1>3, <1>5
<1>8. Built'
  BY <1>1, <1>2, <1>7 DEF Built
<1>9. ASSUME NEW t \in Session PROVE (Loaded(t) /\ Open(t) /\ Answered(t))'
  BY <1>1, <1>2, <1>3, <1>5, <1>7 DEF Loaded, Open, Answered, IsExpr
<1>10. ASSUME NEW t \in Session PROVE Numbered(t)' /\ Current(t)'
  <2>1. CASE t # s
    BY <1>1, <1>2, <1>3, <2>1 DEF Numbered, Current, Busy, IsExpr
  <2>2. CASE t = s
    BY <1>1, <1>2, <1>4, <1>5, <2>2 DEF Numbered, Current, Busy, IsExpr
  <2> QED
    BY <2>1, <2>2
<1> QED
  BY <1>6, <1>8, <1>9, <1>10 DEF CreplInv

(* is_valid and gcc: the library, if gcc writes it, is the session's file. *)
LEMMA CompileStep ==
  ASSUME CreplInv, NEW s \in Session, is_valid(s) \/ gcc(s) PROVE CreplInv'
<1>1. CreplTypes /\ Built /\ \A t \in Session : Numbered(t) /\ Current(t) /\ Loaded(t) /\ Open(t) /\ Answered(t)
  BY DEF CreplInv
<1>2. UNCHANGED <<line, nexp, file, handle, opens, answer, typed, foreign>>
  BY DEF is_valid, gcc
<1>3. lib' = lib \/ lib' = ToSet(file[s])
  BY DEF is_valid, gcc
<1>4. /\ pc[s] \in Busy
      /\ \E l \in {"prompt", "append", "dlopen"} : pc' = [pc EXCEPT ![s] = l] /\ (l = "dlopen" => IsExpr(s))
  BY DEF is_valid, gcc, Goto, Busy
<1>5. /\ \A t \in Session : t # s => pc'[t] = pc[t]
      /\ pc'[s] \in {"prompt", "append", "dlopen"} /\ (pc'[s] = "dlopen" => IsExpr(s))
  BY <1>1, <1>4 DEF CreplTypes
<1>6. file[s] \in Seq(Definition) /\ ToSet(file[s]) \subseteq Definition /\ \A d \in ToSet(file[s]) : d.id[1] = s
  BY <1>1, FileSet DEF CreplTypes, Numbered
<1>7. CreplTypes'
  BY <1>1, <1>2, <1>3, <1>4, <1>6 DEF CreplTypes
<1>8. Built'
  BY <1>1, <1>2, <1>3, <1>6 DEF Built
<1>9. ASSUME NEW t \in Session PROVE (Loaded(t) /\ Answered(t) /\ Numbered(t))'
  BY <1>1, <1>2 DEF Loaded, Answered, Numbered
<1>10. ASSUME NEW t \in Session PROVE Open(t)' /\ Current(t)'
  BY <1>1, <1>2, <1>4, <1>5 DEF Open, Current, Busy, IsExpr
<1> QED
  BY <1>7, <1>8, <1>9, <1>10 DEF CreplInv

(* dlopen: what is open already, or the library as it is now.              *)
LEMMA LoadStep ==
  ASSUME CreplInv, NEW s \in Session, dlopen(s) PROVE CreplInv'
<1>1. CreplTypes /\ Built /\ \A t \in Session : Numbered(t) /\ Current(t) /\ Loaded(t) /\ Open(t) /\ Answered(t)
  BY DEF CreplInv
<1> DEFINE h == IF handle[s] # NULL THEN handle[s] ELSE lib
<1>2. /\ UNCHANGED <<line, nexp, file, lib, answer, typed>> /\ pc[s] = "dlopen"
      /\ handle' = [handle EXCEPT ![s] = h]
      /\ foreign' = [foreign EXCEPT ![s] = @ \/ (h # NULL /\ \E d \in h : d.id[1] # s)]
      /\ pc' = [pc EXCEPT ![s] = IF h = NULL THEN "prompt" ELSE "dlsym"]
  BY DEF dlopen, Goto
<1>3. DOMAIN opens' = Session
  BY <1>1 DEF dlopen, CreplTypes
<1>4. h \in (SUBSET Definition) \cup {NULL}
  BY <1>1 DEF CreplTypes
<1>5. CreplTypes'
  BY <1>1, <1>2, <1>3, <1>4 DEF CreplTypes
<1>6. Built'
  BY <1>1, <1>2 DEF Built
<1>7. \A t \in Session : t # s => pc'[t] = pc[t] /\ handle'[t] = handle[t] /\ foreign'[t] = foreign[t]
  BY <1>1, <1>2 DEF CreplTypes
<1>8. /\ handle'[s] = h /\ pc'[s] = IF h = NULL THEN "prompt" ELSE "dlsym"
      /\ ~foreign'[s] => ~foreign[s] /\ (h # NULL => \A d \in h : d.id[1] = s)
  BY <1>1, <1>2 DEF CreplTypes
<1>9. h # NULL /\ ~foreign'[s] => h \subseteq ToSet(file[s])
  <2>1. CASE handle[s] # NULL
    BY <1>1, <1>8, <2>1 DEF Loaded
  <2>2. CASE handle[s] = NULL
    BY <1>1, <1>8, <2>2 DEF Built
  <2> QED
    BY <2>1, <2>2
<1> HIDE DEF h
<1>10. ASSUME NEW t \in Session PROVE (Numbered(t) /\ Loaded(t) /\ Answered(t))'
  BY <1>1, <1>2, <1>7, <1>8, <1>9 DEF Numbered, Loaded, Answered
<1>11. ASSUME NEW t \in Session PROVE Open(t)' /\ Current(t)'
  BY <1>1, <1>2, <1>7, <1>8 DEF Open, Current, Busy, IsExpr
<1> QED
  BY <1>5, <1>6, <1>10, <1>11 DEF CreplInv

(* dlsym: the wrapper it finds is one of the file's, and the file has only *)
(* this line under the name.                                               *)
LEMMA AnswerStep ==
  ASSUME CreplInv, NEW s \in Session, dlsym(s) PROVE CreplInv'
<1>1. CreplTypes /\ Built /\ \A t \in Session : Numbered(t) /\ Current(t) /\ Loaded(t) /\ Open(t) /\ Answered(t)
  BY DEF CreplInv
<1>2. UNCHANGED <<line, nexp, file, lib, typed, foreign>> /\ pc[s] = "dlsym" /\ handle[s] # NULL /\ IsExpr(s)
  BY <1>1 DEF dlsym, Open
<1>3. \E l \in {"prompt", "end"} : pc' = [pc EXCEPT ![s] = l]
  BY DEF dlsym, Goto
<1>4. \A t \in Session : t # s => pc'[t] = pc[t] /\ handle'[t] = handle[t] /\ answer'[t] = answer[t]
  BY <1>1, <1>3 DEF dlsym, CreplTypes
<1>5. pc'[s] \in {"prompt", "end"} /\ handle'[s] \in {handle[s], NULL}
  BY <1>1, <1>3 DEF dlsym, CreplTypes
<1>6. CreplTypes'
  <2>1. handle' \in [Session -> (SUBSET Definition) \cup {NULL}]
    <3>1. handle' = handle \/ handle' = [handle EXCEPT ![s] = IF opens[s] = 1 THEN NULL ELSE @]
      BY DEF dlsym
    <3> QED
      BY <1>1, <3>1 DEF CreplTypes
  <2>2. DOMAIN answer' = Session /\ DOMAIN opens' = Session
    <3>1. \/ UNCHANGED <<answer, opens>>
          \/ /\ \E d \in handle[s] : answer' = [answer EXCEPT ![s] = [asked |-> line[s].id, got |-> d.id]]
             /\ opens' = [opens EXCEPT ![s] = @ - 1]
      BY DEF dlsym
    <3> QED
      BY <1>1, <3>1 DEF CreplTypes
  <2> QED
    BY ZenonT(60), <1>1, <1>2, <1>3, <2>1, <2>2 DEF CreplTypes
<1>7. Built'
  BY <1>1, <1>2 DEF Built
<1>8. Answered(s)'
  <2>1. CASE answer' = answer
    BY <1>1, <1>2, <2>1 DEF Answered
  <2>2. CASE \E d \in handle[s] :
               d.name = line[s].name /\ answer' = [answer EXCEPT ![s] = [asked |-> line[s].id, got |-> d.id]]
    <3>1. PICK d \in handle[s] :
            d.name = line[s].name /\ answer' = [answer EXCEPT ![s] = [asked |-> line[s].id, got |-> d.id]]
      BY <2>2
    <3>2. answer'[s] = [asked |-> line[s].id, got |-> d.id]
      BY <1>1, <3>1 DEF CreplTypes
    <3>3. ~foreign[s] => d.id = line[s].id
      BY <1>1, <1>2, <3>1 DEF Loaded, Current, Busy
    <3> QED
      BY <1>2, <3>2, <3>3 DEF Answered
  <2> QED
    BY <2>1, <2>2 DEF dlsym
<1>9. ASSUME NEW t \in Session PROVE Answered(t)'
  BY <1>1, <1>2, <1>4, <1>8 DEF Answered
<1>10. ASSUME NEW t \in Session PROVE (Numbered(t) /\ Loaded(t))'
  BY <1>1, <1>2, <1>4, <1>5 DEF Numbered, Loaded
<1>11. ASSUME NEW t \in Session PROVE Open(t)' /\ Current(t)'
  BY <1>1, <1>2, <1>4, <1>5 DEF Open, Current, Busy, IsExpr
<1> QED
  BY <1>6, <1>7, <1>9, <1>10, <1>11 DEF CreplInv

(* A number printed is the value of the expression just typed, in every    *)
(* session that has loaded no library of another: however many sessions    *)
(* build /tmp/libcrepl.so at once, whatever gcc refuses, and whether or    *)
(* not an earlier line left the library open.                              *)
THEOREM OwnAnswers == CreplSpec => []AnswersOwn
<1>1. CreplInv /\ [CreplNext]_creplvars => CreplInv'
  <2> SUFFICES ASSUME CreplInv, [CreplNext]_creplvars PROVE CreplInv'
    OBVIOUS
  <2>1. CASE UNCHANGED creplvars
    BY <2>1 DEF creplvars, CreplInv, CreplTypes, Built, Numbered, Current, Loaded, Open, Answered, IsExpr
  <2>2. CASE CreplNext
    BY <2>2, ReadStep, AppendStep, CompileStep, LoadStep, AnswerStep DEF CreplNext
  <2> QED
    BY <2>1, <2>2
<1>2. CreplInv => AnswersOwn
  BY DEF CreplInv, Answered, AnswersOwn
<1> QED
  BY CreplInitInv, <1>1, <1>2, PTL DEF CreplSpec

-----------------------------------------------------------------------------
(* Pstree *)

PstreeType ==
  /\ Live \subseteq Nat \ {0} /\ IsFiniteSet(Live) /\ proc \in [Live -> Nat]
  /\ last \in Nat /\ at \in Nat /\ pnum \in Nat /\ num \in Nat /\ born \in Nat
  /\ at <= last /\ \A p \in Live : p <= last
  /\ pro \in Seq(process)
  /\ step \in {"count", "load", "open", "scan", "print", "done", "abort", "crash"}

Passed == {p \in Live : p <= at}
Ahead  == {p \in Live : p > at}

(* The count is of at least the processes that are still there; a process  *)
(* the second scan has still to come to was counted or is new.             *)
Counting == step = "count" => pro = <<>> /\ born = 0 /\ Cardinality(Passed) <= num
Loading ==
  /\ step = "load" => Len(pro) + Cardinality(Ahead) <= pnum + born
  /\ step \in {"open", "scan"} => Len(pro) + 1 + Cardinality(Ahead) <= pnum + born
  /\ step # "count" => Len(pro) <= pnum + born

PstreeInv == PstreeType /\ Counting /\ Loading

(* The processes at any time are finitely many.                            *)
LEMMA Sets ==
  ASSUME PstreeType
  PROVE  /\ IsFiniteSet(Passed) /\ Cardinality(Passed) \in Nat
         /\ IsFiniteSet(Ahead) /\ Cardinality(Ahead) \in Nat
         /\ Len(pro) \in Nat
<1>1. IsFiniteSet(Passed) /\ IsFiniteSet(Ahead)
  BY FS_Subset DEF PstreeType, Passed, Ahead
<1> QED BY <1>1, FS_CardinalityType DEF PstreeType

(* readdir's next process is the least of the ones ahead.                  *)
LEMMA NextIsLeast ==
  ASSUME PstreeType, More
  PROVE  NextPid \in Ahead /\ \A p \in Ahead : NextPid <= p
<1>1. Ahead \subseteq Nat /\ Ahead # {}
  BY DEF PstreeType, Ahead, More
<1>2. \E m \in Ahead : \A p \in Ahead : m <= p
  BY <1>1, LeastElement
<1>3. NextPid = CHOOSE x \in Ahead : \A y \in Ahead : x <= y
  BY DEF NextPid, Min, Ahead
<1> QED BY <1>2, <1>3

(* At the start nothing is counted.                                        *)
LEMMA PstreeInitInv == PstreeInit => PstreeInv
<1> SUFFICES ASSUME PstreeInit
             PROVE  PstreeInv
  OBVIOUS
<1> USE PstreeAssumption DEF PstreeInit
<1>1. PstreeType
  BY DEF PstreeType, Live, process
<1>2. Passed = {}
  BY DEF Passed, Live
<1>3. Counting
  BY <1>2, FS_EmptySet DEF Counting
<1> QED BY <1>1, <1>3 DEF PstreeInv, Loading

(* A new process has a number no scan has come to.                         *)
LEMMA ForkInv ==
  ASSUME PstreeInv, fork
  PROVE  PstreeInv'
<1> USE DEF PstreeInv, fork
<1>1. PstreeType /\ Counting /\ Loading
  OBVIOUS
<1>2. PICK parent \in Live :
        proc' = [p \in Live \cup {last'} |-> IF p = last' THEN parent ELSE proc[p]]
  OBVIOUS
<1>3. Live' = Live \cup {last'} /\ last' = last + 1 /\ last' \notin Live
  BY <1>1, <1>2 DEF Live, PstreeType
<1>4. IsFiniteSet(Live')
  BY <1>1, <1>3, FS_AddElement DEF PstreeType
<1>5. proc' \in [Live' -> Nat]
  BY <1>1, <1>2, <1>3 DEF PstreeType
<1>6. PstreeType'
  BY <1>1, <1>3, <1>4, <1>5 DEF PstreeType
<1>7. Passed' = Passed /\ Ahead' = Ahead \cup {last'} /\ last' \notin Ahead
  BY <1>1, <1>3 DEF PstreeType, Passed, Ahead
<1>8. Cardinality(Ahead') = Cardinality(Ahead) + 1
  BY <1>1, <1>7, Sets, FS_AddElement
<1>9. Cardinality(Ahead) \in Nat /\ Len(pro) \in Nat /\ pnum \in Nat /\ born \in Nat
  BY <1>1, Sets DEF PstreeType
<1>10. Counting'
  BY <1>1, <1>7 DEF Counting
<1>11. Loading'
  BY <1>1, <1>8, <1>9 DEF Loading
<1> QED BY <1>6, <1>10, <1>11

(* A process that ends makes the rest no longer.                           *)
LEMMA EndedInv ==
  ASSUME PstreeInv, exit
  PROVE  PstreeInv'
<1> USE DEF PstreeInv, exit
<1>1. PstreeType /\ Counting /\ Loading
  OBVIOUS
<1>2. PICK p \in Live \ {1} :
        proc' = [c \in Live \ {p} |-> IF proc[c] = p THEN 1 ELSE proc[c]]
  OBVIOUS
<1>3. Live' = Live \ {p}
  BY <1>2 DEF Live
<1>4. IsFiniteSet(Live')
  BY <1>1, <1>3, FS_Subset DEF PstreeType
<1>5. proc' \in [Live' -> Nat]
  BY <1>1, <1>2, <1>3 DEF PstreeType
<1>6. PstreeType'
  BY <1>1, <1>3, <1>4, <1>5 DEF PstreeType
<1>7. Passed' \subseteq Passed /\ Ahead' \subseteq Ahead
  BY <1>3 DEF Passed, Ahead
<1>8. Cardinality(Ahead') <= Cardinality(Ahead) /\ Cardinality(Passed') <= Cardinality(Passed)
  BY <1>1, <1>7, Sets, FS_Subset
<1>9. /\ Cardinality(Ahead) \in Nat /\ Cardinality(Passed) \in Nat /\ Len(pro) \in Nat
      /\ pnum \in Nat /\ born \in Nat /\ num \in Nat
  BY <1>1, Sets DEF PstreeType
<1>10. Cardinality(Ahead') \in Nat /\ Cardinality(Passed') \in Nat
  BY <1>1, <1>7, Sets, FS_Subset, FS_CardinalityType
<1>11. Counting'
  BY <1>1, <1>8, <1>9, <1>10 DEF Counting
<1>12. Loading'
  BY <1>1, <1>8, <1>9, <1>10 DEF Loading
<1> QED BY <1>6, <1>11, <1>12

(* get_pnum_load's first scan; its count stays in pnum.                    *)
LEMMA CountInv ==
  ASSUME PstreeInv, count
  PROVE  PstreeInv'
<1> USE DEF PstreeInv, count
<1>1. PstreeType /\ Counting /\ Loading /\ step = "count" /\ Live' = Live
  BY DEF Live
<1>2. CASE More
  <2>1. NextPid \in Ahead /\ \A p \in Ahead : NextPid <= p
    BY <1>1, <1>2, NextIsLeast
  <2>2. at' = NextPid /\ num' = num + 1 /\ step' = "count"
    BY <1>1, <1>2
  <2>3. PstreeType'
    BY <1>1, <2>1, <2>2 DEF PstreeType, Ahead
  <2>4. Passed' = Passed \cup {NextPid}
    BY <1>1, <2>1, <2>2 DEF PstreeType, Passed, Ahead
  <2>5. NextPid \notin Passed
    BY <1>1, <2>1 DEF PstreeType, Passed, Ahead
  <2>6. Cardinality(Passed') = Cardinality(Passed) + 1
    BY <1>1, <2>4, <2>5, Sets, FS_AddElement
  <2>7. Counting'
    BY <1>1, <2>2, <2>6, Sets DEF Counting, PstreeType
  <2> QED BY <2>2, <2>3, <2>7 DEF Loading
<1>3. CASE ~More
  <2>1. pnum' = num /\ num' = 0 /\ at' = 0 /\ step' = "load"
    BY <1>3
  <2>2. PstreeType'
    BY <1>1, <2>1 DEF PstreeType
  <2>3. Passed = Live /\ Ahead' = Live
    BY <1>1, <1>3, <2>1 DEF PstreeType, Passed, Ahead, More
  <2>4. pro' = <<>> /\ born' = 0 /\ Cardinality(Ahead') <= pnum'
    BY <1>1, <2>1, <2>3 DEF Counting
  <2>5. Cardinality(Ahead') \in Nat /\ pnum' \in Nat
    BY <1>1, <2>1, <2>3, Sets DEF PstreeType
  <2>6. Loading'
    BY <2>1, <2>4, <2>5 DEF Loading
  <2> QED BY <2>1, <2>2, <2>6 DEF Counting
<1> QED BY <1>2, <1>3

(* readdir in the second scan.                                             *)
LEMMA LoadInv ==
  ASSUME PstreeInv, load
  PROVE  PstreeInv'
<1> USE DEF PstreeInv, load
<1>1. PstreeType /\ Loading /\ step = "load" /\ Live' = Live
  BY DEF Live
<1>2. CASE More
  <2>1. NextPid \in Ahead /\ \A p \in Ahead : NextPid <= p
    BY <1>1, <1>2, NextIsLeast
  <2>2. at' = NextPid /\ step' = "open"
    BY <1>1, <1>2
  <2>3. PstreeType'
    BY <1>1, <2>1, <2>2 DEF PstreeType, Ahead
  <2>4. Ahead' = Ahead \ {NextPid}
    BY <1>1, <2>1, <2>2 DEF PstreeType, Ahead
  <2>5. Cardinality(Ahead') = Cardinality(Ahead) - 1
    BY <1>1, <2>1, <2>4, Sets, FS_RemoveElement
  <2>6. Cardinality(Ahead) \in Nat /\ Len(pro) \in Nat /\ pnum \in Nat /\ born \in Nat
    BY <1>1, Sets DEF PstreeType
  <2>7. Loading'
    BY <1>1, <2>2, <2>5, <2>6 DEF Loading
  <2> QED BY <2>2, <2>3, <2>7 DEF Counting
<1>3. CASE ~More
  <2>1. step' = "print" /\ at' = at
    BY <1>3
  <2>2. PstreeType'
    BY <1>1, <2>1 DEF PstreeType
  <2>3. Loading'
    BY <1>1, <2>1 DEF Loading
  <2> QED BY <2>1, <2>2, <2>3 DEF Counting
<1> QED BY <1>2, <1>3

(* fopen; the process may be gone.                                         *)
LEMMA OpenInv ==
  ASSUME PstreeInv, open
  PROVE  PstreeInv'
<1> USE DEF PstreeInv, open
<1>1. PstreeType /\ Loading /\ step = "open" /\ Live' = Live /\ Ahead' = Ahead
  BY DEF Live, Ahead
<1>2. step' \in {"scan", "abort"} /\ UNCHANGED <<proc, last, at, pnum, num, pro, born>>
  OBVIOUS
<1>3. PstreeType'
  BY <1>1, <1>2 DEF PstreeType
<1>4. Loading'
  BY <1>1, <1>2 DEF Loading
<1> QED BY <1>2, <1>3, <1>4 DEF Counting

(* The entry of a process that is still there.                             *)
LEMMA FscanfInv ==
  ASSUME PstreeInv, fscanf
  PROVE  PstreeInv'
<1> USE DEF PstreeInv, fscanf
<1>1. PstreeType /\ Loading /\ step = "scan" /\ Live' = Live /\ Ahead' = Ahead
  BY DEF Live, Ahead
<1>2. CASE at \in Live
  <2>1. pro' = Append(pro, Scanned) /\ num' = num + 1 /\ step' = "load"
    BY <1>2
  <2>2. Scanned \in process
    BY <1>1, <1>2 DEF PstreeType, process, Scanned
  <2>3. pro' \in Seq(process) /\ Len(pro') = Len(pro) + 1
    BY <1>1, <2>1, <2>2 DEF PstreeType
  <2>4. PstreeType'
    BY <1>1, <2>1, <2>3 DEF PstreeType
  <2>5. Cardinality(Ahead) \in Nat /\ Len(pro) \in Nat /\ pnum \in Nat /\ born \in Nat
    BY <1>1, Sets DEF PstreeType
  <2>6. Loading'
    BY <1>1, <2>1, <2>3, <2>5 DEF Loading
  <2> QED BY <2>1, <2>4, <2>6 DEF Counting
<1>3. CASE at \notin Live
  <2>1. step' = "crash" /\ UNCHANGED <<pro, num>>
    BY <1>3
  <2>2. PstreeType'
    BY <1>1, <2>1 DEF PstreeType
  <2> QED BY <1>1, <2>1, <2>2 DEF Counting, Loading
<1> QED BY <1>2, <1>3

(* The array has an entry for each process counted, and some to spare.     *)
LEMMA PstreeInvRoom == PstreeInv => RoomSuffices
<1> SUFFICES ASSUME PstreeInv, born <= Spare
             PROVE  Len(pro) <= Room
  BY DEF RoomSuffices
<1>1. /\ pnum \in Nat /\ born \in Nat /\ Spare \in Nat /\ Len(pro) \in Nat
      /\ step = "count" => pro = <<>>
      /\ step # "count" => Len(pro) <= pnum + born
  BY PstreeAssumption, Sets DEF PstreeInv, PstreeType, Counting, Loading
<1> QED BY <1>1 DEF Room

(* The second scan of /proc does not write past the array that the first   *)
(* one counted out, whatever processes come and go meanwhile, unless more  *)
(* are created after the count than the array has to spare.                *)
THEOREM ScanFits == PstreeSpec => []RoomSuffices
<1>1. PstreeInit => PstreeInv
  BY PstreeInitInv
<1>2. PstreeInv /\ [PstreeNext]_pstreevars => PstreeInv'
  <2> SUFFICES ASSUME PstreeInv, [PstreeNext]_pstreevars
               PROVE  PstreeInv'
    OBVIOUS
  <2>1. CASE UNCHANGED pstreevars
    BY <2>1 DEF pstreevars, PstreeInv, PstreeType, Counting, Loading, Passed, Ahead, Live
  <2>2. ASSUME NEW num_sort \in BOOLEAN, print(num_sort)
        PROVE  PstreeInv'
    BY <2>2 DEF print, PstreeInv, PstreeType, Counting, Loading, Passed, Ahead, Live
  <2> QED BY <2>1, <2>2, ForkInv, EndedInv, CountInv, LoadInv, OpenInv, FscanfInv DEF PstreeNext
<1>3. PstreeInv => RoomSuffices
  BY PstreeInvRoom
<1> QED BY <1>1, <1>2, <1>3, PTL DEF PstreeSpec
=============================================================================
