------------------------------- MODULE Libco --------------------------------
(***************************************************************************)
(* The coroutine library, src/libco/co.c.                                  *)
(*                                                                         *)
(* Exactly one coroutine, `current`, executes; it gives up the processor   *)
(* only inside co_yield, which scans POOL from slot id + 1 on for one that *)
(* may run.  co_wait marks its caller CO_WAITING and yields until the      *)
(* coroutine waited for is CO_DEAD, then frees it; a coroutine whose       *)
(* function returns marks its waiter CO_RUNNING.                           *)
(*                                                                         *)
(* A coroutine is a struct co: malloc may give a freed one again.  Nothing *)
(* runs between two calls of one coroutine, so every call up to the switch *)
(* is one step.  Programs keep to what the library's tests do: a coroutine *)
(* waits for the ones it started itself, once each.                        *)
(***************************************************************************)
EXTENDS Integers, FiniteSets, Null

CONSTANTS
  Co,       \* the structures malloc can return, and co_main
  co_main,
  MAXCO     \* slots of POOL

Slot == 0 .. MAXCO - 1

ASSUME CoAssumption ==
  /\ co_main \in Co /\ NULL \notin Co
  /\ MAXCO \in Nat \ {0}
(* No program has more coroutines at a time than POOL has slots. *)
ASSUME PoolAssumption ==
  IsFiniteSet(Co) /\ Cardinality(Co) <= MAXCO

VARIABLES
  POOL,     \* [Slot -> Co or NULL]
  id,       \* the slot fd_next stopped at
  current,
  status,   \* "free" for memory that malloc has not given out
  waiter,
  target,   \* the argument of the co_wait a coroutine is inside, or NULL
  owner     \* who may still wait for a coroutine: the one that started it

vars == <<POOL, id, current, status, waiter, target, owner>>

Init ==
  /\ POOL = [i \in Slot |-> IF i = 0 THEN co_main ELSE NULL]
  /\ id = 0
  /\ current = co_main
  /\ status = [c \in Co |-> IF c = co_main THEN "RUNNING" ELSE "free"]
  /\ waiter = [c \in Co |-> NULL]
  /\ target = [c \in Co |-> NULL]
  /\ owner = [c \in Co |-> NULL]

----------------------------------------------------------------------------
(* Switching.  Definitions named *_Bug are slips this code invites; each is *)
(* put in the place of the definition after it to see a property notice.   *)


MayRun(st, i) == POOL[i] # NULL /\ st[POOL[i]] \in {"RUNNING", "NEW"}

(* Slots fd_next passes over before it looks at slot i: it starts after id *)
(* and looks at id itself last.                                            *)
Skipped(i) == (i - id - 1) % MAXCO
fd_next_Bug(st) ==
  {i \in Slot : MayRun(st, i) /\ \A j \in Slot : MayRun(st, j) => i <= j}

(* The slot fd_next stops at; it never returns if no coroutine may run. *)
fd_next(st) ==
  {i \in Slot : MayRun(st, i) /\ \A j \in Slot : MayRun(st, j) => Skipped(i) <= Skipped(j)}

(* The rest of co_yield, with the statuses st: the chosen coroutine goes   *)
(* on where it called co_yield, or starts its function.                    *)
switch(st) ==
  \E i \in fd_next(st) :
    /\ id' = i
    /\ current' = POOL[i]
    /\ status' = [st EXCEPT ![POOL[i]] = "RUNNING"]

InCode == target[current] = NULL   \* current executes its own code

co_yield ==
  /\ InCode
  /\ switch(status)
  /\ UNCHANGED <<POOL, waiter, target, owner>>

----------------------------------------------------------------------------
(* Starting and waiting *)

FirstFree == {i \in Slot : POOL[i] = NULL /\ \A j \in 0 .. i - 1 : POOL[j] # NULL}

Fresh_Bug(c) == waiter
(* c1->waiter = NULL: what malloc returned may be a struct co freed before. *)
Fresh(c) == [waiter EXCEPT ![c] = NULL]

co_start(c) ==
  /\ InCode
  /\ status[c] = "free"
  /\ status' = [status EXCEPT ![c] = "NEW"]
  /\ waiter' = Fresh(c)
  /\ POOL' = [i \in Slot |-> IF i \in FirstFree THEN c ELSE POOL[i]]
  /\ owner' = [owner EXCEPT ![c] = current]
  /\ UNCHANGED <<id, current, target>>

Removed_Bug(c) == POOL
Removed(c) ==
  LET at == {i \in Slot : POOL[i] = c}
  IN  [i \in Slot |->
         IF i \in at /\ \A j \in at : i <= j THEN NULL ELSE POOL[i]]

(* co_wait's loop and what follows it, with the statuses st. *)
await(c, st) ==
  IF st[c] = "DEAD"
  THEN /\ POOL' = Removed(c)
       /\ status' = [st EXCEPT ![c] = "free", ![current] = "RUNNING"]
       /\ target' = [target EXCEPT ![current] = NULL]
       /\ owner' = [owner EXCEPT ![c] = NULL]
       /\ UNCHANGED <<id, current>>
  ELSE /\ switch(st)
       /\ target' = [target EXCEPT ![current] = c]
       /\ UNCHANGED <<POOL, owner>>

co_wait(c) ==
  /\ InCode
  /\ owner[c] = current
  /\ waiter' = [waiter EXCEPT ![c] = current]
  /\ await(c, [status EXCEPT ![current] = "WAITING"])

(* co_yield has returned inside co_wait. *)
co_wait_loop ==
  /\ target[current] # NULL
  /\ await(target[current], status)
  /\ UNCHANGED waiter

Woken_Bug(st) == st
Woken(st) ==
  IF waiter[current] = NULL THEN st ELSE [st EXCEPT ![waiter[current]] = "RUNNING"]

(* The function of a coroutine returns, to the second half of co_yield. *)
co_exit ==
  /\ InCode
  /\ current # co_main
  /\ switch(Woken([status EXCEPT ![current] = "DEAD"]))
  /\ owner' = [c \in Co |-> IF owner[c] = current THEN NULL ELSE owner[c]]
  /\ UNCHANGED <<POOL, waiter, target>>

Next ==
  \/ co_yield
  \/ \E c \in Co : co_start(c)
  \/ \E c \in Co : co_wait(c)
  \/ co_wait_loop
  \/ co_exit

Spec == Init /\ [][Next]_vars

(* The running coroutine goes on to its next call of the library. *)
FairSpec == Spec /\ WF_vars(Next)

----------------------------------------------------------------------------
(* Properties *)

Known == {c \in Co : status[c] # "free"}

(* POOL has every coroutine that is not freed in exactly one slot and no   *)
(* freed one: fd_next never reads freed memory and no slot is lost.  The   *)
(* slot co.c calls id is the running coroutine's, so that co_yield saves   *)
(* the registers where they are restored from.                             *)
PoolExact ==
  /\ \A c \in Known : \E i \in Slot : POOL[i] = c
  /\ \A i, j \in Slot : POOL[i] # NULL => POOL[i] \in Known /\ (POOL[i] = POOL[j] => i = j)
  /\ POOL[id] = current /\ status[current] = "RUNNING"

(* A coroutine marked CO_WAITING is woken by exactly the death it waits    *)
(* for: no wake-up is lost, none goes to a freed or a busy coroutine, and  *)
(* the loop of co_wait never goes round in vain.                           *)
WaiterSound ==
  /\ \A c \in Known : status[c] = "WAITING" =>
       /\ target[c] \in Known /\ waiter[target[c]] = c
       /\ status[target[c]] # "DEAD"
  /\ \A c \in Known : status[c] # "DEAD" /\ waiter[c] # NULL =>
       status[waiter[c]] = "WAITING" /\ target[waiter[c]] = c
  /\ target[current] # NULL => status[target[current]] = "DEAD"

(* fd_next returns: when current starts to wait or ends, whatever the      *)
(* others wait for, one of them may run.                                   *)
NoHang ==
  InCode =>
    /\ \A c \in Co : owner[c] = current /\ status[c] # "DEAD" =>
         \E i \in Slot : MayRun([status EXCEPT ![current] = "WAITING"], i)
    /\ current # co_main =>
         \E i \in Slot : MayRun(Woken([status EXCEPT ![current] = "DEAD"]), i)

(* Round robin: a coroutine that may run gets the processor, whatever the  *)
(* others do.                                                              *)
Served ==
  \A c \in Co : status[c] \in {"NEW", "RUNNING"} ~> current = c
=============================================================================
