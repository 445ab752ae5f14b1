------------------------------ MODULE PmmSpec ------------------------------
(***************************************************************************)
(* What pmm->alloc and pmm->free promise, whatever the allocator inside.   *)
(* The memory is the bytes Start .. End-1.  A call of alloc(s) returns     *)
(* NULL or a block of at least s bytes, aligned to the least power of two  *)
(* not below s (the assertion of do_test_1 and do_test_3 in                *)
(* src/kernel/test/test.c), that shares no byte with a block in use.  The  *)
(* block is in use from then on until free of it takes effect.             *)
(***************************************************************************)
EXTENDS Integers

CONSTANTS Thread, Requests, Start, End,
          Lengths,  \* the lengths of block the allocator deals in
          NULL

VARIABLES used,  \* the blocks handed out and not yet given back
          call   \* per thread, the call under way

specVars == <<used, call>>

Chunk == {b \in [addr : Start .. End - 1, len : Lengths] :
            b.addr % b.len = 0 /\ b.addr + b.len <= End}

Disjoint(a, b) == a.addr + a.len <= b.addr \/ b.addr + b.len <= a.addr

Aligned(a, s) == \A k \in 0 .. 24 : 2^k < 2 * s => a % 2^k = 0

Idle        == [op |-> "idle"]
Asked(s)    == [op |-> "alloc", size |-> s]
Answered(b) == [op |-> "ret", blk |-> b]
Freeing(b)  == [op |-> "free", blk |-> b]

Init ==
  /\ used = {}
  /\ call = [t \in Thread |-> Idle]

Alloc(t, s) ==
  /\ call[t] = Idle
  /\ call' = [call EXCEPT ![t] = Asked(s)]
  /\ UNCHANGED used

(* The answer takes effect: a block nobody uses becomes used. *)
Grant(t, b) ==
  /\ call[t].op = "alloc"
  /\ b.len >= call[t].size
  /\ Aligned(b.addr, call[t].size)
  /\ \A u \in used : Disjoint(b, u)
  /\ used' = used \cup {b}
  /\ call' = [call EXCEPT ![t] = Answered(b)]

Refuse(t) ==
  /\ call[t].op = "alloc"
  /\ call' = [call EXCEPT ![t] = Answered(NULL)]
  /\ UNCHANGED used

(* A request may also be refused on the spot. *)
Reject(t) ==
  /\ call[t] = Idle
  /\ call' = [call EXCEPT ![t] = Answered(NULL)]
  /\ UNCHANGED used

Return(t) ==
  /\ call[t].op = "ret"
  /\ call' = [call EXCEPT ![t] = Idle]
  /\ UNCHANGED used

(* A block is freed by a thread that got it, or was given it. *)
Free(t, b) ==
  /\ call[t] = Idle
  /\ \A u \in Thread : call[u].op \in {"ret", "free"} => call[u].blk # b
  /\ call' = [call EXCEPT ![t] = Freeing(b)]
  /\ UNCHANGED used

Release(t) ==
  /\ call[t].op = "free"
  /\ used' = used \ {call[t].blk}
  /\ call' = [call EXCEPT ![t] = Idle]

Next ==
  \E t \in Thread :
    \/ \E s \in Requests : Alloc(t, s)
    \/ \E b \in Chunk : Grant(t, b)
    \/ Refuse(t) \/ Reject(t)
    \/ Return(t)
    \/ \E b \in used : Free(t, b)
    \/ Release(t)

Spec == Init /\ [][Next]_specVars
=============================================================================
