------------------------------ MODULE Rounding ------------------------------
(***************************************************************************)
(* The arithmetic at the head of kalloc, src/kernel/src/pmm.c, with the    *)
(* code's own constants: how a request becomes an object size, a slab      *)
(* class or a number of pages.  Pmm takes from here that nextPower_2 and   *)
(* get_slab_index compute what their names say.                            *)
(***************************************************************************)
EXTENDS Integers, SequencesExt, Bitwise, Null

CONSTANTS
  Args,     \* the requests tried
  WORD      \* 2^width of size_t; TLC's integers allow up to 2^30

GPAGE_SZ  == 64 * 1024
MAX_ALLOC == 16 * 2^20
SLAB_SIZE == 9

VARIABLE request      \* what kalloc made of its argument (NULL: not called)
roundvars == <<request>>

Shifts == <<1, 2, 4, 8, 16>>

(* x - 1 wraps for 0; then every bit below the highest one is set. *)
nextPower_2(x) ==
  (FoldLeft(LAMBDA y, k : y | shiftR(y, k), (x - 1) % WORD, Shifts) + 1) % WORD

get_slab_index_Bug[x \in Nat] == IF x > 32 THEN 1 + get_slab_index_Bug[x \div 2] ELSE 0
Index_Bug(x) == get_slab_index_Bug[x]

(* The loop halves x until it is at most 16. *)
get_slab_index[x \in Nat] == IF x > 16 THEN 1 + get_slab_index[x \div 2] ELSE 0
Index(x) == get_slab_index[x]

npage(x) == IF x \div GPAGE_SZ = 0 THEN 1 ELSE x \div GPAGE_SZ

Request(size, kind, bytes, num) ==
  [size |-> size, kind |-> kind, bytes |-> bytes, num |-> num]

RoundInit == request = NULL

(* What kalloc hands on: a slab class, a number of pages, or NULL. *)
kalloc ==
  /\ request = NULL
  /\ \E size \in Args :
       LET p == nextPower_2(size)
           s == IF p < 16 THEN 16 ELSE p
       IN  \/ size > MAX_ALLOC /\ request' = Request(size, "refused", 0, 0)
           \/ size <= MAX_ALLOC /\ s <= 4096 /\ request' = Request(size, "class", s, Index(s))
           \/ size <= MAX_ALLOC /\ s > 4096 /\ request' = Request(size, "pages", s, npage(s))

RoundNext == kalloc

----------------------------------------------------------------------------
PowersOfTwo == {2^k : k \in 0 .. 24}

(* A granted request gets the least power of two that holds it, and never  *)
(* less than a slab's smallest object.  The class S_alloc looks in exists  *)
(* and has objects of exactly that size (S_init makes class j of           *)
(* 1 << (j + 4)); the pages G_alloc looks for hold the request, and their  *)
(* number is a power of two, so that aligning to it aligns to the size, as *)
(* test.c asserts.                                                         *)
RequestFits ==
  request # NULL /\ request.kind # "refused" =>
    LET size == request.size  bytes == request.bytes  num == request.num
    IN  /\ bytes \in PowersOfTwo /\ size <= bytes
        /\ bytes = 16 \/ bytes < 2 * size
        /\ request.kind = "class" => num \in 0 .. SLAB_SIZE - 1 /\ 2^(num + 4) = bytes
        /\ request.kind = "pages" =>
             /\ num \in PowersOfTwo /\ size <= num * GPAGE_SZ
             /\ num = 1 \/ num * GPAGE_SZ < 2 * size
=============================================================================
