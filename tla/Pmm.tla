-------------------------------- MODULE Pmm --------------------------------
(***************************************************************************)
(* The kernel's physical memory manager, src/kernel/src/pmm.c.             *)
(*                                                                         *)
(* The heap is an array of pages of GPAGE_SZ bytes, page i starting at     *)
(* G_start + i * GPAGE_SZ and described by Meta[i].  G_alloc and G_free    *)
(* hand out aligned runs of pages under one lock, G_lock.  Small requests  *)
(* come from slabs: a slab is one page, never given back, whose header     *)
(* holds a lock, an object size, a free list sorted by address and a link  *)
(* to the next slab of the same CPU and class.  Slab[cpu][class] is the    *)
(* head of that chain.                                                     *)
(*                                                                         *)
(* An address is a page and an offset in it, so ROUNDDOWN(p, GPAGE_SZ) is  *)
(* the page.  A critical section is two steps: taking the lock with what   *)
(* is read first, then the writes with the unlock.  kfree reads            *)
(* meta->is_slab with no lock, in the step of its own that it is in C.     *)
(***************************************************************************)
EXTENDS Integers, SequencesExt

CONSTANTS
  Thread,       \* the threads of control that call pmm->alloc and pmm->free
  NCPU,         \* cpu_count()
  cpu_current,  \* the CPU each thread runs on
  GPAGE_SZ,     \* bytes of a page
  META_SZ,      \* entries of the array Meta
  MAX_ALLOC,    \* the largest request served
  HDR,          \* offset of S_header_t.payload
  MIN_SZ,       \* the smallest object (16 in the code)
  SLAB_SIZE,    \* number of slab classes
  GP,           \* G_start / GPAGE_SZ, the absolute number of page 0
  HeapSize,     \* heap.end - G_start, in bytes
  Requests,     \* the sizes callers ask for
  Uninit,       \* what is_alloc may read as in an entry meta_init never wrote
  NULL

CPU   == 0 .. NCPU - 1
Class == 0 .. SLAB_SIZE - 1

----------------------------------------------------------------------------
(* Sizes *)

ROUNDUP(a, s)   == ((a + s - 1) \div s) * s
ROUNDDOWN(a, s) == (a \div s) * s

(* 1 << (j + 4): the object size of class j. *)
ClassSize(j) == MIN_SZ * 2^j
MAX_SLAB     == ClassSize(SLAB_SIZE - 1)

(* The least power of two that is not below x; 0 for 0, as x - 1 wraps.    *)
(* kalloc asks for x up to MAX_ALLOC, 2^24.                                *)
nextPower_2(x) ==
  IF x = 0 THEN 0
  ELSE CHOOSE p \in {2^k : k \in 0 .. 24} : p >= x /\ p < 2 * x

(* The first lines of kalloc: what a request of `size` bytes becomes. *)
RoundSize(size) ==
  IF nextPower_2(size) < MIN_SZ THEN MIN_SZ ELSE nextPower_2(size)

IsSmall(size) == RoundSize(size) <= MAX_SLAB

get_slab_index(x) == CHOOSE j \in Class : ClassSize(j) = x

NPage(size) ==
  LET n == RoundSize(size) \div GPAGE_SZ IN IF n = 0 THEN 1 ELSE n

(* slab_init: where the first free node of a class starts and its length.  *)
FirstOff(c)  == ROUNDUP(HDR, c)
FirstSize(c) == ROUNDDOWN(GPAGE_SZ - HDR, c)

(* meta_init: the first entry that would reach past heap.end stops it. *)
n_meta ==
  CHOOSE i \in 0 .. META_SZ - 1 :
    /\ (i + 1) * GPAGE_SZ > HeapSize
    /\ i * GPAGE_SZ <= HeapSize

MetaIdx == 0 .. META_SZ - 1    \* entries of Meta
Page    == 0 .. n_meta - 1     \* pages whose entry meta_init wrote


(* The starts G_alloc tries: aligned to n pages, and is_valid_ret. *)
Cand(n) == {i \in Page : (GP + i) % n = 0}

(* A block covers, in each of the pages pg .. pg+np-1, the offsets          *)
(* off .. off+len-1: one page for a slab object, whole pages for the rest.  *)
(* Only pg and off are an address the code sees.                            *)
Block == [pg : Page, np : Nat, off : Nat, len : Nat]

Served == {s \in Requests : s <= MAX_ALLOC}
Large  == {s \in Served : ~IsSmall(s)}

(* The bytes such a request is given. *)
BlockLen(s) == IF IsSmall(s) THEN RoundSize(s) ELSE NPage(s) * GPAGE_SZ

(***************************************************************************)
(* What the constants must satisfy; the values in the code do.             *)
(***************************************************************************)
ASSUME NullAssumption ==
  NULL \notin Int /\ NULL \notin Block /\ NULL \notin [addr : Nat, len : Nat]
ASSUME CpuAssumption  == NCPU \in Nat /\ cpu_current \in [Thread -> CPU]
ASSUME RequestAssumption ==
  /\ Requests \subseteq Nat /\ MAX_ALLOC \in Nat
  /\ \A s \in Served : RoundSize(s) \in Nat \ {0}
(* Every small size is the size of its class. *)
ASSUME ClassAssumption ==
  \A s \in Served : IsSmall(s) =>
     /\ get_slab_index(RoundSize(s)) \in Class
     /\ ClassSize(get_slab_index(RoundSize(s))) = RoundSize(s)
(* A slab's first free node lies after the header and inside the page. *)
ASSUME LayoutAssumption ==
  /\ GPAGE_SZ \in Nat \ {0} /\ HDR \in Nat \ {0}
  /\ \A j \in Class :
       LET c == ClassSize(j) IN
         /\ c \in Nat \ {0}
         /\ FirstOff(c) \in Nat /\ FirstSize(c) \in Nat \ {0}
         /\ HDR <= FirstOff(c) /\ FirstOff(c) + FirstSize(c) <= GPAGE_SZ
(* Object sizes divide the page: that node ends where the page does. *)
ASSUME PayloadAssumption ==
  \A j \in Class : FirstOff(ClassSize(j)) + FirstSize(ClassSize(j)) = GPAGE_SZ
(* The entries a request may look at are inside Meta. *)
ASSUME MetaAssumption ==
  /\ META_SZ \in Nat /\ n_meta \in 1 .. META_SZ /\ GP \in Nat
  /\ Uninit \subseteq BOOLEAN
  /\ \A s \in Large : NPage(s) \in Nat \ {0} /\ n_meta + NPage(s) <= META_SZ + 1
(* Meta has an entry for every page of the heap, and one to stop meta_init.  *)
ASSUME HeapAssumption == HeapSize \in 0 .. META_SZ * GPAGE_SZ - 1
(* A request is given enough, in a length that the power of two the tests   *)
(* want it aligned to divides: page and object sizes are powers of two.     *)
ASSUME LengthAssumption ==
  \A s \in Served : /\ BlockLen(s) >= s
                    /\ \A k \in 0 .. 24 : 2^k < 2 * s => BlockLen(s) % 2^k = 0

----------------------------------------------------------------------------
VARIABLES
  Meta,    \* the page table: is_alloc, is_slab, end (as a page number)
  G_lock,  \* 0 or 1
  Slab,    \* [CPU -> [Class -> page of the first slab]]
  lk,      \* per page, the lock in its slab header
  sz,      \* per page, the object size of the slab
  next,    \* per page, the next slab of the chain
  n_head,  \* per page, the free list: a sequence of nodes [off, size]
  live,    \* the blocks callers hold
  pc,      \* per thread, where in the code it is
  size,    \* per thread, the argument of kalloc
  slab,    \* per thread, the local `slab` of S_alloc (NULL in G_alloc(.., false))
  list,    \* per thread, the free list as read under the slab's lock
  page,    \* per thread, `try_ret` of G_alloc or `free_end` of G_free
  ret,     \* per thread, the block its call to kalloc is returning
  ptr      \* per thread, the block its call to kfree was given

shared == <<Meta, G_lock, Slab, lk, sz, next, n_head, live>>
local  == <<pc, size, slab, list, page, ret, ptr>>
vars   == <<shared, local>>

Object(p, n)   == [pg |-> p, np |-> 1, off |-> n.off, len |-> n.size]
Pages(p, n)    == [pg |-> p, np |-> n, off |-> 0, len |-> GPAGE_SZ]

booted == \A c \in CPU, j \in Class : Slab[c][j] # NULL

(* Definitions named *_Bug are slips this code invites; each is put in the  *)
(* place of the definition after it to see that a property notices.         *)
spin_free_Bug(l) == l \in {0, 1}

(* spin_lock returns when its exchange reads 0. *)
spin_free(l) == l = 0

(* Where a thread is inside a critical section. *)
HoldsG(t) == pc[t] \in {"G_take", "G_clear"}
(* The slab whose lock t holds, if any: add_slab keeps its lock during G_alloc. *)
AddsSlab(t) == pc[t] \in {"G_alloc", "G_take", "add_slab_link"} /\ slab[t] # NULL
HoldsS(t, p) ==
  \/ pc[t] \in {"slab_take", "new_slab_take"} /\ slab[t] = p
  \/ AddsSlab(t) /\ slab[t] = p
  \/ pc[t] = "S_link" /\ ptr[t].pg = p

----------------------------------------------------------------------------
(* Boot: pmm_init, on one CPU, before any other code runs. *)

(* An entry as meta_init leaves it, or with an arbitrary is_alloc. *)
MetaEntry(a) == [is_alloc |-> a, is_slab |-> FALSE, end |-> NULL]

Init ==
  /\ Meta \in {m \in [MetaIdx -> {MetaEntry(a) : a \in Uninit \cup {FALSE}}] :
                 \A i \in Page : ~m[i].is_alloc}
  /\ G_lock = 0
  /\ Slab = [c \in CPU |-> [j \in Class |-> NULL]]
  /\ lk = [p \in Page |-> 0]
  /\ sz = [p \in Page |-> 0]
  /\ next = [p \in Page |-> NULL]
  /\ n_head = [p \in Page |-> <<>>]
  /\ live = {}
  /\ pc = [t \in Thread |-> "idle"]
  /\ size = [t \in Thread |-> 0]
  /\ slab = [t \in Thread |-> NULL]
  /\ list = [t \in Thread |-> <<>>]
  /\ page = [t \in Thread |-> NULL]
  /\ ret = [t \in Thread |-> NULL]
  /\ ptr = [t \in Thread |-> NULL]

(* try_alloc: all n entries from i on are free.  Only i is known to be below *)
(* n_meta.                                                                   *)
try_alloc(i, n) == \A k \in i .. i + n - 1 : ~Meta[k].is_alloc

FirstFit_Bug(n) == {i \in Cand(n) : \A j \in Cand(n) : j >= i}
FirstFit_Bug2(n) ==
  {i \in Cand(n) : /\ try_alloc(i, n) /\ i + n < n_meta
                   /\ \A j \in Cand(n) : j < i => ~try_alloc(j, n)}

(* The loop of G_alloc: the first candidate that try_alloc accepts. *)
FirstFit(n) ==
  {i \in Cand(n) : /\ try_alloc(i, n)
                   /\ \A j \in Cand(n) : j < i => ~try_alloc(j, n)}

slow_alloc(i, n, is_slab) ==
  [k \in MetaIdx |->
     IF k \in i .. i + n - 1
     THEN [is_alloc |-> TRUE, is_slab |-> is_slab, end |-> i + n]
     ELSE Meta[k]]

(* slab_init on page p for objects of c bytes. *)
FreshList(c) == <<[off |-> FirstOff(c), size |-> FirstSize(c)]>>
slab_init(p, c) ==
  /\ sz' = [sz EXCEPT ![p] = c]
  /\ n_head' = [n_head EXCEPT ![p] = FreshList(c)]

(* One round of S_init's double loop; G_alloc meets no contention yet. *)
S_init ==
  \E c \in CPU, j \in Class :
    /\ Slab[c][j] = NULL
    /\ \A d \in CPU, k \in Class : (d < c \/ (d = c /\ k < j)) => Slab[d][k] # NULL
    /\ \E i \in FirstFit(1) :
         /\ Meta' = slow_alloc(i, 1, TRUE)
         /\ Slab' = [Slab EXCEPT ![c][j] = i]
         /\ slab_init(i, ClassSize(j))
         /\ lk' = [lk EXCEPT ![i] = 0]
         /\ next' = [next EXCEPT ![i] = NULL]
    /\ UNCHANGED <<G_lock, live, local>>

----------------------------------------------------------------------------
(* kalloc *)

Goto(t, l) == pc' = [pc EXCEPT ![t] = l]

(* The call: too large a request returns NULL at once, a small one walks   *)
(* the chain of the caller's CPU, the others go to G_alloc.                *)
kalloc(t, s) ==
  /\ booted
  /\ pc[t] = "idle"
  /\ size' = [size EXCEPT ![t] = s]
  /\ \/ /\ s > MAX_ALLOC
        /\ Goto(t, "ret")
        /\ UNCHANGED slab
     \/ /\ s <= MAX_ALLOC /\ IsSmall(s)
        /\ slab' = [slab EXCEPT ![t] =
                      Slab[cpu_current[t]][get_slab_index(RoundSize(s))]]
        /\ Goto(t, "slab_alloc")
     \/ /\ s <= MAX_ALLOC /\ ~IsSmall(s)
        /\ Goto(t, "G_alloc")
        /\ UNCHANGED slab
  /\ UNCHANGED <<shared, list, page, ret, ptr>>

(* The caller has the pointer (or NULL). *)
Return(t) ==
  /\ pc[t] = "ret"
  /\ live' = IF ret[t] = NULL THEN live ELSE live \cup {ret[t]}
  /\ Goto(t, "idle")
  /\ size' = [size EXCEPT ![t] = 0]
  /\ slab' = [slab EXCEPT ![t] = NULL]
  /\ ret' = [ret EXCEPT ![t] = NULL]
  /\ UNCHANGED <<Meta, G_lock, Slab, lk, sz, next, n_head, list, page, ptr>>

(* slab_alloc, on a slab of the chain or on the one add_slab just made. *)
slab_alloc_lock(t) ==
  /\ pc[t] \in {"slab_alloc", "new_slab_alloc"}
  /\ spin_free(lk[slab[t]])
  /\ lk' = [lk EXCEPT ![slab[t]] = 1]
  /\ list' = [list EXCEPT ![t] = n_head[slab[t]]]
  /\ Goto(t, IF pc[t] = "slab_alloc" THEN "slab_take" ELSE "new_slab_take")
  /\ UNCHANGED <<Meta, G_lock, Slab, sz, next, n_head, live, size, slab, page, ret, ptr>>

Carve_Bug(l, c) == [l EXCEPT ![1] = [off |-> l[1].off + c, size |-> l[1].size - c]]
Carve_Bug2(l, c) == Tail(l)

(* What taking c bytes off the head leaves of the free list l. *)
Carve(l, c) ==
  IF l[1].size = c THEN Tail(l)
  ELSE [l EXCEPT ![1] = [off |-> l[1].off + c, size |-> l[1].size - c]]

(* An empty slab sends S_alloc to the next one; add_slab's own slab must   *)
(* not be empty.  The asserts are guards: a failed one halts the CPU.      *)
slab_alloc_take(t) ==
  LET l == list[t]
      c == RoundSize(size[t])
      s == slab[t]
  IN
  /\ pc[t] \in {"slab_take", "new_slab_take"}
  /\ \/ /\ l = <<>> /\ pc[t] = "slab_take"
        /\ Goto(t, "S_next")
        /\ UNCHANGED <<n_head, ret>>
     \/ /\ l # <<>> /\ l[1].size >= c
        /\ n_head' = [n_head EXCEPT ![s] = Carve(l, c)]
        /\ ret' = [ret EXCEPT ![t] = Object(s, [off |-> l[1].off, size |-> c])]
        /\ Goto(t, "ret")
  /\ lk' = [lk EXCEPT ![s] = 0]
  /\ list' = [list EXCEPT ![t] = <<>>]
  /\ UNCHANGED <<Meta, G_lock, Slab, sz, next, live, size, slab, page, ptr>>

S_alloc_next_Bug(t) ==
  /\ pc[t] = "S_next" /\ spin_free(lk[slab[t]])
  /\ Goto(t, "slab_alloc")
  /\ UNCHANGED <<shared, size, slab, list, page, ret, ptr>>

(* The tail of S_alloc's loop: read slab->next under the lock. *)
S_alloc_next(t) ==
  /\ pc[t] = "S_next"
  /\ spin_free(lk[slab[t]])
  /\ \/ /\ next[slab[t]] # NULL
        /\ slab' = [slab EXCEPT ![t] = next[slab[t]]]
        /\ Goto(t, "slab_alloc")
     \/ /\ next[slab[t]] = NULL
        /\ Goto(t, "add_slab")
        /\ UNCHANGED slab
  /\ UNCHANGED <<shared, size, list, page, ret, ptr>>

add_slab_lock(t) ==
  /\ pc[t] = "add_slab"
  /\ spin_free(lk[slab[t]])
  /\ lk' = [lk EXCEPT ![slab[t]] = 1]
  /\ Goto(t, "G_alloc")
  /\ UNCHANGED <<Meta, G_lock, Slab, sz, next, n_head, live, size, slab, list, page, ret, ptr>>

(* The pages this G_alloc is for: one, for add_slab. *)
npage(t) == IF slab[t] # NULL THEN 1 ELSE NPage(size[t])

G_alloc_lock(t) ==
  LET fit == FirstFit(npage(t)) IN
  /\ pc[t] = "G_alloc"
  /\ spin_free(G_lock)
  /\ G_lock' = 1
  /\ \E i \in (IF fit = {} THEN {NULL} ELSE fit) : page' = [page EXCEPT ![t] = i]
  /\ Goto(t, "G_take")
  /\ UNCHANGED <<Meta, Slab, lk, sz, next, n_head, live, size, slab, list, ret, ptr>>

(* slow_alloc, or nothing if no candidate was free; then the unlock. *)
G_alloc_take(t) ==
  LET i == page[t]
      n == npage(t)
  IN
  /\ pc[t] = "G_take"
  /\ Meta' = IF i = NULL THEN Meta ELSE slow_alloc(i, n, slab[t] # NULL)
  /\ G_lock' = 0
  /\ \/ /\ slab[t] # NULL
        /\ Goto(t, "add_slab_link")
        /\ UNCHANGED <<page, ret>>
     \/ /\ slab[t] = NULL
        /\ Goto(t, "ret")
        /\ ret' = [ret EXCEPT ![t] = IF i = NULL THEN NULL ELSE Pages(i, n)]
        /\ page' = [page EXCEPT ![t] = NULL]
  /\ UNCHANGED <<Slab, lk, sz, next, n_head, live, size, slab, list, ptr>>

(* The rest of add_slab: initialise the page, hang it on the chain, unlock. *)
add_slab_link(t) ==
  LET s == slab[t]
      p == page[t]
  IN
  /\ pc[t] = "add_slab_link"
  /\ \/ /\ p = NULL
        /\ lk' = [lk EXCEPT ![s] = 0]
        /\ Goto(t, "ret")
        /\ UNCHANGED <<sz, n_head, next, slab>>
     \/ /\ p # NULL
        /\ next[s] = NULL
        /\ slab_init(p, sz[s])
        /\ next' = [next EXCEPT ![p] = NULL, ![s] = p]
        /\ lk' = [lk EXCEPT ![p] = 0, ![s] = 0]
        /\ slab' = [slab EXCEPT ![t] = p]
        /\ Goto(t, "new_slab_alloc")
  /\ page' = [page EXCEPT ![t] = NULL]
  /\ UNCHANGED <<Meta, G_lock, Slab, live, size, list, ret, ptr>>

----------------------------------------------------------------------------
(* kfree *)

(* The call reads is_slab of the pointer's page without a lock. *)
kfree(t, b) ==
  /\ booted
  /\ pc[t] = "idle"
  /\ live' = live \ {b}
  /\ ptr' = [ptr EXCEPT ![t] = b]
  /\ \/ /\ Meta[b.pg].is_slab
        /\ Goto(t, "S_free")
     \/ /\ ~Meta[b.pg].is_slab
        /\ b.off = 0
        /\ Goto(t, "G_free")
  /\ UNCHANGED <<Meta, G_lock, Slab, lk, sz, next, n_head, size, slab, list, page, ret>>

S_free_lock(t) ==
  /\ pc[t] = "S_free"
  /\ spin_free(lk[ptr[t].pg])
  /\ lk' = [lk EXCEPT ![ptr[t].pg] = 1]
  /\ list' = [list EXCEPT ![t] = n_head[ptr[t].pg]]
  /\ Goto(t, "S_link")
  /\ UNCHANGED <<Meta, G_lock, Slab, sz, next, n_head, live, size, slab, page, ret, ptr>>

StopsAt_Bug(l, k, x) == k = 1

(* The walk of S_free stops before the first node whose address is not     *)
(* below the freed one's, or at the end.                                   *)
StopsAt(l, k, x) ==
  /\ \A i \in 1 .. k - 1 : l[i].off < x.off
  /\ k <= Len(l) => x.off <= l[k].off

S_free_link(t) ==
  LET p == ptr[t].pg
      x == [off |-> ptr[t].off, size |-> sz[p]]
  IN
  /\ pc[t] = "S_link"
  /\ \E k \in 1 .. Len(list[t]) + 1 :
       /\ StopsAt(list[t], k, x)
       /\ k <= Len(list[t]) => list[t][k].off # x.off
       /\ n_head' = [n_head EXCEPT ![p] = InsertAt(list[t], k, x)]
  /\ lk' = [lk EXCEPT ![p] = 0]
  /\ list' = [list EXCEPT ![t] = <<>>]
  /\ ptr' = [ptr EXCEPT ![t] = NULL]
  /\ Goto(t, "idle")
  /\ UNCHANGED <<Meta, G_lock, Slab, sz, next, live, size, slab, page, ret>>

G_free_lock(t) ==
  /\ pc[t] = "G_free"
  /\ spin_free(G_lock)
  /\ G_lock' = 1
  /\ Meta[ptr[t].pg].end # NULL
  /\ page' = [page EXCEPT ![t] = Meta[ptr[t].pg].end]
  /\ Goto(t, "G_clear")
  /\ UNCHANGED <<Meta, Slab, lk, sz, next, n_head, live, size, slab, list, ret, ptr>>


(* The entries up to free_end become free; is_slab keeps its value. *)
FreeEntry(x) == [is_alloc |-> FALSE, is_slab |-> x.is_slab, end |-> NULL]
Cleared(m, i, e) ==
  [k \in MetaIdx |-> IF k \in i .. e - 1 THEN FreeEntry(m[k]) ELSE m[k]]

G_free_clear(t) ==
  LET i == ptr[t].pg
      e == page[t]
  IN
  /\ pc[t] = "G_clear"
  /\ \A k \in i .. e - 1 : Meta[k].is_alloc /\ ~Meta[k].is_slab /\ Meta[k].end = e
  /\ Meta' = Cleared(Meta, i, e)
  /\ G_lock' = 0
  /\ page' = [page EXCEPT ![t] = NULL]
  /\ ptr' = [ptr EXCEPT ![t] = NULL]
  /\ Goto(t, "idle")
  /\ UNCHANGED <<Slab, lk, sz, next, n_head, live, size, slab, list, ret>>

----------------------------------------------------------------------------
(* The steps of t inside a call. *)
Step(t) ==
  \/ slab_alloc_lock(t) \/ slab_alloc_take(t) \/ S_alloc_next(t)
  \/ add_slab_lock(t) \/ G_alloc_lock(t) \/ G_alloc_take(t) \/ add_slab_link(t)
  \/ S_free_lock(t) \/ S_free_link(t) \/ G_free_lock(t) \/ G_free_clear(t)
  \/ Return(t)

Next ==
  \/ S_init
  \/ \E t \in Thread :
       \/ \E s \in Requests : kalloc(t, s)
       \/ \E b \in live : kfree(t, b)
       \/ Step(t)

Spec == Init /\ [][Next]_vars

(* A CPU inside a call keeps running; callers owe no further call.  The    *)
(* spin lock is not fair, so nothing is assumed about who gets it.         *)
Fairness == WF_vars(S_init) /\ \A t \in Thread : WF_vars(Step(t))
FairSpec == Spec /\ Fairness

----------------------------------------------------------------------------
(* Properties *)

PageOrNull == Page \cup {NULL}
Node  == [off : Nat, size : Nat]

SmallPc == {"slab_alloc", "slab_take", "S_next", "add_slab", "add_slab_link",
            "new_slab_alloc", "new_slab_take"}
FreePc  == {"S_free", "S_link", "G_free", "G_clear"}

TypeShared ==
  /\ Meta \in [MetaIdx -> [is_alloc : BOOLEAN, is_slab : BOOLEAN,
                           end : Nat \cup {NULL}]]
  /\ G_lock \in {0, 1}
  /\ Slab \in [CPU -> [Class -> PageOrNull]]
  /\ lk \in [Page -> {0, 1}]
  /\ sz \in [Page -> Nat]
  /\ next \in [Page -> PageOrNull]
  /\ n_head \in [Page -> Seq(Node)]
  /\ live \subseteq Block

TypeLocal ==
  /\ pc \in [Thread -> {"idle", "ret", "G_alloc", "G_take"} \cup SmallPc \cup FreePc]
  /\ size \in [Thread -> Nat]
  /\ slab \in [Thread -> PageOrNull]
  /\ list \in [Thread -> Seq(Node)]
  /\ page \in [Thread -> Nat \cup {NULL}]
  /\ ret \in [Thread -> Block \cup {NULL}]
  /\ ptr \in [Thread -> Block \cup {NULL}]

(* Every variable holds a value the C declarations allow, and S_alloc's    *)
(* walk and kfree never dereference NULL.                                  *)
TypeOK ==
  /\ TypeShared /\ TypeLocal
  /\ \A t \in Thread :
       /\ pc[t] \in SmallPc => slab[t] \in Page
       /\ pc[t] \in FreePc => ptr[t] \in Block

(* The blocks some caller has or is about to get, and the ones whose kfree *)
(* has not yet reached its critical section's write.                       *)
Owned == (live \cup {ret[t] : t \in Thread} \cup {ptr[t] : t \in Thread}) \ {NULL}

Overlap(a, b) ==
  /\ a.pg < b.pg + b.np /\ b.pg < a.pg + a.np
  /\ a.off < b.off + b.len /\ b.off < a.off + a.len

(* No byte is in two blocks: slab_alloc, G_alloc, S_free and G_free of any *)
(* threads, on any CPUs, never hand out memory that is still in use.       *)
NoOverlap == \A a, b \in Owned : a # b => ~Overlap(a, b)

(* The same block is not handed out twice either: it is in the callers'    *)
(* hands, on its way to one caller, or on its way back from one.           *)
OneOwner ==
  \A t, u \in Thread :
    /\ ret[t] # NULL => /\ ret[t] \notin live
                        /\ ret[t] # ptr[u]
                        /\ t # u => ret[t] # ret[u]
    /\ ptr[t] # NULL => ptr[t] \notin live /\ (t # u => ptr[t] # ptr[u])

(* A block is within the pages meta_init set up, hence within the heap     *)
(* (am.h: "Memory area for [@start, @end)").                               *)
InHeap == \A b \in Owned : b.pg + b.np <= n_meta

(* The C asserts that sit after a lock, a call or a walk, where another    *)
(* thread may have changed what they test: slab_alloc (node->size >= size, *)
(* a fresh slab is not empty), add_slab (slab->next == NULL), S_free       *)
(* (node != node_head), G_free and kfree.                                  *)
AssertsHold ==
  \A t \in Thread :
    /\ pc[t] = "slab_take" => list[t] = <<>> \/ list[t][1].size >= RoundSize(size[t])
    /\ pc[t] = "new_slab_take" => list[t] # <<>>
    /\ pc[t] = "add_slab_link" /\ page[t] # NULL => next[slab[t]] = NULL
    /\ pc[t] = "G_take" /\ page[t] # NULL => try_alloc(page[t], npage(t))
    /\ pc[t] = "S_link" => \A i \in 1 .. Len(list[t]) : list[t][i].off # ptr[t].off
    /\ pc[t] = "G_free" => ptr[t].off = 0 /\ Meta[ptr[t].pg].end # NULL
    /\ pc[t] = "G_clear" =>
         \A k \in ptr[t].pg .. page[t] - 1 :
           Meta[k].is_alloc /\ ~Meta[k].is_slab /\ Meta[k].end = page[t]

(* At most one thread is inside a lock's critical section, and the lock is *)
(* taken exactly while one is.                                             *)
MutualExclusion ==
  /\ \A t, u \in Thread : HoldsG(t) /\ HoldsG(u) => t = u
  /\ G_lock = 1 <=> \E t \in Thread : HoldsG(t)
  /\ \A p \in Page :
       /\ \A t, u \in Thread : HoldsS(t, p) /\ HoldsS(u, p) => t = u
       /\ lk[p] = 1 <=> \E t \in Thread : HoldsS(t, p)

(* The slabs: the pages some chain reaches. *)
IsSlab(p) == Meta[p].is_alloc /\ Meta[p].is_slab
SlabPage  == {p \in Page : IsSlab(p)}

(* The bytes of page p's payload that are free, and that some block owns. *)
FreeBytes(p)  == UNION {n_head[p][i].off .. n_head[p][i].off + n_head[p][i].size - 1 :
                          i \in 1 .. Len(n_head[p])}
OwnedBytes(p) == UNION {b.off .. b.off + b.len - 1 :
                          b \in {x \in Owned : x.pg = p}}

(* Nothing is lost: the payload of every linked slab is exactly its free   *)
(* list and the objects handed out; every page marked allocated is a slab  *)
(* or part of a block somebody owns.                                       *)
NoLeak ==
  /\ \A p \in Page :
       n_head[p] # <<>> \/ (\E b \in Owned : b.pg = p /\ IsSlab(p))
         => /\ FreeBytes(p) \cap OwnedBytes(p) = {}
            /\ FreeBytes(p) \cup OwnedBytes(p) = FirstOff(sz[p]) .. GPAGE_SZ - 1
  /\ \A p \in Page :
       Meta[p].is_alloc /\ ~Meta[p].is_slab
         => \E b \in Owned : p \in b.pg .. b.pg + b.np - 1

(* Every slab is sound.  Its free list is sorted by address, its nodes lie *)
(* after the header and do not touch, and each is a whole number of        *)
(* aligned objects: what slab_alloc's carving and S_free's walk rely on.   *)
(* And it is on one chain only, of slabs of its size: no two chains, and   *)
(* no two slabs of one chain, lead to the same page.                       *)
ListSound(l, c) ==
  \A i \in 1 .. Len(l) :
    /\ HDR <= l[i].off /\ l[i].off + l[i].size <= GPAGE_SZ
    /\ l[i].off % c = 0 /\ l[i].size % c = 0 /\ l[i].size > 0
    /\ i < Len(l) => l[i].off + l[i].size <= l[i + 1].off
SlabsSound ==
  /\ \A p \in Page : ListSound(n_head[p], sz[p])
  /\ \A p, q \in SlabPage : next[p] # NULL /\ next[p] = next[q] => p = q
  /\ \A c \in CPU, j \in Class : Slab[c][j] # NULL =>
       /\ \A d \in CPU, k \in Class : Slab[d][k] = Slab[c][j] => d = c /\ k = j
       /\ \A p \in SlabPage : next[p] # Slab[c][j]
       /\ sz[Slab[c][j]] = ClassSize(j)
  /\ \A p \in SlabPage : next[p] # NULL => next[p] # p /\ sz[next[p]] = sz[p]

(* Once a slab, always a slab, with the same object size and a growing     *)
(* chain: this is what lets kfree read is_slab, and S_free read sz, of a   *)
(* page without having held its lock before.                               *)
SlabsStay ==
  [][\A p \in Page : IsSlab(p) /\ sz[p] # 0 =>
       /\ Meta'[p] = Meta[p] /\ sz'[p] = sz[p]
       /\ next[p] # NULL => next'[p] = next[p]]_vars

(* kalloc answers NULL to a request it serves only if, at that moment, no  *)
(* aligned run of free pages of that length is left in the heap.           *)
NullOnlyWhenFull ==
  [][\A t \in Thread :
       pc[t] = "G_take" /\ page[t] = NULL /\ pc'[t] # "G_take" =>
         \A i \in Page :
           (GP + i) % npage(t) = 0 /\ i + npage(t) <= n_meta
             => \E k \in i .. i + npage(t) - 1 : Meta[k].is_alloc]_vars

(***************************************************************************)
(* The allocator implements PmmSpec: blocks as byte ranges at absolute     *)
(* addresses, a call as what its caller can tell.  Slabs, page runs, locks *)
(* and the two critical sections of each call are invisible outside.       *)
(***************************************************************************)
Chunk(b) == [addr |-> (GP + b.pg) * GPAGE_SZ + b.off,
             len  |-> (b.np - 1) * GPAGE_SZ + b.len]

CallOf(t) ==
  CASE pc[t] = "idle" -> [op |-> "idle"]
    [] pc[t] = "ret" -> [op |-> "ret", blk |-> IF ret[t] = NULL THEN NULL ELSE Chunk(ret[t])]
    [] pc[t] \in {"S_free", "S_link", "G_free", "G_clear"} ->
         [op |-> "free", blk |-> Chunk(ptr[t])]
    [] OTHER -> [op |-> "alloc", size |-> size[t]]

Promise == INSTANCE PmmSpec WITH
  Start   <- GP * GPAGE_SZ,
  End     <- GP * GPAGE_SZ + HeapSize,
  Lengths <- {BlockLen(s) : s \in Served},
  used    <- {Chunk(b) : b \in Owned},
  call    <- [t \in Thread |-> CallOf(t)]

(* Every step of kalloc, kfree and what they call is a step PmmSpec allows *)
(* or changes nothing its callers see.                                     *)
Refines == Promise!Spec

(* Unless new calls keep starting, every call under way finishes: no lock  *)
(* is kept, no two threads wait for each other, every walk ends.           *)
Drains ==
  \/ []<>(\A t \in Thread : pc[t] = "idle")
  \/ []<><<\E t \in Thread : pc[t] = "idle" /\ pc'[t] # "idle">>_vars
=============================================================================
