------------------------------- MODULE PmmInd -------------------------------
(***************************************************************************)
(* The inductive invariant behind NoOverlap, OneOwner and MutualExclusion  *)
(* of Pmm.  None of the three is inductive: that two objects of a slab are *)
(* disjoint depends on the free list being disjoint from every object      *)
(* handed out, that on a freed object having its slab's size, and all of   *)
(* it on what a thread read under a lock being still true when it writes.  *)
(* After it, the invariants that the other properties and the refinement   *)
(* need beside IInv.                                                       *)
(***************************************************************************)
EXTENDS Pmm

(* What a thread's locals are, by where it is in the code. *)
LocalOK(t) ==
  /\ pc[t] # "idle" => booted
  /\ pc[t] \in {"idle"} \cup FreePc => slab[t] = NULL
  /\ pc[t] \in SmallPc => size[t] \in Served /\ IsSmall(size[t]) /\ slab[t] # NULL
  /\ pc[t] \in {"G_alloc", "G_take"} =>
       size[t] \in Served /\ (slab[t] = NULL <=> ~IsSmall(size[t]))
  /\ ret[t] # NULL => pc[t] = "ret"
  /\ ptr[t] # NULL <=> pc[t] \in FreePc
  /\ pc[t] \in {"S_free", "S_link"} => Meta[ptr[t].pg].is_slab
  /\ pc[t] \in {"G_free", "G_clear"} => ~Meta[ptr[t].pg].is_slab
LocalInv == \A t \in Thread : LocalOK(t)

(* An initialised slab: slab_init has set its size. *)
Linked(p) == sz[p] # 0

(* Chains lead to initialised slabs of one size only. *)
LinkedInv == \A p \in Page : Linked(p) =>
               IsSlab(p) /\ \E j \in Class : sz[p] = ClassSize(j)
HeadInv   == \A c \in CPU, j \in Class :
               Slab[c][j] # NULL => sz[Slab[c][j]] = ClassSize(j)
ChainInv  == \A p \in Page :
               next[p] # NULL => Linked(p) /\ sz[next[p]] = sz[p]
CursorOK(t) == slab[t] # NULL =>
                 /\ Linked(slab[t])
                 /\ pc[t] # "ret" => sz[slab[t]] = RoundSize(size[t])
CursorInv == \A t \in Thread : CursorOK(t)

(* The page an add_slab has taken from G_alloc and not yet initialised is  *)
(* a slab to Meta and belongs to that add_slab alone.                      *)
Pending(t, p) == pc[t] = "add_slab_link" /\ page[t] # NULL /\ page[t] = p
PendingInv ==
  /\ \A t \in Thread : pc[t] = "add_slab_link" => page[t] \in PageOrNull
  /\ \A t \in Thread, p \in Page : Pending(t, p) =>
       /\ IsSlab(p) /\ ~Linked(p)
       /\ \A u \in Thread : Pending(u, p) => t = u

(* What a thread read under a lock still holds. *)
SnapOK(t) ==
  /\ pc[t] \in {"slab_take", "new_slab_take"} => list[t] = n_head[slab[t]]
  /\ pc[t] = "S_link" => list[t] = n_head[ptr[t].pg]
  /\ pc[t] = "G_take" /\ page[t] # NULL =>
       page[t] \in Page /\ try_alloc(page[t], npage(t))
  /\ pc[t] = "G_clear" => page[t] = Meta[ptr[t].pg].end
SnapInv == \A t \in Thread : SnapOK(t)

SlabBlock(b) ==
  /\ IsSlab(b.pg) /\ Linked(b.pg)
  /\ b.np = 1 /\ b.len = sz[b.pg]
  /\ HDR <= b.off /\ b.off + b.len <= GPAGE_SZ
LargeBlock(b) ==
  /\ b.off = 0 /\ b.len = GPAGE_SZ /\ b.np # 0
  /\ \A k \in b.pg .. b.pg + b.np - 1 :
       /\ k \in MetaIdx
       /\ Meta[k].is_alloc /\ ~Meta[k].is_slab /\ Meta[k].end = b.pg + b.np

(* A block in use is a slab object of its slab's size or a run of pages    *)
(* that Meta describes as one block.                                       *)
BlockInv == \A b \in Owned : SlabBlock(b) \/ LargeBlock(b)

(* Free nodes are inside the payload, in order, and away from every object *)
(* in use.                                                                 *)
NodeOK(n)   == n.size # 0 /\ HDR <= n.off /\ n.off + n.size <= GPAGE_SZ
Before(m, n) == m.off + m.size <= n.off
Apart(n, b) == n.off + n.size <= b.off \/ b.off + b.len <= n.off
ListOK(l) ==
  \A i \in 1 .. Len(l) :
    /\ NodeOK(l[i])
    /\ \A j \in 1 .. Len(l) : i < j => Before(l[i], l[j])
FreeInv ==
  \A p \in Page :
    /\ ~Linked(p) => n_head[p] = <<>>
    /\ ListOK(n_head[p])
    /\ \A i \in 1 .. Len(n_head[p]), b \in Owned : b.pg = p => Apart(n_head[p][i], b)

(* The allocator's inductive invariant: every state of the two-CPU runs    *)
(* satisfies it, and PmmProofs shows that every step preserves it.         *)
IInv ==
  /\ TypeShared /\ TypeLocal /\ LocalInv /\ MutualExclusion
  /\ LinkedInv /\ HeadInv /\ ChainInv /\ CursorInv /\ PendingInv
  /\ SnapInv /\ BlockInv /\ OneOwner /\ NoOverlap /\ FreeInv
----------------------------------------------------------------------------
(* What AssertsHold, SlabsSound, NoLeak and NullOnlyWhenFull need beside    *)
(* IInv.  Each part is preserved by every step from a state with IInv.     *)

(* Free nodes and objects in use start at multiples of the object size,    *)
(* and a free node is a whole number of objects.                           *)
Whole(n, c) == n.off % c = 0 /\ n.size % c = 0
WholeInv ==
  /\ \A p \in Page : \A i \in 1 .. Len(n_head[p]) : Whole(n_head[p][i], sz[p])
  /\ \A b \in Owned : Linked(b.pg) => b.off % sz[b.pg] = 0

(* No slab has two predecessors, follows itself, or heads two chains.      *)
ApartInv ==
  /\ \A p, q \in Page : next[p] # NULL /\ next[p] = next[q] => p = q
  /\ \A p \in Page : next[p] # p
  /\ \A c \in CPU, j \in Class : Slab[c][j] # NULL =>
       /\ \A d \in CPU, k \in Class : Slab[d][k] = Slab[c][j] => d = c /\ k = j
       /\ \A p \in Page : next[p] # Slab[c][j]

(* G_alloc's loop ran to its end because no candidate was free, and none   *)
(* can become free before the unlock.                                      *)
FullInv == \A t \in Thread : pc[t] = "G_take" /\ page[t] = NULL =>
             \A i \in Cand(npage(t)) : ~try_alloc(i, npage(t))

(* Every byte behind a slab's header is in a free node or in an object in  *)
(* use, and every allocated page that is no slab in a block in use.        *)
InNode(x, n)  == n.off <= x /\ x < n.off + n.size
InBlock(x, b) == b.off <= x /\ x < b.off + b.len
SpaceOK(p) ==
  LET first == FirstOff(sz[p]) IN
    /\ \A i \in 1 .. Len(n_head[p]) : first <= n_head[p][i].off
    /\ \A b \in Owned : b.pg = p => first <= b.off
    /\ \A x \in first .. GPAGE_SZ - 1 :
         \/ \E i \in 1 .. Len(n_head[p]) : InNode(x, n_head[p][i])
         \/ \E b \in Owned : b.pg = p /\ InBlock(x, b)
SpaceInv ==
  /\ \A p \in Page : Linked(p) => SpaceOK(p)
  /\ \A p \in Page : Meta[p].is_alloc /\ ~Meta[p].is_slab =>
       \E b \in Owned : b.pg <= p /\ p < b.pg + b.np

(* The chains of a CPU can be told from those of the others, and a thread  *)
(* is on a chain of its CPU.                                               *)
Charted(own) ==
  /\ \A c \in CPU, j \in Class : Slab[c][j] # NULL => own[Slab[c][j]] = c
  /\ \A p \in Page : next[p] # NULL => own[next[p]] = own[p]
  /\ \A t \in Thread : slab[t] # NULL => own[slab[t]] = cpu_current[t]
ChartInv == \E own \in [Page -> CPU \cup {NULL}] : Charted(own)

(* G_alloc takes the run its loop found, at a multiple of its length.      *)
FitInv == \A t \in Thread : pc[t] = "G_take" /\ page[t] # NULL =>
            page[t] \in Cand(npage(t))

(* No run that starts at a multiple of its length in the heap ends past it. *)
HeapEndAligned == \A s \in Large : (GP + n_meta) % NPage(s) = 0

(* How the kernel runs at this commit: no interrupt handler and no second  *)
(* thread of a CPU allocates.                                              *)
OneThreadPerCpu == \A t, u \in Thread : cpu_current[t] = cpu_current[u] => t = u

(* While add_slab runs, the slab it starts from is the last of its chain;  *)
(* and nobody has taken from the slab it made.  Both need OneThreadPerCpu. *)
TailPc   == {"add_slab", "G_alloc", "G_take", "add_slab_link"}
TailInv  == \A t \in Thread : pc[t] \in TailPc /\ slab[t] # NULL => next[slab[t]] = NULL
FreshInv == \A t \in Thread : pc[t] \in {"new_slab_alloc", "new_slab_take"} =>
              n_head[slab[t]] # <<>>
=============================================================================
