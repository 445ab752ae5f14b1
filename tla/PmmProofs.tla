----------------------------- MODULE PmmProofs ------------------------------
EXTENDS PmmInd, SequenceTheorems, TLAPS

(* The first state satisfies the invariant: nothing is handed out, no lock *)
(* is held and no slab exists.                                             *)
LEMMA InitIInv == Init => IInv
<1> SUFFICES ASSUME Init PROVE IInv
  OBVIOUS
<1>1. TypeShared
  <2>1. Meta \in [MetaIdx -> [is_alloc : BOOLEAN, is_slab : BOOLEAN, end : Nat \cup {NULL}]]
    <3>1. \A a \in Uninit \cup {FALSE} :
            MetaEntry(a) \in [is_alloc : BOOLEAN, is_slab : BOOLEAN, end : Nat \cup {NULL}]
      BY MetaAssumption DEF MetaEntry
    <3>2. Meta \in [MetaIdx -> {MetaEntry(a) : a \in Uninit \cup {FALSE}}]
      BY DEF Init
    <3>3. {MetaEntry(a) : a \in Uninit \cup {FALSE}}
            \subseteq [is_alloc : BOOLEAN, is_slab : BOOLEAN, end : Nat \cup {NULL}]
      BY <3>1
    <3> QED
      BY <3>2, <3>3
  <2> QED
    BY <2>1 DEF Init, TypeShared, PageOrNull
<1>2. TypeLocal
  BY DEF Init, TypeLocal, PageOrNull
<1>3. Owned = {}
  BY DEF Init, Owned
<1>4. LocalInv
  BY DEF Init, LocalInv, LocalOK, FreePc, SmallPc
<1>5. MutualExclusion
  BY DEF Init, MutualExclusion, HoldsG, HoldsS, AddsSlab
<1>6. LinkedInv /\ HeadInv /\ ChainInv /\ CursorInv /\ PendingInv
  BY DEF Init, LinkedInv, HeadInv, ChainInv, CursorInv, CursorOK, PendingInv, Pending, Linked
<1>7. SnapInv
  BY DEF Init, SnapInv, SnapOK
<1>8. BlockInv /\ NoOverlap
  BY <1>3 DEF BlockInv, NoOverlap
<1>9. OneOwner
  BY DEF Init, OneOwner
<1>10. FreeInv
  BY DEF Init, FreeInv, ListOK, Linked
<1> QED
  BY <1>1, <1>2, <1>4, <1>5, <1>6, <1>7, <1>8, <1>9, <1>10 DEF IInv

(* The page and the object size that S_alloc starts from. *)
LEMMA ChainStart ==
  ASSUME IInv, booted, NEW t \in Thread, NEW s \in Served, IsSmall(s)
  PROVE  LET p == Slab[cpu_current[t]][get_slab_index(RoundSize(s))]
         IN  p \in Page /\ p # NULL /\ sz[p] = RoundSize(s) /\ Linked(p)
<1>1. cpu_current[t] \in CPU /\ get_slab_index(RoundSize(s)) \in Class
  BY CpuAssumption, ClassAssumption
<1>2. Slab[cpu_current[t]][get_slab_index(RoundSize(s))] \in Page
  BY <1>1 DEF IInv, TypeShared, PageOrNull, booted
<1>3. RoundSize(s) # 0
  BY RequestAssumption
<1> QED
  BY <1>1, <1>2, <1>3, ClassAssumption DEF IInv, HeadInv, booted, Linked

LEMMA KallocIInv ==
  ASSUME IInv, NEW t \in Thread, NEW s \in Requests, kalloc(t, s)
  PROVE  IInv'
<1> USE DEF IInv
<1>1. /\ pc[t] = "idle" /\ booted /\ slab[t] = NULL /\ ptr[t] = NULL /\ ret[t] = NULL
      /\ UNCHANGED <<Meta, G_lock, Slab, lk, sz, next, n_head, live, list, page, ret, ptr>>
  BY DEF kalloc, LocalInv, LocalOK, FreePc, shared
<1>2. /\ TypeLocal'
      /\ size'[t] = s
      /\ \/ pc'[t] = "ret" /\ slab'[t] = NULL
         \/ /\ pc'[t] = "slab_alloc" /\ s \in Served /\ IsSmall(s)
            /\ slab'[t] # NULL /\ slab'[t] \in Page /\ sz[slab'[t]] = RoundSize(s) /\ Linked(slab'[t])
         \/ pc'[t] = "G_alloc" /\ s \in Served /\ ~IsSmall(s) /\ slab'[t] = NULL
  <2> size' = [size EXCEPT ![t] = s] /\ s \in Nat /\ MAX_ALLOC \in Nat
    BY RequestAssumption DEF kalloc
  <2>1. CASE s > MAX_ALLOC
    <3>1. pc' = [pc EXCEPT ![t] = "ret"] /\ slab' = slab
      BY <2>1 DEF kalloc, Goto
    <3> QED
      BY <1>1, <3>1 DEF TypeLocal
  <2>2. CASE s <= MAX_ALLOC /\ IsSmall(s)
    <3> DEFINE p == Slab[cpu_current[t]][get_slab_index(RoundSize(s))]
    <3>1. pc' = [pc EXCEPT ![t] = "slab_alloc"] /\ slab' = [slab EXCEPT ![t] = p]
      BY <2>2 DEF kalloc, Goto
    <3>2. s \in Served /\ p \in Page /\ p # NULL /\ sz[p] = RoundSize(s) /\ Linked(p)
      BY <1>1, <2>2, ChainStart DEF Served
    <3> HIDE DEF p
    <3> QED
      BY <1>1, <2>2, <3>1, <3>2 DEF TypeLocal, PageOrNull, SmallPc
  <2>3. CASE s <= MAX_ALLOC /\ ~IsSmall(s)
    BY <1>1, <2>3 DEF kalloc, Goto, TypeLocal, Served
  <2> QED
    BY <2>1, <2>2, <2>3
<1>3. \A u \in Thread : u # t => pc'[u] = pc[u] /\ size'[u] = size[u] /\ slab'[u] = slab[u]
  BY DEF kalloc, Goto, TypeLocal
<1>4. Owned' = Owned
  BY <1>1 DEF Owned
<1>5. LocalInv'
  <2> SUFFICES ASSUME NEW u \in Thread PROVE LocalOK(u)'
    BY DEF LocalInv
  <2>1. CASE u = t
    BY <1>1, <1>2, <2>1 DEF LocalOK, FreePc, SmallPc, booted
  <2>2. CASE u # t
    BY <1>1, <1>3, <2>2 DEF LocalInv, LocalOK, booted
  <2> QED
    BY <2>1, <2>2
<1>6. MutualExclusion'
  <2>1. \A u \in Thread : HoldsG(u)' <=> HoldsG(u)
    BY <1>1, <1>2, <1>3 DEF HoldsG
  <2>2. \A u \in Thread, p \in Page : HoldsS(u, p)' <=> HoldsS(u, p)
    BY <1>1, <1>2, <1>3 DEF HoldsS, AddsSlab
  <2> QED
    BY <1>1, <2>1, <2>2 DEF MutualExclusion
<1>7. LinkedInv' /\ HeadInv' /\ ChainInv'
  BY <1>1 DEF LinkedInv, HeadInv, ChainInv, Linked, IsSlab
<1>8. CursorInv'
  BY <1>1, <1>2, <1>3 DEF CursorInv, CursorOK, Linked
<1>9. PendingInv'
  BY <1>1, <1>2, <1>3 DEF PendingInv, Pending, IsSlab, Linked
<1>10. SnapInv'
  BY <1>1, <1>2, <1>3 DEF SnapInv, SnapOK, try_alloc, npage
<1>11. BlockInv' /\ NoOverlap' /\ OneOwner'
  BY <1>1, <1>4 DEF BlockInv, NoOverlap, OneOwner, SlabBlock, LargeBlock, IsSlab, Linked
<1>12. FreeInv'
  BY <1>1, <1>4 DEF FreeInv, Linked
<1> QED
  BY <1>1, <1>2, <1>5, <1>6, <1>7, <1>8, <1>9, <1>10, <1>11, <1>12 DEF TypeShared

----------------------------------------------------------------------------
(* Facts about blocks. *)

(* A block in use is a block of the heap's pages. *)
LEMMA OwnedType == ASSUME IInv PROVE Owned \subseteq Block
  BY DEF IInv, TypeShared, TypeLocal, Owned

(* The block a kfree was given is in use until the free takes effect, and  *)
(* is of the kind that kfree found in Meta.                                *)
LEMMA FreedBlock ==
  ASSUME IInv, NEW t \in Thread, pc[t] \in FreePc
  PROVE  /\ ptr[t] \in Owned /\ ptr[t] \in Block /\ ptr[t] # NULL
         /\ pc[t] \in {"S_free", "S_link"} => SlabBlock(ptr[t])
         /\ pc[t] \in {"G_free", "G_clear"} => LargeBlock(ptr[t])
<1>1. ptr[t] \in Owned /\ ptr[t] \in Block /\ ptr[t] # NULL
  BY DEF IInv, LocalInv, LocalOK, TypeLocal, Owned
<1>2. SlabBlock(ptr[t]) \/ LargeBlock(ptr[t])
  BY <1>1 DEF IInv, BlockInv
<1>3. SlabBlock(ptr[t]) => Meta[ptr[t].pg].is_slab
  BY DEF SlabBlock, IsSlab
<1>4. LargeBlock(ptr[t]) => ~Meta[ptr[t].pg].is_slab
  BY <1>1, MetaAssumption DEF LargeBlock, Block, Page
<1> QED
  BY <1>1, <1>2, <1>3, <1>4 DEF IInv, LocalInv, LocalOK

(* Whoever holds a slab's lock holds the lock of an initialised slab. *)
LEMMA HolderLinked ==
  ASSUME IInv, NEW t \in Thread, NEW p, HoldsS(t, p)
  PROVE  p \in Page /\ Linked(p)
<1>1. CASE pc[t] = "S_link" /\ ptr[t].pg = p
  BY <1>1, FreedBlock DEF FreePc, SlabBlock, Block
<1>2. CASE slab[t] = p /\ slab[t] # NULL
  BY <1>2 DEF IInv, TypeLocal, PageOrNull, CursorInv, CursorOK
<1> QED
  BY <1>1, <1>2 DEF HoldsS, AddsSlab, IInv, LocalInv, LocalOK, SmallPc

----------------------------------------------------------------------------
(* Every action preserves the invariant. *)

LEMMA ReturnIInv ==
  ASSUME IInv, NEW t \in Thread, Return(t)
  PROVE  IInv'
<1> USE DEF IInv
<1>1. /\ pc[t] = "ret" /\ ptr[t] = NULL
      /\ UNCHANGED <<Meta, G_lock, Slab, lk, sz, next, n_head, list, page, ptr>>
      /\ live' = IF ret[t] = NULL THEN live ELSE live \cup {ret[t]}
  BY DEF Return, LocalInv, LocalOK, FreePc
<1>2. pc'[t] = "idle" /\ size'[t] = 0 /\ slab'[t] = NULL /\ ret'[t] = NULL
  BY DEF Return, Goto, TypeLocal
<1>3. \A u \in Thread : u # t => /\ pc'[u] = pc[u] /\ size'[u] = size[u]
                                /\ slab'[u] = slab[u] /\ ret'[u] = ret[u]
  BY DEF Return, Goto, TypeLocal
<1>4. Owned' = Owned
  BY <1>1, <1>2, <1>3 DEF Owned
<1>5. TypeLocal'
  BY DEF Return, Goto, TypeLocal, PageOrNull
<1>6. TypeShared'
  BY <1>1 DEF TypeShared, TypeLocal
<1>7. LocalInv'
  BY <1>1, <1>2, <1>3 DEF LocalInv, LocalOK, FreePc, SmallPc, booted
<1>8. MutualExclusion'
  <2>1. \A u \in Thread : HoldsG(u)' <=> HoldsG(u)
    BY <1>1, <1>2, <1>3 DEF HoldsG
  <2>2. \A u \in Thread, p \in Page : HoldsS(u, p)' <=> HoldsS(u, p)
    BY <1>1, <1>2, <1>3 DEF HoldsS, AddsSlab
  <2> QED
    BY <1>1, <2>1, <2>2 DEF MutualExclusion
<1>9. LinkedInv' /\ HeadInv' /\ ChainInv'
  BY <1>1 DEF LinkedInv, HeadInv, ChainInv, Linked, IsSlab
<1>10. CursorInv' /\ PendingInv'
  BY <1>1, <1>2, <1>3 DEF CursorInv, CursorOK, PendingInv, Pending, IsSlab, Linked
<1>11. SnapInv'
  BY <1>1, <1>2, <1>3 DEF SnapInv, SnapOK, try_alloc, npage
<1>12. BlockInv' /\ NoOverlap'
  BY <1>1, <1>4 DEF BlockInv, NoOverlap, SlabBlock, LargeBlock, IsSlab, Linked
<1>13. OneOwner'
  BY <1>1, <1>2, <1>3 DEF OneOwner
<1>14. FreeInv'
  BY <1>1, <1>4 DEF FreeInv, Linked
<1> QED
  BY <1>5, <1>6, <1>7, <1>8, <1>9, <1>10, <1>11, <1>12, <1>13, <1>14

LEMMA KfreeIInv ==
  ASSUME IInv, NEW t \in Thread, NEW b \in live, kfree(t, b)
  PROVE  IInv'
<1> USE DEF IInv
<1>1. /\ pc[t] = "idle" /\ booted /\ slab[t] = NULL /\ ptr[t] = NULL /\ ret[t] = NULL
      /\ UNCHANGED <<Meta, G_lock, Slab, lk, sz, next, n_head, size, slab, list, page, ret>>
      /\ live' = live \ {b} /\ b \in Block /\ b # NULL
  BY NullAssumption DEF kfree, LocalInv, LocalOK, FreePc, TypeShared
<1>2. /\ ptr'[t] = b
      /\ \/ pc'[t] = "S_free" /\ Meta[b.pg].is_slab
         \/ pc'[t] = "G_free" /\ ~Meta[b.pg].is_slab
  BY DEF kfree, Goto, TypeLocal
<1>3. \A u \in Thread : u # t => pc'[u] = pc[u] /\ ptr'[u] = ptr[u]
  BY DEF kfree, Goto, TypeLocal
<1>4. Owned' = Owned
  BY <1>1, <1>2, <1>3 DEF Owned
<1>5. TypeLocal'
  BY <1>1 DEF kfree, Goto, TypeLocal, FreePc
<1>6. TypeShared'
  BY <1>1 DEF TypeShared
<1>7. LocalInv'
  BY <1>1, <1>2, <1>3 DEF LocalInv, LocalOK, FreePc, SmallPc, booted
<1>8. MutualExclusion'
  <2>1. \A u \in Thread : HoldsG(u)' <=> HoldsG(u)
    BY <1>1, <1>2, <1>3 DEF HoldsG
  <2>2. \A u \in Thread, p \in Page : HoldsS(u, p)' <=> HoldsS(u, p)
    BY <1>1, <1>2, <1>3 DEF HoldsS, AddsSlab
  <2> QED
    BY <1>1, <2>1, <2>2 DEF MutualExclusion
<1>9. LinkedInv' /\ HeadInv' /\ ChainInv'
  BY <1>1 DEF LinkedInv, HeadInv, ChainInv, Linked, IsSlab
<1>10. CursorInv' /\ PendingInv'
  BY <1>1, <1>2, <1>3 DEF CursorInv, CursorOK, PendingInv, Pending, IsSlab, Linked
<1>11. SnapInv'
  BY <1>1, <1>2, <1>3 DEF SnapInv, SnapOK, try_alloc, npage
<1>12. BlockInv' /\ NoOverlap'
  BY <1>1, <1>4 DEF BlockInv, NoOverlap, SlabBlock, LargeBlock, IsSlab, Linked
<1>13. OneOwner'
  BY <1>1, <1>2, <1>3 DEF OneOwner
<1>14. FreeInv'
  BY <1>1, <1>4 DEF FreeInv, Linked
<1> QED
  BY <1>5, <1>6, <1>7, <1>8, <1>9, <1>10, <1>11, <1>12, <1>13, <1>14

LEMMA SlabAllocLockIInv ==
  ASSUME IInv, NEW t \in Thread, slab_alloc_lock(t)
  PROVE  IInv'
<1> USE DEF IInv
<1> DEFINE s == slab[t]
<1>1. /\ pc[t] \in {"slab_alloc", "new_slab_alloc"} /\ booted /\ ptr[t] = NULL /\ ret[t] = NULL
      /\ s # NULL /\ s \in Page /\ lk[s] = 0
      /\ UNCHANGED <<Meta, G_lock, Slab, sz, next, n_head, live, size, slab, page, ret, ptr>>
  BY DEF slab_alloc_lock, spin_free, LocalInv, LocalOK, FreePc, SmallPc, TypeLocal, PageOrNull
<1>2. list'[t] = n_head[s] /\ pc'[t] \in {"slab_take", "new_slab_take"}
  BY DEF slab_alloc_lock, Goto, TypeLocal
<1>3. \A u \in Thread : u # t => pc'[u] = pc[u] /\ list'[u] = list[u]
  BY DEF slab_alloc_lock, Goto, TypeLocal
<1>4. Owned' = Owned
  BY <1>1 DEF Owned
<1>5. TypeLocal'
  BY <1>1 DEF slab_alloc_lock, Goto, TypeLocal, TypeShared, SmallPc
<1>6. TypeShared'
  BY <1>1 DEF slab_alloc_lock, TypeShared
<1>7. LocalInv'
  BY <1>1, <1>2, <1>3 DEF LocalInv, LocalOK, FreePc, SmallPc, booted
<1>8. MutualExclusion'
  <2>1. \A u \in Thread : HoldsG(u)' <=> HoldsG(u)
    BY <1>1, <1>2, <1>3 DEF HoldsG
  <2>2. \A u \in Thread, p \in Page : HoldsS(u, p)' <=> HoldsS(u, p) \/ (u = t /\ p = s)
    BY <1>1, <1>2, <1>3 DEF HoldsS, AddsSlab
  <2>3. \A u \in Thread : ~HoldsS(u, s)
    BY <1>1 DEF MutualExclusion
  <2>4. lk'[s] = 1 /\ \A p \in Page : p # s => lk'[p] = lk[p]
    BY <1>1 DEF slab_alloc_lock, TypeShared
  <2> QED
    BY <1>1, <2>1, <2>2, <2>3, <2>4 DEF MutualExclusion
<1>9. LinkedInv' /\ HeadInv' /\ ChainInv'
  BY <1>1 DEF LinkedInv, HeadInv, ChainInv, Linked, IsSlab
<1>10. CursorInv' /\ PendingInv'
  BY <1>1, <1>2, <1>3 DEF CursorInv, CursorOK, PendingInv, Pending, IsSlab, Linked
<1>11. SnapInv'
  BY <1>1, <1>2, <1>3 DEF SnapInv, SnapOK, try_alloc, npage
<1>12. BlockInv' /\ NoOverlap' /\ OneOwner'
  BY <1>1, <1>4 DEF BlockInv, NoOverlap, OneOwner, SlabBlock, LargeBlock, IsSlab, Linked
<1>13. FreeInv'
  BY <1>1, <1>4 DEF FreeInv, Linked
<1> QED
  BY <1>5, <1>6, <1>7, <1>8, <1>9, <1>10, <1>11, <1>12, <1>13

LEMMA SAllocNextIInv ==
  ASSUME IInv, NEW t \in Thread, S_alloc_next(t)
  PROVE  IInv'
<1> USE DEF IInv
<1>1. /\ pc[t] = "S_next" /\ booted /\ ptr[t] = NULL /\ ret[t] = NULL
      /\ slab[t] # NULL /\ slab[t] \in Page
      /\ size[t] \in Served /\ IsSmall(size[t]) /\ sz[slab[t]] = RoundSize(size[t])
      /\ UNCHANGED <<Meta, G_lock, Slab, lk, sz, next, n_head, live, size, list, page, ret, ptr>>
  BY DEF S_alloc_next, LocalInv, LocalOK, FreePc, SmallPc, TypeLocal, PageOrNull, CursorInv, CursorOK, shared
<1>2. /\ pc'[t] \in {"slab_alloc", "add_slab"}
      /\ slab'[t] # NULL /\ slab'[t] \in Page
      /\ Linked(slab'[t]) /\ sz[slab'[t]] = RoundSize(size[t])
  BY <1>1, RequestAssumption
     DEF S_alloc_next, Goto, TypeLocal, TypeShared, PageOrNull, ChainInv, CursorInv, CursorOK, Linked
<1>3. \A u \in Thread : u # t => pc'[u] = pc[u] /\ slab'[u] = slab[u]
  BY DEF S_alloc_next, Goto, TypeLocal
<1>4. Owned' = Owned
  BY <1>1 DEF Owned
<1>5. TypeLocal'
  BY <1>1 DEF S_alloc_next, Goto, TypeLocal, TypeShared, SmallPc
<1>6. TypeShared'
  BY <1>1 DEF TypeShared
<1>7. LocalInv'
  BY <1>1, <1>2, <1>3 DEF LocalInv, LocalOK, FreePc, SmallPc, booted
<1>8. MutualExclusion'
  <2>1. \A u \in Thread : HoldsG(u)' <=> HoldsG(u)
    BY <1>1, <1>2, <1>3 DEF HoldsG
  <2>2. \A u \in Thread, p \in Page : HoldsS(u, p)' <=> HoldsS(u, p)
    BY <1>1, <1>2, <1>3 DEF HoldsS, AddsSlab
  <2> QED
    BY <1>1, <2>1, <2>2 DEF MutualExclusion
<1>9. LinkedInv' /\ HeadInv' /\ ChainInv'
  BY <1>1 DEF LinkedInv, HeadInv, ChainInv, Linked, IsSlab
<1>10. CursorInv' /\ PendingInv'
  BY <1>1, <1>2, <1>3 DEF CursorInv, CursorOK, PendingInv, Pending, IsSlab, Linked
<1>11. SnapInv'
  BY <1>1, <1>2, <1>3 DEF SnapInv, SnapOK, try_alloc, npage
<1>12. BlockInv' /\ NoOverlap' /\ OneOwner'
  BY <1>1, <1>4 DEF BlockInv, NoOverlap, OneOwner, SlabBlock, LargeBlock, IsSlab, Linked
<1>13. FreeInv'
  BY <1>1, <1>4 DEF FreeInv, Linked
<1> QED
  BY <1>5, <1>6, <1>7, <1>8, <1>9, <1>10, <1>11, <1>12, <1>13

LEMMA AddSlabLockIInv ==
  ASSUME IInv, NEW t \in Thread, add_slab_lock(t)
  PROVE  IInv'
<1> USE DEF IInv
<1> DEFINE s == slab[t]
<1>1. /\ pc[t] = "add_slab" /\ booted /\ ptr[t] = NULL /\ ret[t] = NULL
      /\ s # NULL /\ s \in Page /\ lk[s] = 0 /\ size[t] \in Served /\ IsSmall(size[t])
      /\ UNCHANGED <<Meta, G_lock, Slab, sz, next, n_head, live, size, slab, list, page, ret, ptr>>
  BY DEF add_slab_lock, spin_free, LocalInv, LocalOK, FreePc, SmallPc, TypeLocal, PageOrNull
<1>2. pc'[t] = "G_alloc"
  BY DEF add_slab_lock, Goto, TypeLocal
<1>3. \A u \in Thread : u # t => pc'[u] = pc[u]
  BY DEF add_slab_lock, Goto, TypeLocal
<1>4. Owned' = Owned
  BY <1>1 DEF Owned
<1>5. TypeLocal'
  BY <1>1 DEF add_slab_lock, Goto, TypeLocal
<1>6. TypeShared'
  BY <1>1 DEF add_slab_lock, TypeShared
<1>7. LocalInv'
  BY <1>1, <1>2, <1>3 DEF LocalInv, LocalOK, FreePc, SmallPc, booted
<1>8. MutualExclusion'
  <2>1. \A u \in Thread : HoldsG(u)' <=> HoldsG(u)
    BY <1>1, <1>2, <1>3 DEF HoldsG
  <2>2. \A u \in Thread, p \in Page : HoldsS(u, p)' <=> HoldsS(u, p) \/ (u = t /\ p = s)
    BY <1>1, <1>2, <1>3 DEF HoldsS, AddsSlab
  <2>3. \A u \in Thread : ~HoldsS(u, s)
    BY <1>1 DEF MutualExclusion
  <2>4. lk'[s] = 1 /\ \A p \in Page : p # s => lk'[p] = lk[p]
    BY <1>1 DEF add_slab_lock, TypeShared
  <2> QED
    BY <1>1, <2>1, <2>2, <2>3, <2>4 DEF MutualExclusion
<1>9. LinkedInv' /\ HeadInv' /\ ChainInv'
  BY <1>1 DEF LinkedInv, HeadInv, ChainInv, Linked, IsSlab
<1>10. CursorInv' /\ PendingInv'
  BY <1>1, <1>2, <1>3 DEF CursorInv, CursorOK, PendingInv, Pending, IsSlab, Linked
<1>11. SnapInv'
  BY <1>1, <1>2, <1>3 DEF SnapInv, SnapOK, try_alloc, npage
<1>12. BlockInv' /\ NoOverlap' /\ OneOwner'
  BY <1>1, <1>4 DEF BlockInv, NoOverlap, OneOwner, SlabBlock, LargeBlock, IsSlab, Linked
<1>13. FreeInv'
  BY <1>1, <1>4 DEF FreeInv, Linked
<1> QED
  BY <1>5, <1>6, <1>7, <1>8, <1>9, <1>10, <1>11, <1>12, <1>13

LEMMA GAllocLockIInv ==
  ASSUME IInv, NEW t \in Thread, G_alloc_lock(t)
  PROVE  IInv'
<1> USE DEF IInv
<1>1. /\ pc[t] = "G_alloc" /\ booted /\ ptr[t] = NULL /\ ret[t] = NULL
      /\ G_lock = 0 /\ G_lock' = 1
      /\ UNCHANGED <<Meta, Slab, lk, sz, next, n_head, live, size, slab, list, ret, ptr>>
  BY DEF G_alloc_lock, spin_free, LocalInv, LocalOK, FreePc
<1>2. PICK i \in Page \cup {NULL} :
        /\ page' = [page EXCEPT ![t] = i]
        /\ i # NULL => try_alloc(i, npage(t))
  BY DEF G_alloc_lock, FirstFit, Cand
<1>3. pc'[t] = "G_take" /\ page'[t] = i
  BY <1>2 DEF G_alloc_lock, Goto, TypeLocal
<1>4. \A u \in Thread : u # t => pc'[u] = pc[u] /\ page'[u] = page[u]
  BY <1>2 DEF G_alloc_lock, Goto, TypeLocal
<1>5. Owned' = Owned
  BY <1>1 DEF Owned
<1>6. TypeLocal'
  BY <1>1, <1>2, MetaAssumption DEF G_alloc_lock, Goto, TypeLocal, Page
<1>7. TypeShared'
  BY <1>1 DEF TypeShared
<1>8. LocalInv'
  BY <1>1, <1>3, <1>4 DEF LocalInv, LocalOK, FreePc, SmallPc, booted
<1>9. MutualExclusion'
  <2>1. \A u \in Thread : HoldsG(u)' <=> HoldsG(u) \/ u = t
    BY <1>1, <1>3, <1>4 DEF HoldsG
  <2>2. \A u \in Thread, p \in Page : HoldsS(u, p)' <=> HoldsS(u, p)
    BY <1>1, <1>3, <1>4 DEF HoldsS, AddsSlab
  <2>3. \A u \in Thread : ~HoldsG(u)
    BY <1>1 DEF MutualExclusion
  <2> QED
    BY <1>1, <2>1, <2>2, <2>3 DEF MutualExclusion
<1>10. LinkedInv' /\ HeadInv' /\ ChainInv'
  BY <1>1 DEF LinkedInv, HeadInv, ChainInv, Linked, IsSlab
<1>11. CursorInv' /\ PendingInv'
  BY <1>1, <1>3, <1>4 DEF CursorInv, CursorOK, PendingInv, Pending, IsSlab, Linked
<1>12. SnapInv'
  BY <1>1, <1>2, <1>3, <1>4 DEF SnapInv, SnapOK, try_alloc, npage
<1>13. BlockInv' /\ NoOverlap' /\ OneOwner'
  BY <1>1, <1>5 DEF BlockInv, NoOverlap, OneOwner, SlabBlock, LargeBlock, IsSlab, Linked
<1>14. FreeInv'
  BY <1>1, <1>5 DEF FreeInv, Linked
<1> QED
  BY <1>6, <1>7, <1>8, <1>9, <1>10, <1>11, <1>12, <1>13, <1>14

LEMMA SFreeLockIInv ==
  ASSUME IInv, NEW t \in Thread, S_free_lock(t)
  PROVE  IInv'
<1> USE DEF IInv
<1> DEFINE s == ptr[t].pg
<1>1. /\ pc[t] = "S_free" /\ booted /\ slab[t] = NULL /\ ret[t] = NULL
      /\ ptr[t] \in Block /\ s \in Page /\ lk[s] = 0
      /\ UNCHANGED <<Meta, G_lock, Slab, sz, next, n_head, live, size, slab, page, ret, ptr>>
  BY FreedBlock DEF S_free_lock, spin_free, LocalInv, LocalOK, FreePc, Block
<1>2. list'[t] = n_head[s] /\ pc'[t] = "S_link"
  BY DEF S_free_lock, Goto, TypeLocal
<1>3. \A u \in Thread : u # t => pc'[u] = pc[u] /\ list'[u] = list[u]
  BY DEF S_free_lock, Goto, TypeLocal
<1>4. Owned' = Owned
  BY <1>1 DEF Owned
<1>5. TypeLocal'
  BY <1>1 DEF S_free_lock, Goto, TypeLocal, TypeShared, FreePc
<1>6. TypeShared'
  BY <1>1 DEF S_free_lock, TypeShared
<1>7. LocalInv'
  BY <1>1, <1>2, <1>3 DEF LocalInv, LocalOK, FreePc, SmallPc, booted
<1>8. MutualExclusion'
  <2>1. \A u \in Thread : HoldsG(u)' <=> HoldsG(u)
    BY <1>1, <1>2, <1>3 DEF HoldsG
  <2>2. \A u \in Thread, p \in Page : HoldsS(u, p)' <=> HoldsS(u, p) \/ (u = t /\ p = s)
    BY <1>1, <1>2, <1>3 DEF HoldsS, AddsSlab
  <2>3. \A u \in Thread : ~HoldsS(u, s)
    BY <1>1 DEF MutualExclusion
  <2>4. lk'[s] = 1 /\ \A p \in Page : p # s => lk'[p] = lk[p]
    BY <1>1 DEF S_free_lock, TypeShared
  <2> QED
    BY <1>1, <2>1, <2>2, <2>3, <2>4 DEF MutualExclusion
<1>9. LinkedInv' /\ HeadInv' /\ ChainInv'
  BY <1>1 DEF LinkedInv, HeadInv, ChainInv, Linked, IsSlab
<1>10. CursorInv' /\ PendingInv'
  BY <1>1, <1>2, <1>3 DEF CursorInv, CursorOK, PendingInv, Pending, IsSlab, Linked
<1>11. SnapInv'
  BY <1>1, <1>2, <1>3 DEF SnapInv, SnapOK, try_alloc, npage
<1>12. BlockInv' /\ NoOverlap' /\ OneOwner'
  BY <1>1, <1>4 DEF BlockInv, NoOverlap, OneOwner, SlabBlock, LargeBlock, IsSlab, Linked
<1>13. FreeInv'
  BY <1>1, <1>4 DEF FreeInv, Linked
<1> QED
  BY <1>5, <1>6, <1>7, <1>8, <1>9, <1>10, <1>11, <1>12, <1>13

LEMMA GFreeLockIInv ==
  ASSUME IInv, NEW t \in Thread, G_free_lock(t)
  PROVE  IInv'
<1> USE DEF IInv
<1>1. /\ pc[t] = "G_free" /\ booted /\ slab[t] = NULL /\ ret[t] = NULL
      /\ ptr[t] \in Block /\ ptr[t].pg \in MetaIdx
      /\ G_lock = 0 /\ G_lock' = 1
      /\ UNCHANGED <<Meta, Slab, lk, sz, next, n_head, live, size, slab, list, ret, ptr>>
  BY FreedBlock, MetaAssumption DEF G_free_lock, spin_free, LocalInv, LocalOK, FreePc, Block, MetaIdx, Page
<1>2. page'[t] = Meta[ptr[t].pg].end /\ pc'[t] = "G_clear"
  BY DEF G_free_lock, Goto, TypeLocal
<1>3. \A u \in Thread : u # t => pc'[u] = pc[u] /\ page'[u] = page[u]
  BY DEF G_free_lock, Goto, TypeLocal
<1>4. Owned' = Owned
  BY <1>1 DEF Owned
<1>5. TypeLocal'
  <2>1. Meta[ptr[t].pg].end \in Nat \cup {NULL}
    BY <1>1 DEF TypeShared
  <2> QED
    BY <1>1, <2>1 DEF G_free_lock, Goto, TypeLocal, FreePc
<1>6. TypeShared'
  BY <1>1 DEF TypeShared
<1>7. LocalInv'
  BY <1>1, <1>2, <1>3 DEF LocalInv, LocalOK, FreePc, SmallPc, booted
<1>8. MutualExclusion'
  <2>1. \A u \in Thread : HoldsG(u)' <=> HoldsG(u) \/ u = t
    BY <1>1, <1>2, <1>3 DEF HoldsG
  <2>2. \A u \in Thread, p \in Page : HoldsS(u, p)' <=> HoldsS(u, p)
    BY <1>1, <1>2, <1>3 DEF HoldsS, AddsSlab
  <2>3. \A u \in Thread : ~HoldsG(u)
    BY <1>1 DEF MutualExclusion
  <2> QED
    BY <1>1, <2>1, <2>2, <2>3 DEF MutualExclusion
<1>9. LinkedInv' /\ HeadInv' /\ ChainInv'
  BY <1>1 DEF LinkedInv, HeadInv, ChainInv, Linked, IsSlab
<1>10. CursorInv' /\ PendingInv'
  BY <1>1, <1>2, <1>3 DEF CursorInv, CursorOK, PendingInv, Pending, IsSlab, Linked
<1>11. SnapInv'
  BY <1>1, <1>2, <1>3 DEF SnapInv, SnapOK, try_alloc, npage
<1>12. BlockInv' /\ NoOverlap' /\ OneOwner'
  BY <1>1, <1>4 DEF BlockInv, NoOverlap, OneOwner, SlabBlock, LargeBlock, IsSlab, Linked
<1>13. FreeInv'
  BY <1>1, <1>4 DEF FreeInv, Linked
<1> QED
  BY <1>5, <1>6, <1>7, <1>8, <1>9, <1>10, <1>11, <1>12, <1>13

----------------------------------------------------------------------------
(* Free lists. *)

(* The nodes of a list, and what they are made of. *)
LEMMA SeqOfNodes ==
  ASSUME NEW l \in Seq(Node)
  PROVE  /\ Len(l) \in Nat /\ (l # <<>> => Len(l) # 0)
         /\ \A i \in 1 .. Len(l) : l[i] \in Node /\ l[i].off \in Nat /\ l[i].size \in Nat
<1>1. Len(l) \in Nat /\ (l # <<>> => Len(l) # 0)
  BY LenProperties, EmptySeq
<1>2. \A i \in 1 .. Len(l) : l[i] \in Node
  BY ElementOfSeq
<1>3. \A n \in Node : n.off \in Nat /\ n.size \in Nat
  BY DEF Node
<1> QED
  BY <1>1, <1>2, <1>3

(* Taking c bytes off the head leaves a sorted list whose nodes lie in the *)
(* old ones and after the bytes taken.                                     *)
LEMMA CarveList ==
  ASSUME NEW l \in Seq(Node), l # <<>>, NEW c \in Nat \ {0}, l[1].size >= c, ListOK(l)
  PROVE  /\ Carve(l, c) \in Seq(Node)
         /\ ListOK(Carve(l, c))
         /\ \A i \in 1 .. Len(Carve(l, c)) :
              /\ l[1].off + c <= Carve(l, c)[i].off
              /\ \E j \in 1 .. Len(l) :
                   /\ l[j].off <= Carve(l, c)[i].off
                   /\ Carve(l, c)[i].off + Carve(l, c)[i].size <= l[j].off + l[j].size
<1>1. /\ Len(l) \in Nat \ {0} /\ \A i \in 1 .. Len(l) : l[i] \in Node
      /\ \A i \in 1 .. Len(l) : l[i].off \in Nat /\ l[i].size \in Nat
  BY SeqOfNodes
<1>2. CASE l[1].size = c
  <2>1. Carve(l, c) = Tail(l)
    BY <1>2 DEF Carve
  <2>2. /\ Tail(l) \in Seq(Node) /\ Len(Tail(l)) = Len(l) - 1
        /\ \A i \in 1 .. Len(l) - 1 : Tail(l)[i] = l[i + 1]
    BY <1>1
  <2>3. ListOK(Tail(l))
    BY <1>1, <2>2 DEF ListOK
  <2>4. \A i \in 1 .. Len(l) - 1 : l[1].off + c <= l[i + 1].off
    BY <1>1, <1>2 DEF ListOK, Before
  <2>5. \A i \in 1 .. Len(l) - 1 : \E j \in 1 .. Len(l) :
          l[j].off <= l[i + 1].off /\ l[i + 1].off + l[i + 1].size <= l[j].off + l[j].size
    <3> SUFFICES ASSUME NEW i \in 1 .. Len(l) - 1
                 PROVE  \E j \in 1 .. Len(l) :
                          /\ l[j].off <= l[i + 1].off
                          /\ l[i + 1].off + l[i + 1].size <= l[j].off + l[j].size
      OBVIOUS
    <3>1. i + 1 \in 1 .. Len(l) /\ l[i + 1].off \in Nat /\ l[i + 1].size \in Nat
      BY <1>1
    <3>2. l[i + 1].off <= l[i + 1].off /\ l[i + 1].off + l[i + 1].size <= l[i + 1].off + l[i + 1].size
      BY <3>1
    <3> QED
      BY <3>1, <3>2
  <2> DEFINE m == Tail(l)
  <2> HIDE DEF m
  <2>6. /\ Carve(l, c) = m /\ m \in Seq(Node) /\ ListOK(m) /\ Len(m) = Len(l) - 1
        /\ \A i \in 1 .. Len(m) : m[i] = l[i + 1]
    BY <2>1, <2>2, <2>3 DEF m
  <2> QED
    BY <2>4, <2>5, <2>6
<1>3. CASE l[1].size # c
  <2> DEFINE x == [off |-> l[1].off + c, size |-> l[1].size - c]
  <2> DEFINE m == [l EXCEPT ![1] = x]
  <2>1. Carve(l, c) = m
    BY <1>3 DEF Carve
  <2>2. x \in Node /\ x.off = l[1].off + c /\ x.size = l[1].size - c
    BY <1>1 DEF Node
  <2>3. NodeOK(x)
    BY <1>1, <1>3, <2>2, LayoutAssumption DEF ListOK, NodeOK
  <2> HIDE DEF x
  <2>4. /\ m \in Seq(Node) /\ Len(m) = Len(l) /\ m[1] = x
        /\ \A i \in 1 .. Len(l) : i # 1 => m[i] = l[i]
    BY <1>1, <2>2
  <2> HIDE DEF m
  <2>5. \A i \in 1 .. Len(l) : i # 1 => Before(l[1], l[i])
    BY <1>1 DEF ListOK
  <2>6. ListOK(m)
    <3> SUFFICES ASSUME NEW i \in 1 .. Len(l)
                 PROVE  NodeOK(m[i]) /\ \A j \in 1 .. Len(l) : i < j => Before(m[i], m[j])
      BY <2>4 DEF ListOK
    <3>1. CASE i = 1
      <4>1. x.off + x.size = l[1].off + l[1].size
        BY <1>1, <2>2
      <4>2. \A j \in 1 .. Len(l) : j # 1 => Before(x, l[j])
        BY <2>5, <4>1 DEF Before
      <4> QED
        BY <1>1, <2>3, <2>4, <3>1, <4>2
    <3>2. CASE i # 1
      BY <1>1, <2>4, <3>2 DEF ListOK
    <3> QED
      BY <3>1, <3>2
  <2>7. \A i \in 1 .. Len(l) : l[1].off + c <= m[i].off
    <3> SUFFICES ASSUME NEW i \in 1 .. Len(l) PROVE l[1].off + c <= m[i].off
      OBVIOUS
    <3>1. CASE i = 1
      <4>1. m[i].off = l[1].off + c
        BY <2>2, <2>4, <3>1
      <4> QED
        BY <1>1, <4>1
    <3>2. CASE i # 1
      <4>1. m[i].off = l[i].off /\ l[1].off + l[1].size <= l[i].off
        BY <2>4, <2>5, <3>2 DEF Before
      <4> QED
        BY <1>1, <4>1
    <3> QED
      BY <3>1, <3>2
  <2>8. \A i \in 1 .. Len(l) : /\ l[i].off <= m[i].off
                               /\ m[i].off + m[i].size <= l[i].off + l[i].size
    <3> SUFFICES ASSUME NEW i \in 1 .. Len(l)
                 PROVE  l[i].off <= m[i].off /\ m[i].off + m[i].size <= l[i].off + l[i].size
      OBVIOUS
    <3>1. CASE i = 1
      <4>1. m[i].off = l[1].off + c /\ m[i].size = l[1].size - c
        BY <2>2, <2>4, <3>1
      <4>2. l[1].off \in Nat /\ l[1].size \in Nat
        BY <1>1
      <4> QED
        BY <3>1, <4>1, <4>2
    <3>2. CASE i # 1
      <4>1. m[i] = l[i] /\ l[i].off \in Nat /\ l[i].size \in Nat
        BY <1>1, <2>4, <3>2
      <4> QED
        BY <4>1
    <3> QED
      BY <3>1, <3>2
  <2> QED
    BY <2>1, <2>4, <2>6, <2>7, <2>8
<1> QED
  BY <1>2, <1>3

(* InsertAt, element by element. *)
LEMMA InsertAtElements ==
  ASSUME NEW l \in Seq(Node), NEW k \in 1 .. Len(l) + 1, NEW x \in Node
  PROVE  /\ InsertAt(l, k, x) \in Seq(Node)
         /\ Len(InsertAt(l, k, x)) = Len(l) + 1
         /\ \A i \in 1 .. Len(l) + 1 :
              InsertAt(l, k, x)[i] = IF i < k THEN l[i] ELSE IF i = k THEN x ELSE l[i - 1]
<1> DEFINE a == SubSeq(l, 1, k - 1)
<1> DEFINE b == SubSeq(l, k, Len(l))
<1>1. /\ a \in Seq(Node) /\ Len(a) = k - 1 /\ \A i \in 1 .. k - 1 : a[i] = l[i]
  BY SubSeqProperties
<1>2. /\ b \in Seq(Node) /\ Len(b) = Len(l) + 1 - k
      /\ \A i \in 1 .. Len(l) + 1 - k : b[i] = l[k + i - 1]
  BY SubSeqProperties
<1> HIDE DEF a, b
<1>3. /\ a \o <<x>> \in Seq(Node) /\ Len(a \o <<x>>) = k /\ (a \o <<x>>)[k] = x
      /\ \A i \in 1 .. k - 1 : (a \o <<x>>)[i] = l[i]
  BY SMTT(30), <1>1
<1>4. /\ (a \o <<x>>) \o b \in Seq(Node) /\ Len((a \o <<x>>) \o b) = Len(l) + 1
      /\ \A i \in 1 .. k : ((a \o <<x>>) \o b)[i] = (a \o <<x>>)[i]
      /\ \A i \in k + 1 .. Len(l) + 1 : ((a \o <<x>>) \o b)[i] = l[i - 1]
  <2> DEFINE d == a \o <<x>>
  <2> HIDE DEF d
  <2>1. d \in Seq(Node) /\ Len(d) = k /\ Len(l) \in Nat
    BY <1>3, LenProperties DEF d
  <2>2. /\ d \o b \in Seq(Node) /\ Len(d \o b) = Len(l) + 1
        /\ \A i \in 1 .. Len(l) + 1 : (d \o b)[i] = IF i <= k THEN d[i] ELSE b[i - k]
    <3>1. Len(d) + Len(b) = Len(l) + 1
      BY <1>2, <2>1
    <3>2. /\ d \o b \in Seq(Node) /\ Len(d \o b) = Len(d) + Len(b)
          /\ \A i \in 1 .. Len(d) + Len(b) : (d \o b)[i] =
                IF i <= Len(d) THEN d[i] ELSE b[i - Len(d)]
      BY <1>2, <2>1, ConcatProperties
    <3> QED
      BY <2>1, <3>1, <3>2
  <2>3. \A i \in k + 1 .. Len(l) + 1 : b[i - k] = l[i - 1]
    <3> SUFFICES ASSUME NEW i \in k + 1 .. Len(l) + 1 PROVE b[i - k] = l[i - 1]
      OBVIOUS
    <3>1. i - k \in 1 .. Len(l) + 1 - k /\ k + (i - k) - 1 = i - 1
      BY <2>1
    <3> QED
      BY <1>2, <3>1
  <2> QED
    BY SMTT(30), <2>1, <2>2, <2>3 DEF d
<1>5. InsertAt(l, k, x) = (a \o <<x>>) \o b
  BY DEF InsertAt, a, b
<1> QED
  BY SMTT(30), <1>3, <1>4, <1>5

(* S_free's walk puts a node that touches no other where the list stays    *)
(* sorted.                                                                 *)
LEMMA InsertList ==
  ASSUME NEW l \in Seq(Node), ListOK(l), NEW x \in Node, NodeOK(x),
         NEW k \in 1 .. Len(l) + 1, StopsAt(l, k, x),
         \A i \in 1 .. Len(l) : Before(l[i], x) \/ Before(x, l[i])
  PROVE  /\ InsertAt(l, k, x) \in Seq(Node)
         /\ ListOK(InsertAt(l, k, x))
         /\ \A i \in 1 .. Len(InsertAt(l, k, x)) :
              InsertAt(l, k, x)[i] = x \/ \E j \in 1 .. Len(l) : InsertAt(l, k, x)[i] = l[j]
<1> DEFINE m == InsertAt(l, k, x)
<1>1. /\ m \in Seq(Node) /\ Len(m) = Len(l) + 1
      /\ \A i \in 1 .. Len(l) + 1 : m[i] = IF i < k THEN l[i] ELSE IF i = k THEN x ELSE l[i - 1]
  BY InsertAtElements
<1> HIDE DEF m
<1>2. /\ \A i \in 1 .. Len(l) : l[i].off \in Nat /\ l[i].size \in Nat /\ NodeOK(l[i])
      /\ x.off \in Nat /\ x.size \in Nat /\ Len(l) \in Nat
  <2>1. x.off \in Nat /\ x.size \in Nat
    BY DEF Node
  <2> QED
    BY <2>1, SeqOfNodes DEF ListOK
<1>3. \A i \in 1 .. Len(l) : i < k => Before(l[i], x)
  BY <1>2 DEF StopsAt, Before, NodeOK
<1>4. \A i \in 1 .. Len(l) : k <= i => Before(x, l[i])
  <2> SUFFICES ASSUME NEW i \in 1 .. Len(l), k <= i PROVE Before(x, l[i])
    OBVIOUS
  <2>1. x.off <= l[k].off /\ k \in 1 .. Len(l)
    BY <1>2 DEF StopsAt
  <2>2. l[k].off <= l[i].off
    <3>1. CASE k = i
      BY <1>2, <3>1
    <3>2. CASE k < i
      <4>1. Before(l[k], l[i])
        BY <2>1, <3>2 DEF ListOK
      <4>2. l[k].off \in Nat /\ l[k].size \in Nat /\ l[i].off \in Nat
        BY <1>2, <2>1
      <4> QED
        BY <4>1, <4>2 DEF Before
    <3> QED
      BY <2>1, <3>1, <3>2
  <2> QED
    BY SMTT(30), <1>2, <2>1, <2>2 DEF Before, NodeOK
<1>5. ListOK(m)
  <2> SUFFICES ASSUME NEW i \in 1 .. Len(m)
               PROVE  NodeOK(m[i]) /\ \A j \in 1 .. Len(m) : i < j => Before(m[i], m[j])
    BY DEF ListOK
  <2>1. NodeOK(m[i])
    <3>1. CASE i < k
      BY SMTT(30), <1>1, <1>2, <3>1
    <3>2. CASE i = k
      BY <1>1, <1>2, <3>2
    <3>3. CASE i > k
      <4>1. m[i] = l[i - 1] /\ i - 1 \in 1 .. Len(l)
        BY <1>1, <1>2, <3>3
      <4> QED
        BY <1>2, <4>1
    <3> QED
      BY <1>1, <1>2, <3>1, <3>2, <3>3
  <2>2. ASSUME NEW j \in 1 .. Len(m), i < j PROVE Before(m[i], m[j])
    <3>1. CASE j < k
      BY <1>1, <1>2, <2>2, <3>1 DEF ListOK
    <3>2. CASE j = k
      BY SMTT(30), <1>1, <1>2, <1>3, <2>2, <3>2
    <3>3. CASE j > k /\ i < k
      <4>1. m[j] = l[j - 1] /\ m[i] = l[i] /\ i < j - 1 /\ j - 1 \in 1 .. Len(l) /\ i \in 1 .. Len(l)
        BY <1>1, <1>2, <2>2, <3>3
      <4> QED
        BY <4>1 DEF ListOK
    <3>4. CASE j > k /\ i = k
      BY <1>1, <1>2, <1>4, <2>2, <3>4
    <3>5. CASE j > k /\ i > k
      <4>1. m[j] = l[j - 1] /\ m[i] = l[i - 1] /\ i - 1 < j - 1
            /\ j - 1 \in 1 .. Len(l) /\ i - 1 \in 1 .. Len(l)
        BY <1>1, <1>2, <2>2, <3>5
      <4> QED
        BY <4>1 DEF ListOK
    <3> QED
      BY <1>1, <1>2, <3>1, <3>2, <3>3, <3>4, <3>5
  <2> QED
    BY <2>1, <2>2
<1>6. \A i \in 1 .. Len(m) : m[i] = x \/ \E j \in 1 .. Len(l) : m[i] = l[j]
  BY <1>1, <1>2
<1> QED
  BY <1>1, <1>5, <1>6 DEF m

----------------------------------------------------------------------------
(* The writing halves of the critical sections. *)

(* What is apart from a node is apart from any part of it. *)
LEMMA PartApart ==
  ASSUME NEW n \in Node, NEW m \in Node, NEW b \in Block, Apart(n, b),
         n.off <= m.off, m.off + m.size <= n.off + n.size
  PROVE  Apart(m, b)
<1>1. n.off \in Nat /\ n.size \in Nat /\ m.off \in Nat /\ m.size \in Nat
  BY DEF Node
<1>2. b.off \in Nat /\ b.len \in Nat
  BY DEF Block
<1> QED
  BY <1>1, <1>2 DEF Apart

(* A large block covers no slab page. *)
LEMMA LargeMissesSlab ==
  ASSUME NEW b \in Block, LargeBlock(b), NEW p \in Page, IsSlab(p)
  PROVE  ~(b.pg <= p /\ p < b.pg + b.np)
  BY MetaAssumption DEF LargeBlock, IsSlab, Block, Page

LEMMA SlabAllocTakeIInv ==
  ASSUME IInv, NEW t \in Thread, slab_alloc_take(t)
  PROVE  IInv'
<1> USE DEF IInv
<1> DEFINE s == slab[t]
           l == list[t]
           c == RoundSize(size[t])
           o == Object(s, [off |-> l[1].off, size |-> c])
<1>1. /\ pc[t] \in {"slab_take", "new_slab_take"} /\ booted /\ ptr[t] = NULL /\ ret[t] = NULL
      /\ s # NULL /\ s \in Page /\ size[t] \in Served /\ IsSmall(size[t])
      /\ UNCHANGED <<Meta, G_lock, Slab, sz, next, live, size, slab, page, ptr>>
  BY DEF slab_alloc_take, LocalInv, LocalOK, FreePc, SmallPc, TypeLocal, PageOrNull
<1>2. /\ l = n_head[s] /\ l \in Seq(Node)
      /\ sz[s] = c /\ c \in Nat \ {0} /\ Linked(s) /\ IsSlab(s)
  BY <1>1, RequestAssumption
     DEF SnapInv, SnapOK, TypeShared, CursorInv, CursorOK, LinkedInv
<1>3. \A u \in Thread : u # t => pc'[u] = pc[u] /\ list'[u] = list[u] /\ ret'[u] = ret[u]
  BY <1>1 DEF slab_alloc_take, Goto, TypeLocal
<1>4. \/ /\ l = <<>> /\ pc'[t] = "S_next" /\ ret' = ret /\ n_head' = n_head
      \/ /\ l # <<>> /\ l[1].size >= c /\ pc'[t] = "ret" /\ ret' = [ret EXCEPT ![t] = o]
         /\ n_head' = [n_head EXCEPT ![s] = Carve(l, c)]
  BY <1>1 DEF slab_alloc_take, Goto, TypeLocal
<1> HIDE DEF c, l, o
<1>5. lk'[s] = 0 /\ \A p \in Page : p # s => lk'[p] = lk[p]
  BY <1>1 DEF slab_alloc_take, TypeShared
<1>6. HoldsS(t, s) /\ \A u \in Thread : HoldsS(u, s) => u = t
  BY <1>1 DEF HoldsS, MutualExclusion
<1>7. ListOK(l)
  BY <1>1, <1>2 DEF FreeInv
(* the new object, if there is one *)
<1>8. ASSUME l # <<>>, l[1].size >= c
      PROVE  /\ o \in Block /\ o # NULL /\ o.pg = s /\ o.np = 1 /\ o.off = l[1].off /\ o.len = c
             /\ o.off + o.len <= l[1].off + l[1].size /\ SlabBlock(o)
             /\ Carve(l, c) \in Seq(Node)
  <2>1. l[1].off \in Nat /\ l[1].size \in Nat /\ NodeOK(l[1])
    BY <1>2, <1>7, <1>8, SeqOfNodes DEF ListOK
  <2>2. /\ o.pg = s /\ o.np = 1 /\ o.off = l[1].off /\ o.len = c /\ o \in Block
    BY <1>1, <1>2, <2>1 DEF o, Object, Block
  <2>3. o.off + o.len <= l[1].off + l[1].size
    BY <1>2, <1>8, <2>1, <2>2
  <2>4. SlabBlock(o)
    <3>1. HDR \in Nat /\ GPAGE_SZ \in Nat
      BY LayoutAssumption
    <3>2. IsSlab(o.pg) /\ Linked(o.pg) /\ o.len = sz[o.pg]
      BY <1>2, <2>2
    <3>3. HDR <= o.off /\ o.off + o.len <= GPAGE_SZ
      BY SMTT(30), <1>2, <2>1, <2>2, <2>3, <3>1 DEF NodeOK
    <3> QED
      BY <2>2, <3>2, <3>3 DEF SlabBlock
  <2> QED
    BY <1>2, <1>7, <1>8, <2>2, <2>3, <2>4, CarveList, NullAssumption
<1>9. TypeLocal'
  <2>1. ret' \in [Thread -> Block \cup {NULL}]
    BY <1>4, <1>8 DEF TypeLocal
  <2>2. pc' \in [Thread -> {"idle", "ret", "G_alloc", "G_take"} \cup SmallPc \cup FreePc]
    BY DEF slab_alloc_take, Goto, TypeLocal, SmallPc
  <2>3. list' \in [Thread -> Seq(Node)]
    BY DEF slab_alloc_take, TypeLocal
  <2> QED
    BY <1>1, <2>1, <2>2, <2>3 DEF TypeLocal
<1>10. TypeShared'
  <2>1. n_head' \in [Page -> Seq(Node)]
    BY <1>1, <1>4, <1>8 DEF TypeShared
  <2>2. lk' \in [Page -> {0, 1}]
    BY <1>1 DEF slab_alloc_take, TypeShared
  <2> QED
    BY <1>1, <2>1, <2>2 DEF TypeShared
<1>11. LocalInv'
  BY <1>1, <1>3, <1>4 DEF LocalInv, LocalOK, FreePc, SmallPc, booted, TypeLocal
<1>12. MutualExclusion'
  <2>1. \A u \in Thread : HoldsG(u)' <=> HoldsG(u)
    BY <1>1, <1>3, <1>4 DEF HoldsG
  <2>2. \A u \in Thread, p \in Page : HoldsS(u, p)' <=> HoldsS(u, p) /\ u # t
    BY <1>1, <1>3, <1>4 DEF HoldsS, AddsSlab
  <2>3. \A p \in Page : HoldsS(t, p) => p = s
    BY <1>1 DEF HoldsS, AddsSlab
  <2> QED
    BY <1>1, <1>5, <1>6, <2>1, <2>2, <2>3 DEF MutualExclusion
<1>13. LinkedInv' /\ HeadInv' /\ ChainInv'
  BY <1>1 DEF LinkedInv, HeadInv, ChainInv, Linked, IsSlab
<1>14. CursorInv' /\ PendingInv'
  BY <1>1, <1>3, <1>4 DEF CursorInv, CursorOK, PendingInv, Pending, IsSlab, Linked
<1>15. SnapInv'
  <2> SUFFICES ASSUME NEW u \in Thread PROVE SnapOK(u)'
    BY DEF SnapInv
  <2>1. CASE u = t
    BY <1>1, <1>4, <2>1 DEF SnapOK
  <2>2. CASE u # t
    <3>1. \A p \in Page : HoldsS(u, p) => n_head'[p] = n_head[p]
      BY <1>1, <1>4, <1>6, <2>2 DEF TypeShared
    <3>2. pc[u] \in {"slab_take", "new_slab_take"} => n_head'[slab[u]] = n_head[slab[u]]
      BY <3>1 DEF HoldsS, LocalInv, LocalOK, SmallPc, TypeLocal, PageOrNull
    <3>3. pc[u] = "S_link" => n_head'[ptr[u].pg] = n_head[ptr[u].pg]
      BY <3>1, FreedBlock DEF HoldsS, FreePc, Block
    <3> QED
      BY <1>1, <1>3, <2>2, <3>2, <3>3 DEF SnapInv, SnapOK, try_alloc, npage
  <2> QED
    BY <2>1, <2>2
<1>16. CASE l = <<>>
  <2>1. Owned' = Owned /\ ret' = ret /\ n_head' = n_head
    BY <1>1, <1>4, <1>16 DEF Owned
  <2>2. BlockInv' /\ NoOverlap' /\ OneOwner'
    BY <1>1, <2>1 DEF BlockInv, NoOverlap, OneOwner, SlabBlock, LargeBlock, IsSlab, Linked
  <2>3. FreeInv'
    BY <1>1, <2>1 DEF FreeInv, Linked
  <2> QED
    BY <1>9, <1>10, <1>11, <1>12, <1>13, <1>14, <1>15, <2>2, <2>3
<1>17. CASE l # <<>> /\ l[1].size >= c
  <2>1. ret'[t] = o /\ n_head'[s] = Carve(l, c) /\ \A p \in Page : p # s => n_head'[p] = n_head[p]
    BY <1>1, <1>4, <1>17 DEF TypeLocal, TypeShared
  <2>2. /\ o \in Block /\ o # NULL /\ o.pg = s /\ o.np = 1 /\ o.off = l[1].off /\ o.len = c
        /\ o.off + o.len <= l[1].off + l[1].size /\ SlabBlock(o)
    BY <1>8, <1>17
  <2>3. Owned' = Owned \cup {o}
    BY <1>1, <1>3, <2>1, <2>2 DEF Owned
  <2>4. BlockInv'
    BY <1>1, <2>2, <2>3 DEF BlockInv, SlabBlock, LargeBlock, IsSlab, Linked
  <2>5. \A b \in Owned : ~Overlap(o, b) /\ ~Overlap(b, o) /\ b # o
    <3> SUFFICES ASSUME NEW b \in Owned PROVE ~Overlap(o, b) /\ ~Overlap(b, o) /\ b # o
      OBVIOUS
    <3>1. b \in Block /\ b.pg \in Int /\ b.np \in Nat /\ b.off \in Nat /\ b.len \in Nat
      BY OwnedType, MetaAssumption DEF Block, Page
    <3>2. /\ l[1].off \in Nat /\ l[1].size \in Nat /\ NodeOK(l[1]) /\ 1 \in 1 .. Len(l)
          /\ s \in Int
      BY <1>1, <1>2, <1>7, <1>17, SeqOfNodes, MetaAssumption DEF ListOK, Page
    <3>3. CASE LargeBlock(b)
      <4>1. ~(b.pg <= s /\ s < b.pg + b.np) /\ b.pg <= b.pg /\ b.pg < b.pg + b.np
        BY <1>1, <1>2, <3>1, <3>3, LargeMissesSlab DEF LargeBlock
      <4> QED
        BY <2>2, <3>1, <3>2, <4>1 DEF Overlap
    <3>4. CASE SlabBlock(b) /\ b.pg # s
      BY <2>2, <3>1, <3>2, <3>4 DEF Overlap, SlabBlock
    <3>5. CASE SlabBlock(b) /\ b.pg = s
      <4>1. Apart(l[1], b)
        BY <1>1, <1>2, <3>2, <3>5 DEF FreeInv
      <4>2. b.len = c
        BY <1>2, <3>5 DEF SlabBlock
      <4>3. o.off \in Nat /\ o.len \in Nat \ {0} /\ b.len \in Nat \ {0}
        BY <1>2, <2>2, <3>2, <4>2
      <4>4. o.off + o.len <= b.off \/ b.off + b.len <= o.off
        BY <2>2, <3>1, <3>2, <4>1, <4>3 DEF Apart
      <4>5. ~Overlap(o, b) /\ ~Overlap(b, o)
        BY <3>1, <4>3, <4>4 DEF Overlap
      <4>6. b.off # o.off
        BY <3>1, <4>3, <4>4
      <4> QED
        BY <4>5, <4>6
    <3> QED
      BY <3>3, <3>4, <3>5 DEF BlockInv
  <2>6. NoOverlap'
    BY <2>3, <2>5 DEF NoOverlap, Overlap
  <2>7. OneOwner'
    <3>1. o \notin live /\ \A u \in Thread : o # ret[u] /\ o # ptr[u]
      BY <2>2, <2>5 DEF Owned
    <3> QED
      BY <1>1, <1>3, <2>1, <2>2, <3>1 DEF OneOwner
  <2>8. FreeInv'
    <3> SUFFICES ASSUME NEW p \in Page
                 PROVE  /\ ~Linked(p)' => n_head'[p] = <<>>
                        /\ ListOK(n_head'[p])
                        /\ \A i \in 1 .. Len(n_head'[p]), b \in Owned \cup {o} :
                             b.pg = p => Apart(n_head'[p][i], b)
      BY <2>3 DEF FreeInv
    <3>1. CASE p # s
      BY <1>1, <2>1, <2>2, <3>1 DEF FreeInv, Linked
    <3>2. CASE p = s
      <4> DEFINE m == Carve(l, c)
      <4>1. /\ m \in Seq(Node) /\ ListOK(m)
            /\ \A i \in 1 .. Len(m) :
                 /\ l[1].off + c <= m[i].off
                 /\ \E j \in 1 .. Len(l) : /\ l[j].off <= m[i].off
                                           /\ m[i].off + m[i].size <= l[j].off + l[j].size
        BY <1>2, <1>7, <1>17, CarveList
      <4> HIDE DEF m
      <4>2. n_head'[p] = m
        BY <2>1, <3>2 DEF m
      <4>3. ASSUME NEW i \in 1 .. Len(m), NEW b \in Owned, b.pg = s
            PROVE  Apart(m[i], b)
        <5>1. PICK j \in 1 .. Len(l) : /\ l[j].off <= m[i].off
                                       /\ m[i].off + m[i].size <= l[j].off + l[j].size
          BY <4>1
        <5>2. Apart(l[j], b)
          BY <1>1, <1>2, <4>3 DEF FreeInv
        <5>3. l[j] \in Node /\ m[i] \in Node /\ b \in Block
          BY <1>2, <4>1, SeqOfNodes, OwnedType
        <5> QED
          BY <5>1, <5>2, <5>3, PartApart
      <4>4. \A i \in 1 .. Len(m) : Apart(m[i], o)
        BY <2>2, <4>1 DEF Apart
      <4>5. Linked(p)'
        BY <1>1, <1>2, <3>2 DEF Linked
      <4>6. \A i \in 1 .. Len(m), b \in Owned \cup {o} : b.pg = p => Apart(m[i], b)
        BY <3>2, <4>3, <4>4
      <4> QED
        BY <3>2, <4>1, <4>2, <4>5, <4>6
    <3> QED
      BY <3>1, <3>2
  <2> QED
    BY <1>9, <1>10, <1>11, <1>12, <1>13, <1>14, <1>15, <2>4, <2>6, <2>7, <2>8
<1> QED
  BY <1>4, <1>16, <1>17

(* A free takes one block out of use, and no other. *)
LEMMA FreedOnce ==
  ASSUME IInv, NEW t \in Thread, pc[t] \in FreePc,
         UNCHANGED <<live, ret>>, ptr' = [ptr EXCEPT ![t] = NULL]
  PROVE  /\ Owned' = Owned \ {ptr[t]}
         /\ OneOwner'
<1>1. ptr[t] # NULL /\ ptr'[t] = NULL /\ \A u \in Thread : u # t => ptr'[u] = ptr[u]
  BY FreedBlock DEF IInv, TypeLocal
<1>2. ptr[t] \notin live /\ \A u \in Thread : ret[u] # ptr[t] /\ (u # t => ptr[u] # ptr[t])
  BY <1>1 DEF IInv, OneOwner
<1>3. Owned' = Owned \ {ptr[t]}
  BY <1>1, <1>2 DEF Owned
<1>4. OneOwner'
  BY <1>1, <1>2 DEF IInv, OneOwner
<1> QED
  BY <1>3, <1>4

LEMMA SFreeLinkIInv ==
  ASSUME IInv, NEW t \in Thread, S_free_link(t)
  PROVE  IInv'
<1> USE DEF IInv
<1> DEFINE b == ptr[t]
           s == ptr[t].pg
           l == list[t]
           x == [off |-> b.off, size |-> sz[s]]
<1>1. /\ pc[t] = "S_link" /\ pc[t] \in FreePc /\ booted /\ slab[t] = NULL /\ ret[t] = NULL
      /\ b \in Owned /\ b \in Block /\ s \in Page /\ SlabBlock(b)
      /\ UNCHANGED <<Meta, G_lock, Slab, sz, next, live, size, slab, page, ret>>
      /\ ptr' = [ptr EXCEPT ![t] = NULL]
  BY FreedBlock DEF S_free_link, LocalInv, LocalOK, FreePc, Block
<1>2. PICK k \in 1 .. Len(l) + 1 :
        StopsAt(l, k, x) /\ n_head' = [n_head EXCEPT ![s] = InsertAt(l, k, x)]
  BY DEF S_free_link
<1>3. pc'[t] = "idle" /\ ptr'[t] = NULL
  BY DEF S_free_link, Goto, TypeLocal
<1>4. \A u \in Thread : u # t => pc'[u] = pc[u] /\ list'[u] = list[u] /\ ptr'[u] = ptr[u]
  BY DEF S_free_link, Goto, TypeLocal
<1>5. l = n_head[s] /\ l \in Seq(Node) /\ ListOK(l) /\ Linked(s) /\ IsSlab(s)
  BY <1>1 DEF SnapInv, SnapOK, TypeShared, FreeInv, SlabBlock
<1>6. lk'[s] = 0 /\ \A p \in Page : p # s => lk'[p] = lk[p]
  BY <1>1 DEF S_free_link, TypeShared
<1>7. HoldsS(t, s) /\ \A u \in Thread : HoldsS(u, s) => u = t
  BY <1>1 DEF HoldsS, MutualExclusion
<1>8. Owned' = Owned \ {b} /\ OneOwner'
  BY <1>1, FreedOnce
<1>9. /\ x \in Node /\ x.off = b.off /\ x.size = b.len /\ b.off \in Nat /\ b.len \in Nat
      /\ b.len # 0 /\ b.np = 1 /\ NodeOK(x)
  <2>1. x.off = b.off /\ x.size = b.len /\ b.off \in Nat /\ b.len \in Nat /\ b.len # 0 /\ b.np = 1
    BY <1>1 DEF SlabBlock, Linked, Block
  <2>2. x \in Node
    BY <2>1 DEF Node
  <2>3. NodeOK(x)
    BY <1>1, <2>1 DEF NodeOK, SlabBlock
  <2> QED
    BY <2>1, <2>2, <2>3
<1> HIDE DEF l, x
<1> DEFINE m == InsertAt(l, k, x)
<1>10. /\ m \in Seq(Node) /\ ListOK(m)
       /\ \A i \in 1 .. Len(m) : m[i] = x \/ \E j \in 1 .. Len(l) : m[i] = l[j]
  <2>1. \A i \in 1 .. Len(l) : Apart(l[i], b)
    BY <1>1, <1>5 DEF FreeInv
  <2>2. \A i \in 1 .. Len(l) : Before(l[i], x) \/ Before(x, l[i])
    BY <1>9, <2>1 DEF Apart, Before
  <2> QED
    BY <1>2, <1>5, <1>9, <2>2, InsertList
<1>11. n_head'[s] = m /\ \A p \in Page : p # s => n_head'[p] = n_head[p]
  BY <1>1, <1>2 DEF TypeShared
<1>12. n_head' \in [Page -> Seq(Node)]
  BY <1>1, <1>2, <1>10 DEF TypeShared
<1> HIDE DEF m
<1>13. TypeLocal'
  BY <1>1 DEF S_free_link, Goto, TypeLocal
<1>14. TypeShared'
  <2>1. lk' \in [Page -> {0, 1}]
    BY <1>1 DEF S_free_link, TypeShared
  <2> QED
    BY <1>1, <1>12, <2>1 DEF TypeShared
<1>15. LocalInv'
  BY <1>1, <1>3, <1>4 DEF LocalInv, LocalOK, FreePc, SmallPc, booted
<1>16. MutualExclusion'
  <2>1. \A u \in Thread : HoldsG(u)' <=> HoldsG(u)
    BY <1>1, <1>3, <1>4 DEF HoldsG
  <2>2. \A u \in Thread, p \in Page : HoldsS(u, p)' <=> HoldsS(u, p) /\ u # t
    BY <1>1, <1>3, <1>4 DEF HoldsS, AddsSlab
  <2>3. \A p \in Page : HoldsS(t, p) => p = s
    BY <1>1 DEF HoldsS, AddsSlab
  <2> QED
    BY <1>1, <1>6, <1>7, <2>1, <2>2, <2>3 DEF MutualExclusion
<1>17. LinkedInv' /\ HeadInv' /\ ChainInv'
  BY <1>1 DEF LinkedInv, HeadInv, ChainInv, Linked, IsSlab
<1>18. CursorInv' /\ PendingInv'
  BY <1>1, <1>3, <1>4 DEF CursorInv, CursorOK, PendingInv, Pending, IsSlab, Linked
<1>19. SnapInv'
  <2> SUFFICES ASSUME NEW u \in Thread PROVE SnapOK(u)'
    BY DEF SnapInv
  <2>1. CASE u = t
    BY <1>1, <1>3, <2>1 DEF SnapOK
  <2>2. CASE u # t
    <3>1. \A p \in Page : HoldsS(u, p) => n_head'[p] = n_head[p]
      BY <1>7, <1>11, <2>2
    <3>2. pc[u] \in {"slab_take", "new_slab_take"} => n_head'[slab[u]] = n_head[slab[u]]
      BY <3>1 DEF HoldsS, LocalInv, LocalOK, SmallPc, TypeLocal, PageOrNull
    <3>3. pc[u] = "S_link" => n_head'[ptr[u].pg] = n_head[ptr[u].pg]
      BY <3>1, FreedBlock DEF HoldsS, FreePc, Block
    <3> QED
      BY <1>1, <1>4, <2>2, <3>2, <3>3 DEF SnapInv, SnapOK, try_alloc, npage
  <2> QED
    BY <2>1, <2>2
<1>20. BlockInv' /\ NoOverlap'
  BY <1>1, <1>8 DEF BlockInv, NoOverlap, SlabBlock, LargeBlock, IsSlab, Linked
<1>21. FreeInv'
  <2> SUFFICES ASSUME NEW p \in Page
               PROVE  /\ ~Linked(p)' => n_head'[p] = <<>>
                      /\ ListOK(n_head'[p])
                      /\ \A i \in 1 .. Len(n_head'[p]), d \in Owned \ {b} :
                           d.pg = p => Apart(n_head'[p][i], d)
    BY <1>8 DEF FreeInv
  <2>1. CASE p # s
    BY <1>1, <1>11, <2>1 DEF FreeInv, Linked
  <2>2. CASE p = s
    <3>1. ASSUME NEW d \in Owned, d # b, d.pg = s PROVE Apart(x, d)
      <4>1. d \in Block /\ d.off \in Nat /\ d.len \in Nat /\ d.pg \in Int
        BY OwnedType, MetaAssumption DEF Block, Page
      <4>2. SlabBlock(d)
        <5>1. ASSUME LargeBlock(d) PROVE FALSE
          <6>1. d.pg <= s /\ s < d.pg + d.np
            BY <3>1, <4>1, <5>1 DEF LargeBlock, Block
          <6> QED
            BY <1>1, <1>5, <4>1, <5>1, <6>1, LargeMissesSlab
        <5> QED
          BY <5>1 DEF BlockInv
      <4>3. ~Overlap(b, d)
        BY <1>1, <3>1 DEF NoOverlap
      <4> QED
        BY SMTT(30), <1>9, <3>1, <4>1, <4>2, <4>3 DEF Overlap, SlabBlock, Apart
    <3>2. ASSUME NEW i \in 1 .. Len(m), NEW d \in Owned, d # b, d.pg = s PROVE Apart(m[i], d)
      <4>1. CASE m[i] = x
        BY <3>1, <3>2, <4>1
      <4>2. CASE \E j \in 1 .. Len(l) : m[i] = l[j]
        BY <1>1, <1>5, <3>2, <4>2 DEF FreeInv
      <4> QED
        BY <1>10, <4>1, <4>2
    <3>3. Linked(p)'
      BY <1>1, <1>5, <2>2 DEF Linked
    <3>4. \A i \in 1 .. Len(m), d \in Owned \ {b} : d.pg = p => Apart(m[i], d)
      BY <2>2, <3>2
    <3> QED
      BY <1>10, <1>11, <2>2, <3>3, <3>4
  <2> QED
    BY <2>1, <2>2
<1> QED
  BY <1>8, <1>13, <1>14, <1>15, <1>16, <1>17, <1>18, <1>19, <1>20, <1>21

(* Meta with entry e for the n pages from i on. *)
Marked(i, n, e) == [k \in MetaIdx |-> IF k \in i .. i + n - 1 THEN e ELSE Meta[k]]

(* Marking a free run of pages leaves every entry in use as it was. *)
LEMMA SlowAllocFrame ==
  ASSUME IInv, NEW i \in Page, NEW n \in Nat \ {0},
         NEW e \in [is_alloc : BOOLEAN, is_slab : BOOLEAN, end : Nat \cup {NULL}],
         try_alloc(i, n), i + n <= META_SZ,
         Meta' = Marked(i, n, e)
  PROVE  /\ Meta' \in [MetaIdx -> [is_alloc : BOOLEAN, is_slab : BOOLEAN, end : Nat \cup {NULL}]]
         /\ i \in MetaIdx
         /\ \A k \in MetaIdx : Meta[k].is_alloc => Meta'[k] = Meta[k]
         /\ \A k \in i .. i + n - 1 : k \in MetaIdx /\ ~Meta[k].is_alloc /\ Meta'[k] = e
<1>1. i \in Nat /\ META_SZ \in Nat /\ i + n \in Nat
  BY MetaAssumption DEF Page
<1>2. \A k \in i .. i + n - 1 : k \in MetaIdx /\ ~Meta[k].is_alloc
  BY <1>1 DEF MetaIdx, try_alloc
<1>3. \A k \in MetaIdx : Meta'[k] = IF k \in i .. i + n - 1 THEN e ELSE Meta[k]
  BY DEF Marked
<1>4. Meta' \in [MetaIdx -> [is_alloc : BOOLEAN, is_slab : BOOLEAN, end : Nat \cup {NULL}]]
  BY DEF Marked, IInv, TypeShared
<1>5. i \in i .. i + n - 1
  BY <1>1
<1> QED
  BY <1>2, <1>3, <1>4, <1>5

(* Steps that leave entries in use alone leave blocks, slabs and pending   *)
(* frees what they were.                                                   *)
LEMMA MetaFrame ==
  ASSUME IInv, UNCHANGED <<sz, next, Slab>>,
         \A k \in MetaIdx : Meta[k].is_alloc => Meta'[k] = Meta[k]
  PROVE  /\ \A p \in Page : IsSlab(p) => IsSlab(p)'
         /\ \A b \in Owned : /\ Meta[b.pg].is_alloc /\ Meta'[b.pg] = Meta[b.pg]
                             /\ SlabBlock(b) => SlabBlock(b)'
                             /\ LargeBlock(b) => LargeBlock(b)'
         /\ LinkedInv' /\ HeadInv' /\ ChainInv'
<1>1. \A p \in Page : p \in MetaIdx
  BY MetaAssumption DEF Page, MetaIdx
<1>2. \A p \in Page : IsSlab(p) => IsSlab(p)'
  BY <1>1 DEF IsSlab
<1>3. ASSUME NEW b \in Owned
      PROVE  /\ Meta[b.pg].is_alloc /\ Meta'[b.pg] = Meta[b.pg]
             /\ SlabBlock(b) => SlabBlock(b)'
             /\ LargeBlock(b) => LargeBlock(b)'
  <2>1. b \in Block /\ b.pg \in Page /\ b.np \in Nat /\ b.pg \in Int
    BY OwnedType, MetaAssumption DEF Block, Page
  <2>2. Meta[b.pg].is_alloc
    <3>1. CASE SlabBlock(b)
      BY <3>1 DEF SlabBlock, IsSlab
    <3>2. CASE LargeBlock(b)
      BY <2>1, <3>2 DEF LargeBlock
    <3> QED
      BY <3>1, <3>2 DEF IInv, BlockInv
  <2>3. SlabBlock(b) => SlabBlock(b)'
    BY <1>1, <2>1, <1>2 DEF SlabBlock, Linked
  <2>4. LargeBlock(b) => LargeBlock(b)'
    BY DEF LargeBlock
  <2> QED
    BY <1>1, <2>1, <2>2, <2>3, <2>4
<1>4. LinkedInv' /\ HeadInv' /\ ChainInv'
  BY <1>2 DEF IInv, LinkedInv, HeadInv, ChainInv, Linked
<1> QED
  BY <1>2, <1>3, <1>4

(* A run of free pages misses every block in use and every slab. *)
LEMMA FreeRunMisses ==
  ASSUME IInv, NEW i \in Page, NEW n \in Nat \ {0}, try_alloc(i, n)
  PROVE  /\ ~Linked(i) /\ ~IsSlab(i) /\ n_head[i] = <<>>
         /\ Pages(i, n) \in Block
         /\ \A b \in Owned : b # Pages(i, n) /\ b.pg # i
                             /\ ~Overlap(b, Pages(i, n)) /\ ~Overlap(Pages(i, n), b)
<1>1. i \in Nat /\ i \in i .. i + n - 1 /\ ~Meta[i].is_alloc
  BY MetaAssumption DEF Page, try_alloc
<1>2. ~Linked(i) /\ ~IsSlab(i) /\ n_head[i] = <<>>
  BY <1>1 DEF IInv, LinkedInv, IsSlab, FreeInv
<1>3. Pages(i, n) \in Block
  BY LayoutAssumption DEF Pages, Block
<1>4. ASSUME NEW b \in Owned
      PROVE  b.pg # i /\ ~(b.pg < i + n /\ i < b.pg + b.np)
  <2>1. b \in Block /\ b.pg \in Nat /\ b.np \in Nat
    BY OwnedType, MetaAssumption DEF Block, Page
  <2>2. CASE SlabBlock(b)
    <3>1. b.np = 1 /\ Meta[b.pg].is_alloc
      BY <2>2 DEF SlabBlock, IsSlab
    <3> QED
      BY <1>1, <2>1, <3>1 DEF try_alloc
  <2>3. CASE LargeBlock(b)
    <3>1. \A k \in b.pg .. b.pg + b.np - 1 : Meta[k].is_alloc
      BY <2>3 DEF LargeBlock
    <3>2. \A k \in i .. i + n - 1 : ~Meta[k].is_alloc
      BY DEF try_alloc
    <3>3. b.np # 0
      BY <2>3 DEF LargeBlock
    <3>4. ASSUME b.pg < i + n, i < b.pg + b.np PROVE FALSE
      <4>1. CASE b.pg <= i
        <5>1. i \in b.pg .. b.pg + b.np - 1
          BY <1>1, <2>1, <3>4, <4>1
        <5> QED
          BY <1>1, <3>1, <5>1
      <4>2. CASE i < b.pg
        <5>1. b.pg \in i .. i + n - 1 /\ b.pg \in b.pg .. b.pg + b.np - 1
          BY <1>1, <2>1, <3>3, <3>4, <4>2
        <5> QED
          BY <3>1, <3>2, <5>1
      <4> QED
        BY <1>1, <2>1, <4>1, <4>2
    <3> QED
      BY <1>1, <2>1, <3>3, <3>4
  <2> QED
    BY <2>2, <2>3 DEF IInv, BlockInv
<1>5. Pages(i, n).pg = i /\ Pages(i, n).np = n
  BY DEF Pages
<1> QED
  BY <1>2, <1>3, <1>4, <1>5 DEF Overlap

LEMMA GAllocTakeIInv ==
  ASSUME IInv, NEW t \in Thread, G_alloc_take(t)
  PROVE  IInv'
<1> USE DEF IInv
<1> PICK i : i = page[t]
  OBVIOUS
<1> PICK n : n = npage(t)
  OBVIOUS
<1>1. /\ pc[t] = "G_take" /\ booted /\ ptr[t] = NULL /\ ret[t] = NULL /\ G_lock' = 0
      /\ size[t] \in Served /\ (slab[t] = NULL <=> ~IsSmall(size[t]))
      /\ UNCHANGED <<Slab, lk, sz, next, n_head, live, size, slab, list, ptr>>
  BY DEF G_alloc_take, LocalInv, LocalOK, FreePc
<1>2. n \in Nat \ {0} /\ \A k \in Page : k + n <= META_SZ
  <2>1. CASE slab[t] # NULL
    BY <2>1, MetaAssumption DEF npage, Page
  <2>2. CASE slab[t] = NULL
    <3>1. size[t] \in Large /\ n = NPage(size[t])
      BY <1>1, <2>2 DEF Large, npage
    <3>2. n \in Nat \ {0} /\ n_meta + n <= META_SZ + 1
      BY <3>1, MetaAssumption
    <3> QED
      BY <3>2, MetaAssumption DEF Page
  <2> QED
    BY <2>1, <2>2
<1>3. i = NULL \/ (i \in Page /\ i # NULL /\ try_alloc(i, n))
  BY <1>1 DEF SnapInv, SnapOK
<1>4. Meta' = IF i = NULL THEN Meta ELSE slow_alloc(i, n, slab[t] # NULL)
  BY DEF G_alloc_take
<1>5. /\ slab[t] # NULL => pc'[t] = "add_slab_link" /\ page'[t] = i /\ ret'[t] = NULL
      /\ slab[t] = NULL => /\ pc'[t] = "ret" /\ page'[t] = NULL
                           /\ ret'[t] = IF i = NULL THEN NULL ELSE Pages(i, n)
  BY <1>1 DEF G_alloc_take, Goto, TypeLocal
<1>6. \A u \in Thread : u # t => pc'[u] = pc[u] /\ page'[u] = page[u] /\ ret'[u] = ret[u]
  BY DEF G_alloc_take, Goto, TypeLocal
<1>7. \A u \in Thread : HoldsG(u) <=> u = t
  BY <1>1 DEF HoldsG, MutualExclusion
<1> DEFINE fresh == IF slab[t] = NULL /\ i # NULL THEN {Pages(i, n)} ELSE {}
<1>8. /\ Meta' \in [MetaIdx -> [is_alloc : BOOLEAN, is_slab : BOOLEAN, end : Nat \cup {NULL}]]
      /\ \A k \in MetaIdx : Meta[k].is_alloc => Meta'[k] = Meta[k]
      /\ i # NULL => /\ \A k \in i .. i + n - 1 :
                          /\ k \in MetaIdx /\ Meta'[k].is_alloc
                          /\ Meta'[k].is_slab = (slab[t] # NULL) /\ Meta'[k].end = i + n
                     /\ ~Linked(i) /\ ~IsSlab(i) /\ n_head[i] = <<>> /\ Pages(i, n) \in Block
                     /\ \A b \in Owned : b # Pages(i, n) /\ b.pg # i
                             /\ ~Overlap(b, Pages(i, n)) /\ ~Overlap(Pages(i, n), b)
  <2>1. CASE i = NULL
    BY <1>4, <2>1 DEF TypeShared
  <2>2. CASE i # NULL
    <3>1. i \in Page /\ try_alloc(i, n) /\ i + n <= META_SZ /\ (slab[t] # NULL) \in BOOLEAN
      BY <1>2, <1>3, <2>2
    <3> DEFINE e == [is_alloc |-> TRUE, is_slab |-> slab[t] # NULL, end |-> i + n]
    <3>2. Meta' = Marked(i, n, e)
      BY <1>4, <2>2 DEF slow_alloc, Marked
    <3>3. /\ e \in [is_alloc : BOOLEAN, is_slab : BOOLEAN, end : Nat \cup {NULL}]
          /\ e.is_alloc /\ e.is_slab = (slab[t] # NULL) /\ e.end = i + n
      BY <1>2, <3>1, MetaAssumption DEF Page
    <3> HIDE DEF e
    <3>4. /\ Meta' \in [MetaIdx -> [is_alloc : BOOLEAN, is_slab : BOOLEAN, end : Nat \cup {NULL}]]
          /\ \A k \in MetaIdx : Meta[k].is_alloc => Meta'[k] = Meta[k]
          /\ \A k \in i .. i + n - 1 : k \in MetaIdx /\ Meta'[k] = e
      <4> HIDE DEF IInv
      <4>1. /\ Meta' \in [MetaIdx -> [is_alloc : BOOLEAN, is_slab : BOOLEAN, end : Nat \cup {NULL}]]
            /\ i \in MetaIdx
            /\ \A k \in MetaIdx : Meta[k].is_alloc => Meta'[k] = Meta[k]
            /\ \A k \in i .. i + n - 1 : k \in MetaIdx /\ ~Meta[k].is_alloc /\ Meta'[k] = e
        <5>1. n \in Nat \ {0} /\ i \in Page /\ try_alloc(i, n) /\ i + n <= META_SZ
          BY <1>2, <3>1
        <5>2. e \in [is_alloc : BOOLEAN, is_slab : BOOLEAN, end : Nat \cup {NULL}]
          BY <3>3
        <5> QED
          BY <3>2, <5>1, <5>2, SlowAllocFrame
      <4> QED
        BY <4>1
    <3>5. /\ ~Linked(i) /\ ~IsSlab(i) /\ n_head[i] = <<>> /\ Pages(i, n) \in Block
          /\ \A b \in Owned : b # Pages(i, n) /\ b.pg # i
                             /\ ~Overlap(b, Pages(i, n)) /\ ~Overlap(Pages(i, n), b)
      BY <1>2, <3>1, FreeRunMisses
    <3> QED
      BY <3>3, <3>5, <3>4
  <2> QED
    BY <2>1, <2>2
<1>9. /\ \A p \in Page : IsSlab(p) => IsSlab(p)'
      /\ \A b \in Owned : /\ Meta[b.pg].is_alloc /\ Meta'[b.pg] = Meta[b.pg]
                          /\ SlabBlock(b) => SlabBlock(b)'
                          /\ LargeBlock(b) => LargeBlock(b)'
      /\ LinkedInv' /\ HeadInv' /\ ChainInv'
  BY <1>1, <1>8, MetaFrame
<1>10. /\ slab[t] # NULL \/ i = NULL => ret'[t] = NULL
       /\ slab[t] = NULL /\ i # NULL => ret'[t] = Pages(i, n)
  BY <1>5
<1>11. Pages(i, n) # NULL \/ i = NULL
  BY <1>8, NullAssumption
<1>12. Owned' = Owned \cup fresh
  <2>1. CASE slab[t] # NULL \/ i = NULL
    BY <1>1, <1>6, <1>10, <2>1 DEF Owned
  <2>2. CASE slab[t] = NULL /\ i # NULL
    BY <1>1, <1>6, <1>10, <1>11, <2>2 DEF Owned
  <2> QED
    BY <2>1, <2>2
<1>13. TypeLocal'
  <2>1. CASE slab[t] # NULL
    <3>1. UNCHANGED <<page, ret>> /\ pc' = [pc EXCEPT ![t] = "add_slab_link"]
      BY <2>1 DEF G_alloc_take, Goto
    <3> QED
      BY <1>1, <3>1 DEF TypeLocal, SmallPc
  <2>2. CASE slab[t] = NULL
    <3>1. /\ pc' = [pc EXCEPT ![t] = "ret"] /\ page' = [page EXCEPT ![t] = NULL]
          /\ ret' = [ret EXCEPT ![t] = IF i = NULL THEN NULL ELSE Pages(i, n)]
      BY <2>2 DEF G_alloc_take, Goto
    <3>2. (IF i = NULL THEN NULL ELSE Pages(i, n)) \in Block \cup {NULL}
      BY <1>8
    <3> QED
      BY <1>1, <3>1, <3>2 DEF TypeLocal
  <2> QED
    BY <2>1, <2>2
<1>14. TypeShared'
  BY <1>1, <1>8 DEF TypeShared
<1>15. LocalInv'
  <2> SUFFICES ASSUME NEW u \in Thread PROVE LocalOK(u)'
    BY DEF LocalInv
  <2>1. CASE u = t
    BY <1>1, <1>5, <2>1 DEF LocalOK, FreePc, SmallPc, booted
  <2>2. CASE u # t
    <3>1. pc[u] \in FreePc => ptr[u] \in Owned
      BY FreedBlock
    <3>2. pc[u] \in FreePc => Meta'[ptr[u].pg] = Meta[ptr[u].pg]
      BY <1>9, <3>1
    <3> QED
      BY <1>1, <1>6, <2>2, <3>2 DEF LocalInv, LocalOK, FreePc, booted
  <2> QED
    BY <2>1, <2>2
<1>16. MutualExclusion'
  <2>1. \A u \in Thread : ~HoldsG(u)'
    BY <1>5, <1>6, <1>7 DEF HoldsG
  <2>2. \A u \in Thread, p \in Page : HoldsS(u, p)' <=> HoldsS(u, p)
    BY <1>1, <1>5, <1>6 DEF HoldsS, AddsSlab
  <2> QED
    BY <1>1, <2>1, <2>2 DEF MutualExclusion
<1>17. CursorInv'
  BY <1>1, <1>5, <1>6 DEF CursorInv, CursorOK, Linked
<1>18. PendingInv'
  <2>1. \A u \in Thread, p \in Page : u # t => (Pending(u, p)' <=> Pending(u, p))
    BY <1>6 DEF Pending
  <2>2. \A p \in Page : Pending(t, p)' => p = i /\ i # NULL /\ slab[t] # NULL
    BY <1>5 DEF Pending
  <2>3. i # NULL /\ slab[t] # NULL => IsSlab(i)'
    <3>1. i # NULL => i \in i .. i + n - 1
      BY <1>2, <1>3, MetaAssumption DEF Page
    <3> QED
      BY <1>8, <3>1 DEF IsSlab
  <2>4. \A u \in Thread : i # NULL => ~Pending(u, i)
    BY <1>3, <1>8 DEF PendingInv
  <2>5. \A p \in Page : Linked(p)' <=> Linked(p)
    BY <1>1 DEF Linked
  <2>6. \A u \in Thread : pc'[u] = "add_slab_link" => page'[u] \in PageOrNull
    BY <1>3, <1>5, <1>6 DEF PendingInv, PageOrNull
  <2>7. ASSUME NEW u \in Thread, NEW p \in Page, Pending(u, p)'
        PROVE  IsSlab(p)' /\ ~Linked(p)' /\ \A v \in Thread : Pending(v, p)' => u = v
    <3>1. CASE u = t
      BY <1>8, <2>1, <2>2, <2>3, <2>4, <2>5, <2>7, <3>1
    <3>2. CASE u # t
      BY <1>9, <2>1, <2>2, <2>4, <2>5, <2>7, <3>2 DEF PendingInv
    <3> QED
      BY <3>1, <3>2
  <2> QED
    BY <2>6, <2>7 DEF PendingInv
<1>19. SnapInv'
  <2> SUFFICES ASSUME NEW u \in Thread PROVE SnapOK(u)'
    BY DEF SnapInv
  <2>1. CASE u = t
    BY <1>1, <1>5, <2>1 DEF SnapOK
  <2>2. CASE u # t
    BY <1>1, <1>6, <1>7, <2>2 DEF SnapInv, SnapOK, HoldsG
  <2> QED
    BY <2>1, <2>2
<1>20. BlockInv'
  <2>1. ASSUME slab[t] = NULL, i # NULL PROVE LargeBlock(Pages(i, n))'
    <3>1. /\ Pages(i, n).off = 0 /\ Pages(i, n).len = GPAGE_SZ
          /\ Pages(i, n).np = n /\ Pages(i, n).pg = i
      BY DEF Pages
    <3> DEFINE b == Pages(i, n)
    <3>2. /\ b.off = 0 /\ b.len = GPAGE_SZ /\ b.np # 0
          /\ \A k \in b.pg .. b.pg + b.np - 1 :
               /\ k \in MetaIdx
               /\ Meta'[k].is_alloc /\ ~Meta'[k].is_slab /\ Meta'[k].end = b.pg + b.np
      BY <1>2, <1>8, <2>1, <3>1
    <3> QED
      BY <3>2 DEF LargeBlock
  <2> QED
    BY <1>9, <1>12, <2>1 DEF BlockInv
<1>21. NoOverlap'
  BY <1>8, <1>12 DEF NoOverlap, Overlap
<1>22. OneOwner'
  <2>1. slab[t] = NULL /\ i # NULL => Pages(i, n) \notin Owned
    BY <1>8
  <2>2. CASE slab[t] # NULL \/ i = NULL
    BY <1>1, <1>6, <1>10, <2>2 DEF OneOwner
  <2>3. CASE slab[t] = NULL /\ i # NULL
    <3>1. \A u \in Thread : ret[u] # Pages(i, n) /\ ptr[u] # Pages(i, n)
      BY <1>11, <2>1, <2>3 DEF Owned
    <3>2. Pages(i, n) \notin live
      BY <1>11, <2>1, <2>3 DEF Owned
    <3> QED
      BY <1>1, <1>6, <1>10, <2>3, <3>1, <3>2 DEF OneOwner
  <2> QED
    BY <2>2, <2>3
<1>23. FreeInv'
  <2>1. \A b \in fresh : b.pg = i /\ i # NULL
    BY DEF Pages
  <2> HIDE DEF fresh
  <2>2. i # NULL => Len(n_head[i]) = 0
    BY <1>8
  <2> SUFFICES ASSUME NEW p \in Page
               PROVE  /\ ~Linked(p)' => n_head[p] = <<>>
                      /\ ListOK(n_head[p])
                      /\ \A k \in 1 .. Len(n_head[p]), b \in Owned \cup fresh :
                           b.pg = p => Apart(n_head[p][k], b)
    BY <1>1, <1>12 DEF FreeInv
  <2> QED
    BY <1>1, <2>1, <2>2 DEF FreeInv, Linked
<1> QED
  BY <1>9, <1>13, <1>14, <1>15, <1>16, <1>17, <1>18, <1>19, <1>20, <1>21, <1>22, <1>23

(* The free list slab_init writes. *)
LEMMA FreshListOK ==
  ASSUME NEW j \in Class
  PROVE  /\ ClassSize(j) \in Nat \ {0}
         /\ FreshList(ClassSize(j)) \in Seq(Node) /\ ListOK(FreshList(ClassSize(j)))
<1> DEFINE c == ClassSize(j)
<1> DEFINE x == [off |-> FirstOff(c), size |-> FirstSize(c)]
<1>1. /\ c \in Nat \ {0} /\ FirstOff(c) \in Nat /\ FirstSize(c) \in Nat \ {0}
      /\ HDR <= FirstOff(c) /\ FirstOff(c) + FirstSize(c) <= GPAGE_SZ
  BY LayoutAssumption
<1>2. x \in Node /\ NodeOK(x)
  BY <1>1 DEF Node, NodeOK
<1>3. FreshList(c) = <<x>>
  BY DEF FreshList
<1> HIDE DEF x, c
<1>4. <<x>> \in Seq(Node) /\ ListOK(<<x>>)
  BY <1>2 DEF ListOK
<1> QED
  BY <1>1, <1>3, <1>4 DEF c

(* Initialising a slab on a page that no chain, thread or block knows      *)
(* leaves every other slab and every block as it was.                      *)
LEMMA NewSlab ==
  ASSUME IInv, NEW p \in Page, NEW j \in Class,
         ~Linked(p), IsSlab(p)', \A b \in Owned : b.pg # p,
         \A k \in MetaIdx : Meta[k].is_alloc => Meta'[k] = Meta[k],
         sz' = [sz EXCEPT ![p] = ClassSize(j)],
         n_head' = [n_head EXCEPT ![p] = FreshList(ClassSize(j))],
         Owned' = Owned
  PROVE  /\ sz' \in [Page -> Nat] /\ n_head' \in [Page -> Seq(Node)]
         /\ sz'[p] = ClassSize(j) /\ Linked(p)'
         /\ \A q \in Page : q # p => sz'[q] = sz[q] /\ n_head'[q] = n_head[q]
         /\ \A q \in Page : IsSlab(q) => IsSlab(q)'
         /\ \A q \in Page : Linked(q) => Linked(q)'
         /\ LinkedInv' /\ BlockInv' /\ NoOverlap' /\ FreeInv'
<1>1. /\ ClassSize(j) \in Nat \ {0}
      /\ FreshList(ClassSize(j)) \in Seq(Node) /\ ListOK(FreshList(ClassSize(j)))
  BY FreshListOK
<1>2. sz' \in [Page -> Nat] /\ n_head' \in [Page -> Seq(Node)]
  BY <1>1 DEF IInv, TypeShared
<1>3. /\ sz'[p] = ClassSize(j) /\ n_head'[p] = FreshList(ClassSize(j)) /\ Linked(p)'
      /\ \A q \in Page : q # p => sz'[q] = sz[q] /\ n_head'[q] = n_head[q]
  BY <1>1 DEF IInv, TypeShared, Linked
<1>4. \A q \in Page : IsSlab(q) => IsSlab(q)'
  BY MetaAssumption DEF IsSlab, Page, MetaIdx
<1>5. \A q \in Page : Linked(q) => Linked(q)'
  BY <1>3 DEF Linked
<1>6. LinkedInv'
  <2> SUFFICES ASSUME NEW q \in Page, Linked(q)'
               PROVE  IsSlab(q)' /\ \E k \in Class : sz'[q] = ClassSize(k)
    BY DEF LinkedInv
  <2>1. CASE q = p
    BY <1>3, <2>1
  <2>2. CASE q # p
    BY <1>3, <1>4, <2>2 DEF IInv, LinkedInv, Linked
  <2> QED
    BY <2>1, <2>2
<1>7. BlockInv'
  <2> SUFFICES ASSUME NEW b \in Owned PROVE SlabBlock(b)' \/ LargeBlock(b)'
    BY DEF BlockInv
  <2>1. b \in Block /\ b.pg \in Page /\ b.pg # p
    BY OwnedType DEF Block
  <2>2. CASE SlabBlock(b)
    <3>1. IsSlab(b.pg)' /\ sz'[b.pg] = sz[b.pg]
      BY <1>3, <1>4, <2>1, <2>2 DEF SlabBlock
    <3> QED
      BY <2>2, <3>1 DEF SlabBlock, Linked
  <2>3. CASE LargeBlock(b)
    BY <2>3 DEF LargeBlock
  <2> QED
    BY <2>2, <2>3 DEF IInv, BlockInv
<1>8. NoOverlap'
  BY DEF IInv, NoOverlap, Overlap
<1>9. FreeInv'
  <2> SUFFICES ASSUME NEW q \in Page
               PROVE  /\ ~Linked(q)' => n_head'[q] = <<>>
                      /\ ListOK(n_head'[q])
                      /\ \A i \in 1 .. Len(n_head'[q]), b \in Owned :
                           b.pg = q => Apart(n_head'[q][i], b)
    BY DEF FreeInv
  <2>1. CASE q = p
    BY <1>1, <1>3, <2>1
  <2>2. CASE q # p
    BY <1>3, <2>2 DEF IInv, FreeInv, Linked
  <2> QED
    BY <2>1, <2>2
<1> QED
  BY <1>2, <1>3, <1>4, <1>5, <1>6, <1>7, <1>8, <1>9

LEMMA AddSlabLinkIInv ==
  ASSUME IInv, NEW t \in Thread, add_slab_link(t)
  PROVE  IInv'
<1> USE DEF IInv
<1> PICK s : s = slab[t]
  OBVIOUS
<1> PICK p : p = page[t]
  OBVIOUS
<1>1. /\ pc[t] = "add_slab_link" /\ booted /\ ptr[t] = NULL /\ ret[t] = NULL
      /\ size[t] \in Served /\ IsSmall(size[t]) /\ s # NULL /\ s \in Page
      /\ Linked(s) /\ sz[s] = RoundSize(size[t])
      /\ UNCHANGED <<Meta, G_lock, Slab, live, size, list, ret, ptr>>
  BY DEF add_slab_link, LocalInv, LocalOK, FreePc, SmallPc, TypeLocal, PageOrNull,
         CursorInv, CursorOK
<1>2. page'[t] = NULL /\ \A u \in Thread : u # t => pc'[u] = pc[u] /\ page'[u] = page[u]
                                                    /\ slab'[u] = slab[u]
  BY DEF add_slab_link, Goto, TypeLocal
<1>3. Owned' = Owned
  BY <1>1 DEF Owned
<1>4. \A u \in Thread, q \in Page : HoldsS(u, q) => Linked(q)
  BY HolderLinked
<1>5. HoldsS(t, s) /\ \A u \in Thread : HoldsS(u, s) => u = t
  BY <1>1 DEF HoldsS, AddsSlab, MutualExclusion
<1>6. \A q \in Page : HoldsS(t, q) => q = s
  BY <1>1 DEF HoldsS, AddsSlab
<1>7. page' \in [Thread -> Nat \cup {NULL}]
  BY DEF add_slab_link, TypeLocal
<1>8. CASE p = NULL
  <2>1. /\ UNCHANGED <<sz, n_head, next, slab>> /\ pc'[t] = "ret"
        /\ pc' = [pc EXCEPT ![t] = "ret"] /\ lk' = [lk EXCEPT ![s] = 0]
    BY <1>8 DEF add_slab_link, Goto, TypeLocal
  <2>2. TypeLocal' /\ TypeShared'
    BY <1>1, <1>7, <2>1 DEF TypeLocal, TypeShared
  <2>3. LocalInv'
    BY <1>1, <1>2, <2>1 DEF LocalInv, LocalOK, FreePc, SmallPc, booted
  <2>4. MutualExclusion'
    <3>1. \A u \in Thread : HoldsG(u)' <=> HoldsG(u)
      BY <1>1, <1>2, <2>1 DEF HoldsG
    <3>2. \A u \in Thread, q \in Page : HoldsS(u, q)' <=> HoldsS(u, q) /\ u # t
      BY <1>1, <1>2, <2>1 DEF HoldsS, AddsSlab
    <3>3. lk'[s] = 0 /\ \A q \in Page : q # s => lk'[q] = lk[q]
      BY <1>1, <2>1 DEF TypeShared
    <3> QED
      BY <1>1, <1>5, <1>6, <3>1, <3>2, <3>3 DEF MutualExclusion
  <2>5. LinkedInv' /\ HeadInv' /\ ChainInv'
    BY <1>1, <2>1 DEF LinkedInv, HeadInv, ChainInv, Linked, IsSlab
  <2>6. CursorInv' /\ PendingInv'
    BY <1>1, <1>2, <2>1 DEF CursorInv, CursorOK, PendingInv, Pending, IsSlab, Linked
  <2>7. SnapInv'
    BY <1>1, <1>2, <2>1 DEF SnapInv, SnapOK, try_alloc, npage
  <2>8. BlockInv' /\ NoOverlap' /\ OneOwner'
    BY <1>1, <1>3, <2>1 DEF BlockInv, NoOverlap, OneOwner, SlabBlock, LargeBlock, IsSlab, Linked
  <2>9. FreeInv'
    BY <1>3, <2>1 DEF FreeInv, Linked
  <2> QED
    BY <2>2, <2>3, <2>4, <2>5, <2>6, <2>7, <2>8, <2>9
<1>9. CASE p # NULL
  <2>1. /\ p \in Page /\ Pending(t, p) /\ IsSlab(p) /\ ~Linked(p) /\ p # s
        /\ \A u \in Thread : Pending(u, p) => u = t
    BY <1>1, <1>9 DEF PendingInv, Pending, PageOrNull
  <2>2. PICK j \in Class : sz[s] = ClassSize(j)
    BY <1>1 DEF LinkedInv
  <2>3. /\ sz' = [sz EXCEPT ![p] = ClassSize(j)]
        /\ n_head' = [n_head EXCEPT ![p] = FreshList(ClassSize(j))]
        /\ next' = [next EXCEPT ![p] = NULL, ![s] = p]
        /\ lk' = [lk EXCEPT ![p] = 0, ![s] = 0]
        /\ slab' = [slab EXCEPT ![t] = p]
        /\ pc' = [pc EXCEPT ![t] = "new_slab_alloc"]
    BY <1>9, <2>2 DEF add_slab_link, Goto, slab_init
  <2>4. pc'[t] = "new_slab_alloc" /\ slab'[t] = p
    BY <2>3 DEF TypeLocal
  <2>5. /\ next'[s] = p /\ next'[p] = NULL
        /\ \A q \in Page : q # p /\ q # s => next'[q] = next[q]
    BY <1>1, <2>1, <2>3 DEF TypeShared
  <2>6. \A b \in Owned : b.pg # p
    <3> SUFFICES ASSUME NEW b \in Owned, b.pg = p PROVE FALSE
      OBVIOUS
    <3>1. CASE SlabBlock(b)
      BY <2>1, <3>1 DEF SlabBlock
    <3>2. CASE LargeBlock(b)
      <4>1. b.np \in Nat /\ b.np # 0 /\ p \in Nat
        BY <2>1, <3>2, OwnedType, MetaAssumption DEF LargeBlock, Block, Page
      <4>2. p \in b.pg .. b.pg + b.np - 1
        BY <4>1
      <4> QED
        BY <2>1, <3>2, <4>2 DEF LargeBlock, IsSlab
    <3> QED
      BY <3>1, <3>2 DEF BlockInv
  <2>7. /\ sz' \in [Page -> Nat] /\ n_head' \in [Page -> Seq(Node)]
        /\ sz'[p] = ClassSize(j) /\ Linked(p)'
        /\ \A q \in Page : q # p => sz'[q] = sz[q] /\ n_head'[q] = n_head[q]
        /\ \A q \in Page : IsSlab(q) => IsSlab(q)'
        /\ \A q \in Page : Linked(q) => Linked(q)'
        /\ LinkedInv' /\ BlockInv' /\ NoOverlap' /\ FreeInv'
    <3>1. IsSlab(p)' /\ \A k \in MetaIdx : Meta[k].is_alloc => Meta'[k] = Meta[k]
      BY <1>1, <2>1 DEF IsSlab
    <3> QED
      BY <1>3, <2>1, <2>3, <2>6, <3>1, NewSlab
  <2>8. TypeLocal'
    BY <1>1, <1>7, <2>1, <2>3 DEF TypeLocal, PageOrNull, SmallPc
  <2>9. TypeShared'
    <3>1. lk' \in [Page -> {0, 1}] /\ next' \in [Page -> PageOrNull]
      BY <1>1, <2>1, <2>3 DEF TypeShared, PageOrNull
    <3> QED
      BY <1>1, <2>7, <3>1 DEF TypeShared
  <2>10. LocalInv'
    BY <1>1, <1>2, <1>9, <2>4 DEF LocalInv, LocalOK, FreePc, SmallPc, booted
  <2>11. MutualExclusion'
    <3>1. \A u \in Thread : HoldsG(u)' <=> HoldsG(u)
      BY <1>1, <1>2, <2>4 DEF HoldsG
    <3>2. \A u \in Thread, q \in Page : HoldsS(u, q)' <=> HoldsS(u, q) /\ u # t
      BY <1>1, <1>2, <2>4 DEF HoldsS, AddsSlab
    <3>3. lk'[s] = 0 /\ lk'[p] = 0 /\ \A q \in Page : q # s /\ q # p => lk'[q] = lk[q]
      BY <1>1, <2>1, <2>3 DEF TypeShared
    <3>4. \A u \in Thread : ~HoldsS(u, p)
      BY <1>4, <2>1
    <3> QED
      BY <1>1, <1>5, <1>6, <3>1, <3>2, <3>3, <3>4 DEF MutualExclusion
  <2>12. HeadInv'
    <3> SUFFICES ASSUME NEW c \in CPU, NEW k \in Class, Slab[c][k] # NULL
                 PROVE  sz'[Slab[c][k]] = ClassSize(k)
      BY <1>1 DEF HeadInv
    <3>1. Slab[c][k] \in Page /\ sz[Slab[c][k]] = ClassSize(k) /\ ClassSize(k) # 0
      BY FreshListOK DEF HeadInv, TypeShared, PageOrNull
    <3> QED
      BY <2>1, <2>7, <3>1 DEF Linked
  <2>13. ChainInv'
    <3> SUFFICES ASSUME NEW q \in Page, next'[q] # NULL
                 PROVE  Linked(q)' /\ sz'[next'[q]] = sz'[q]
      BY DEF ChainInv
    <3>1. CASE q = s
      BY <1>1, <2>1, <2>2, <2>5, <2>7, <3>1
    <3>2. CASE q # s
      <4>1. q # p /\ next'[q] = next[q]
        BY <2>5, <3>2
      <4>2. Linked(q) /\ sz[next[q]] = sz[q] /\ next[q] \in Page
        BY <4>1 DEF ChainInv, TypeShared, PageOrNull
      <4>3. next[q] # p
        BY <2>1, <4>2 DEF Linked
      <4> QED
        BY <2>7, <4>1, <4>2, <4>3
    <3> QED
      BY <3>1, <3>2
  <2>14. CursorInv'
    <3> SUFFICES ASSUME NEW u \in Thread PROVE CursorOK(u)'
      BY DEF CursorInv
    <3>1. CASE u = t
      BY <1>1, <2>2, <2>4, <2>7, <3>1 DEF CursorOK, Linked
    <3>2. CASE u # t
      <4>1. slab[u] # NULL => slab[u] \in Page /\ Linked(slab[u]) /\ slab[u] # p
        BY <2>1 DEF TypeLocal, PageOrNull, CursorInv, CursorOK
      <4> QED
        BY <1>1, <1>2, <2>7, <3>2, <4>1 DEF CursorInv, CursorOK, Linked
    <3> QED
      BY <3>1, <3>2
  <2>15. PendingInv'
    <3>1. \A u \in Thread, q \in Page : Pending(u, q)' <=> u # t /\ Pending(u, q)
      BY <1>2, <2>4 DEF Pending
    <3>2. \A u \in Thread, q \in Page : u # t /\ Pending(u, q) => q # p
      BY <2>1
    <3>3. \A q \in Page : q # p => (Linked(q)' <=> Linked(q))
      BY <2>7 DEF Linked
    <3>4. \A u \in Thread : pc'[u] = "add_slab_link" => page'[u] \in PageOrNull
      BY <1>2, <2>4 DEF PendingInv
    <3> QED
      BY <2>7, <3>1, <3>2, <3>3, <3>4 DEF PendingInv
  <2>16. SnapInv'
    <3> SUFFICES ASSUME NEW u \in Thread PROVE SnapOK(u)'
      BY DEF SnapInv
    <3>1. CASE u = t
      BY <2>4, <3>1 DEF SnapOK
    <3>2. CASE u # t
      <4>1. \A q \in Page : HoldsS(u, q) => n_head'[q] = n_head[q]
        BY <1>4, <2>1, <2>7
      <4>2. pc[u] \in {"slab_take", "new_slab_take"} => n_head'[slab[u]] = n_head[slab[u]]
        BY <4>1 DEF HoldsS, LocalInv, LocalOK, SmallPc, TypeLocal, PageOrNull
      <4>3. pc[u] = "S_link" => n_head'[ptr[u].pg] = n_head[ptr[u].pg]
        BY <4>1, FreedBlock DEF HoldsS, FreePc, Block
      <4> QED
        BY <1>1, <1>2, <3>2, <4>2, <4>3 DEF SnapInv, SnapOK, try_alloc, npage
    <3> QED
      BY <3>1, <3>2
  <2>17. OneOwner'
    BY <1>1 DEF OneOwner
  <2> QED
    BY <2>7, <2>8, <2>9, <2>10, <2>11, <2>12, <2>13, <2>14, <2>15, <2>16, <2>17
<1> QED
  BY <1>8, <1>9

LEMMA GFreeClearIInv ==
  ASSUME IInv, NEW t \in Thread, G_free_clear(t)
  PROVE  IInv'
<1> USE DEF IInv
<1> PICK b : b = ptr[t]
  OBVIOUS
<1>1. /\ pc[t] = "G_clear" /\ booted /\ slab[t] = NULL /\ ret[t] = NULL
      /\ b \in Block /\ b \in Owned /\ LargeBlock(b) /\ G_lock' = 0
      /\ UNCHANGED <<Slab, lk, sz, next, n_head, live, size, slab, list, ret>>
  BY FreedBlock DEF G_free_clear, LocalInv, LocalOK, FreePc
<1>2. b.pg \in Nat /\ b.np \in Nat \ {0}
  BY <1>1, MetaAssumption DEF Block, Page, LargeBlock
<1>3. page[t] = b.pg + b.np
  <2>1. b.pg \in b.pg .. b.pg + b.np - 1
    BY <1>2
  <2> QED
    BY <1>1, <2>1 DEF SnapInv, SnapOK, LargeBlock
<1> DEFINE run == b.pg .. b.pg + b.np - 1
<1>4. /\ \A k \in run : k \in MetaIdx /\ Meta[k].is_alloc /\ ~Meta[k].is_slab
      /\ \A k \in MetaIdx : Meta'[k] = IF k \in run THEN FreeEntry(Meta[k]) ELSE Meta[k]
      /\ Meta' \in [MetaIdx -> [is_alloc : BOOLEAN, is_slab : BOOLEAN, end : Nat \cup {NULL}]]
  <2>1. \A k \in run : k \in MetaIdx /\ Meta[k].is_alloc /\ ~Meta[k].is_slab
    BY <1>1 DEF LargeBlock
  <2>2. Meta' = [k \in MetaIdx |-> IF k \in run THEN FreeEntry(Meta[k]) ELSE Meta[k]]
    <3>1. Meta' = Cleared(Meta, b.pg, b.pg + b.np)
      BY <1>3 DEF G_free_clear
    <3>2. Cleared(Meta, b.pg, b.pg + b.np)
            = [k \in MetaIdx |-> IF k \in run THEN FreeEntry(Meta[k]) ELSE Meta[k]]
      BY <1>2 DEF Cleared
    <3> QED
      BY <3>1, <3>2
  <2>3. \A k \in MetaIdx : Meta[k] \in [is_alloc : BOOLEAN, is_slab : BOOLEAN, end : Nat \cup {NULL}]
    BY DEF TypeShared
  <2>4. \A k \in MetaIdx :
          FreeEntry(Meta[k]) \in [is_alloc : BOOLEAN, is_slab : BOOLEAN, end : Nat \cup {NULL}]
    BY <2>3 DEF FreeEntry
  <2> HIDE DEF run
  <2> QED
    BY <2>1, <2>2, <2>3, <2>4
<1> HIDE DEF run
<1>5. /\ \A k \in MetaIdx : Meta'[k].is_slab = Meta[k].is_slab
      /\ \A k \in MetaIdx : k \notin run => Meta'[k] = Meta[k]
  <2>1. \A k \in MetaIdx : FreeEntry(Meta[k]).is_slab = Meta[k].is_slab
    BY DEF FreeEntry
  <2> QED
    BY <1>4, <2>1
<1>6. \A p \in Page : p \in MetaIdx
  BY MetaAssumption DEF Page, MetaIdx
<1>7. /\ pc'[t] = "idle" /\ ptr'[t] = NULL /\ page'[t] = NULL
      /\ ptr' = [ptr EXCEPT ![t] = NULL]
      /\ \A u \in Thread : u # t => pc'[u] = pc[u] /\ ptr'[u] = ptr[u] /\ page'[u] = page[u]
  BY DEF G_free_clear, Goto, TypeLocal
<1>8. Owned' = Owned \ {b} /\ OneOwner'
  BY <1>1, <1>7, FreedOnce DEF FreePc
<1>9. \A u \in Thread : HoldsG(u) <=> u = t
  BY <1>1 DEF HoldsG, MutualExclusion
<1>10. \A p \in Page : IsSlab(p) => p \notin run /\ IsSlab(p)'
  BY <1>4, <1>5, <1>6 DEF IsSlab
<1>11. TypeLocal'
  BY <1>1 DEF G_free_clear, Goto, TypeLocal
<1>12. TypeShared'
  BY <1>1, <1>4 DEF TypeShared
<1>13. LocalInv'
  <2> SUFFICES ASSUME NEW u \in Thread PROVE LocalOK(u)'
    BY DEF LocalInv
  <2>1. CASE u = t
    BY <1>1, <1>7, <2>1 DEF LocalOK, FreePc, SmallPc
  <2>2. CASE u # t
    <3>1. pc[u] \in FreePc => Meta'[ptr[u].pg].is_slab = Meta[ptr[u].pg].is_slab
      BY <1>5, <1>6, FreedBlock DEF Block
    <3> QED
      BY <1>1, <1>7, <2>2, <3>1 DEF LocalInv, LocalOK, FreePc, booted
  <2> QED
    BY <2>1, <2>2
<1>14. MutualExclusion'
  <2>1. \A u \in Thread : ~HoldsG(u)'
    BY <1>7, <1>9 DEF HoldsG
  <2>2. \A u \in Thread, p \in Page : HoldsS(u, p)' <=> HoldsS(u, p)
    BY <1>1, <1>7 DEF HoldsS, AddsSlab
  <2> QED
    BY <1>1, <2>1, <2>2 DEF MutualExclusion
<1>15. LinkedInv' /\ HeadInv' /\ ChainInv'
  BY <1>1, <1>10 DEF LinkedInv, HeadInv, ChainInv, Linked
<1>16. CursorInv'
  BY <1>1, <1>7 DEF CursorInv, CursorOK, Linked
<1>17. PendingInv'
  BY <1>1, <1>7, <1>10 DEF PendingInv, Pending, Linked
<1>18. SnapInv'
  <2> SUFFICES ASSUME NEW u \in Thread PROVE SnapOK(u)'
    BY DEF SnapInv
  <2>1. CASE u = t
    BY <1>7, <2>1 DEF SnapOK
  <2>2. CASE u # t
    BY <1>1, <1>7, <1>9, <2>2 DEF SnapInv, SnapOK, HoldsG
  <2> QED
    BY <2>1, <2>2
<1>19. BlockInv'
  <2> SUFFICES ASSUME NEW d \in Owned, d # b PROVE SlabBlock(d)' \/ LargeBlock(d)'
    BY <1>8 DEF BlockInv
  <2>1. d \in Block /\ d.pg \in Page /\ d.pg \in Nat /\ d.np \in Nat
    BY OwnedType, MetaAssumption DEF Block, Page
  <2>2. CASE SlabBlock(d)
    BY <1>1, <1>10, <2>1, <2>2 DEF SlabBlock, Linked
  <2>3. CASE LargeBlock(d)
    <3>1. d.pg + d.np <= b.pg \/ b.pg + b.np <= d.pg
      <4>1. ~Overlap(d, b)
        BY <1>1 DEF NoOverlap
      <4>2. d.off = 0 /\ b.off = 0 /\ d.len = GPAGE_SZ /\ b.len = GPAGE_SZ
        BY <1>1, <2>3 DEF LargeBlock
      <4> QED
        BY <1>2, <2>1, <4>1, <4>2, LayoutAssumption DEF Overlap
    <3>2. \A k \in d.pg .. d.pg + d.np - 1 : k \notin run
      BY <1>2, <2>1, <3>1 DEF run
    <3>3. \A k \in d.pg .. d.pg + d.np - 1 : k \in MetaIdx /\ Meta'[k] = Meta[k]
      BY <1>5, <2>3, <3>2 DEF LargeBlock
    <3> QED
      BY <2>3, <3>3 DEF LargeBlock
  <2> QED
    BY <2>2, <2>3 DEF BlockInv
<1>20. NoOverlap'
  BY <1>8 DEF NoOverlap, Overlap
<1>21. FreeInv'
  BY <1>1, <1>8 DEF FreeInv, Linked
<1> QED
  BY <1>8, <1>11, <1>12, <1>13, <1>14, <1>15, <1>16, <1>17, <1>18, <1>19, <1>20, <1>21

(* Boot: no thread is in a call before the last slab is made. *)
LEMMA SInitIInv ==
  ASSUME IInv, S_init
  PROVE  IInv'
<1> USE DEF IInv
<1>1. PICK c \in CPU, j \in Class :
        /\ Slab[c][j] = NULL
        /\ \E i \in FirstFit(1) :
             /\ Meta' = slow_alloc(i, 1, TRUE)
             /\ Slab' = [Slab EXCEPT ![c][j] = i]
             /\ slab_init(i, ClassSize(j))
             /\ lk' = [lk EXCEPT ![i] = 0]
             /\ next' = [next EXCEPT ![i] = NULL]
        /\ UNCHANGED <<G_lock, live, local>>
  BY DEF S_init
<1>2. PICK i \in FirstFit(1) :
        /\ Meta' = slow_alloc(i, 1, TRUE)
        /\ Slab' = [Slab EXCEPT ![c][j] = i]
        /\ slab_init(i, ClassSize(j))
        /\ lk' = [lk EXCEPT ![i] = 0]
        /\ next' = [next EXCEPT ![i] = NULL]
  BY <1>1
<1>3. UNCHANGED <<G_lock, live, pc, size, slab, list, page, ret, ptr>>
  BY <1>1 DEF local
<1>4. \A t \in Thread : pc[t] = "idle" /\ slab[t] = NULL /\ ret[t] = NULL /\ ptr[t] = NULL
  BY <1>1 DEF booted, LocalInv, LocalOK, FreePc
<1>5. i \in Page /\ try_alloc(i, 1) /\ i \in Nat /\ i # NULL
  BY MetaAssumption, NullAssumption DEF FirstFit, Cand, Page
<1>6. ~Linked(i) /\ \A b \in Owned : b.pg # i
  BY <1>5, FreeRunMisses
<1>7. /\ Meta' \in [MetaIdx -> [is_alloc : BOOLEAN, is_slab : BOOLEAN, end : Nat \cup {NULL}]]
      /\ \A k \in MetaIdx : Meta[k].is_alloc => Meta'[k] = Meta[k]
      /\ Meta'[i].is_alloc /\ Meta'[i].is_slab
  <2> DEFINE e == [is_alloc |-> TRUE, is_slab |-> TRUE, end |-> i + 1]
  <2>1. Meta' = Marked(i, 1, e)
    BY <1>2 DEF slow_alloc, Marked
  <2>2. /\ e \in [is_alloc : BOOLEAN, is_slab : BOOLEAN, end : Nat \cup {NULL}]
        /\ e.is_alloc /\ e.is_slab
    BY <1>5
  <2>3. i + 1 <= META_SZ /\ i \in i .. i + 1 - 1
    BY <1>5, MetaAssumption DEF Page
  <2> HIDE DEF e
  <2>4. /\ Meta' \in [MetaIdx -> [is_alloc : BOOLEAN, is_slab : BOOLEAN, end : Nat \cup {NULL}]]
        /\ \A k \in MetaIdx : Meta[k].is_alloc => Meta'[k] = Meta[k]
        /\ \A k \in i .. i + 1 - 1 : Meta'[k] = e
    BY <1>5, <2>1, <2>2, <2>3, SlowAllocFrame
  <2> QED
    BY <2>2, <2>3, <2>4
<1>8. Owned' = Owned
  BY <1>3 DEF Owned
<1>9. /\ sz' \in [Page -> Nat] /\ n_head' \in [Page -> Seq(Node)]
      /\ sz'[i] = ClassSize(j) /\ Linked(i)'
      /\ \A q \in Page : q # i => sz'[q] = sz[q] /\ n_head'[q] = n_head[q]
      /\ \A q \in Page : IsSlab(q) => IsSlab(q)'
      /\ \A q \in Page : Linked(q) => Linked(q)'
      /\ LinkedInv' /\ BlockInv' /\ NoOverlap' /\ FreeInv'
  <2>1. IsSlab(i)'
    BY <1>7 DEF IsSlab
  <2>2. /\ sz' = [sz EXCEPT ![i] = ClassSize(j)]
        /\ n_head' = [n_head EXCEPT ![i] = FreshList(ClassSize(j))]
    BY <1>2 DEF slab_init
  <2> QED
    BY <1>5, <1>6, <1>7, <1>8, <2>1, <2>2, NewSlab
<1>10. TypeLocal'
  BY <1>3 DEF TypeLocal
<1>11. TypeShared'
  <2>1. lk' \in [Page -> {0, 1}] /\ next' \in [Page -> PageOrNull]
    BY <1>2, <1>5 DEF TypeShared, PageOrNull
  <2>2. Slab' \in [CPU -> [Class -> PageOrNull]]
    BY <1>2, <1>5 DEF TypeShared, PageOrNull
  <2> QED
    BY <1>3, <1>7, <1>9, <2>1, <2>2 DEF TypeShared
<1>12. LocalInv'
  BY <1>3, <1>4 DEF LocalInv, LocalOK, FreePc, SmallPc
<1>13. MutualExclusion'
  <2>1. \A u \in Thread : ~HoldsG(u) /\ ~HoldsG(u)'
    BY <1>3, <1>4 DEF HoldsG
  <2>2. \A u \in Thread, p \in Page : ~HoldsS(u, p) /\ ~HoldsS(u, p)'
    BY <1>3, <1>4 DEF HoldsS, AddsSlab
  <2>3. \A p \in Page : lk'[p] = 0 \/ lk'[p] = lk[p]
    BY <1>2, <1>5 DEF TypeShared
  <2> QED
    BY <1>3, <2>1, <2>2, <2>3 DEF MutualExclusion
<1>14. HeadInv'
  <2> SUFFICES ASSUME NEW d \in CPU, NEW k \in Class, Slab'[d][k] # NULL
               PROVE  sz'[Slab'[d][k]] = ClassSize(k)
    BY DEF HeadInv
  <2>1. CASE d = c /\ k = j
    BY <1>2, <1>9, <2>1 DEF TypeShared
  <2>2. CASE ~(d = c /\ k = j)
    <3>1. Slab'[d][k] = Slab[d][k]
      BY <1>2, <2>2 DEF TypeShared
    <3>2. Slab[d][k] \in Page /\ sz[Slab[d][k]] = ClassSize(k) /\ ClassSize(k) # 0
      BY <3>1, FreshListOK DEF HeadInv, TypeShared, PageOrNull
    <3> QED
      BY <1>6, <1>9, <3>1, <3>2 DEF Linked
  <2> QED
    BY <2>1, <2>2
<1>15. ChainInv'
  <2> SUFFICES ASSUME NEW q \in Page, next'[q] # NULL
               PROVE  Linked(q)' /\ sz'[next'[q]] = sz'[q]
    BY DEF ChainInv
  <2>1. q # i /\ next'[q] = next[q]
    BY <1>2, <1>5 DEF TypeShared
  <2>2. Linked(q) /\ sz[next[q]] = sz[q] /\ next[q] \in Page
    BY <2>1 DEF ChainInv, TypeShared, PageOrNull
  <2>3. next[q] # i
    BY <1>6, <2>2 DEF Linked
  <2> QED
    BY <1>9, <2>1, <2>2, <2>3
<1>16. CursorInv' /\ PendingInv' /\ SnapInv'
  BY <1>3, <1>4 DEF CursorInv, CursorOK, PendingInv, Pending, SnapInv, SnapOK
<1>17. OneOwner'
  BY <1>3 DEF OneOwner
<1> QED
  BY <1>9, <1>10, <1>11, <1>12, <1>13, <1>14, <1>15, <1>16, <1>17

LEMMA StutterIInv ==
  ASSUME IInv, UNCHANGED vars
  PROVE  IInv'
<1> USE DEF IInv
<1>1. UNCHANGED <<Meta, G_lock, Slab, lk, sz, next, n_head, live,
                  pc, size, slab, list, page, ret, ptr>>
  BY DEF vars, shared, local
<1>2. Owned' = Owned
  BY <1>1 DEF Owned
<1>3. TypeShared' /\ TypeLocal'
  BY <1>1 DEF TypeShared, TypeLocal
<1>4. LocalInv' /\ MutualExclusion'
  BY <1>1 DEF LocalInv, LocalOK, booted, MutualExclusion, HoldsG, HoldsS, AddsSlab
<1>5. LinkedInv' /\ HeadInv' /\ ChainInv' /\ CursorInv' /\ PendingInv'
  BY <1>1 DEF LinkedInv, HeadInv, ChainInv, CursorInv, CursorOK, PendingInv, Pending,
              IsSlab, Linked
<1>6. SnapInv'
  BY <1>1 DEF SnapInv, SnapOK, try_alloc, npage
<1>7. BlockInv' /\ NoOverlap' /\ OneOwner' /\ FreeInv'
  BY <1>1, <1>2 DEF BlockInv, NoOverlap, OneOwner, SlabBlock, LargeBlock, FreeInv, IsSlab, Linked
<1> QED
  BY <1>3, <1>4, <1>5, <1>6, <1>7

LEMMA NextIInv == IInv /\ [Next]_vars => IInv'
<1> SUFFICES ASSUME IInv, [Next]_vars PROVE IInv'
  OBVIOUS
<1>1. CASE UNCHANGED vars
  BY <1>1, StutterIInv
<1>2. CASE S_init
  BY <1>2, SInitIInv
<1>3. ASSUME NEW t \in Thread, NEW s \in Requests, kalloc(t, s) PROVE IInv'
  BY <1>3, KallocIInv
<1>4. ASSUME NEW t \in Thread, NEW b \in live, kfree(t, b) PROVE IInv'
  BY <1>4, KfreeIInv
<1>5. ASSUME NEW t \in Thread, Step(t) PROVE IInv'
  BY <1>5, SlabAllocLockIInv, SlabAllocTakeIInv, SAllocNextIInv, AddSlabLockIInv,
     GAllocLockIInv, GAllocTakeIInv, AddSlabLinkIInv, SFreeLockIInv, SFreeLinkIInv,
     GFreeLockIInv, GFreeClearIInv, ReturnIInv DEF Step
<1> QED
  BY <1>1, <1>2, <1>3, <1>4, <1>5 DEF Next

----------------------------------------------------------------------------
(* The theorems. *)

(* The inductive invariant holds in every reachable state of the allocator,*)
(* whatever the number of CPUs, threads, pages and classes.                *)
THEOREM Invariance == Spec => []IInv
<1>1. Init => IInv
  BY InitIInv
<1>2. IInv /\ [Next]_vars => IInv'
  BY NextIInv
<1> QED
  BY <1>1, <1>2, PTL DEF Spec

(* Every variable of pmm.c keeps its type, S_alloc's walk never follows a  *)
(* NULL slab and kfree's second half never a NULL pointer.                 *)
THEOREM TypeCorrect == Spec => []TypeOK
<1>1. IInv => TypeOK
  <2> SUFFICES ASSUME IInv, NEW t \in Thread
               PROVE  /\ pc[t] \in SmallPc => slab[t] \in Page
                      /\ pc[t] \in FreePc => ptr[t] \in Block
    BY DEF IInv, TypeOK
  <2>1. pc[t] \in SmallPc => slab[t] \in Page
    BY DEF IInv, LocalInv, LocalOK, TypeLocal, PageOrNull
  <2>2. pc[t] \in FreePc => ptr[t] \in Block
    BY FreedBlock
  <2> QED
    BY <2>1, <2>2
<1> QED
  BY <1>1, Invariance, PTL

(* No two blocks handed out by kalloc share a byte until one is freed. *)
THEOREM BlocksDisjoint == Spec => []NoOverlap
<1>1. IInv => NoOverlap
  BY DEF IInv
<1> QED
  BY <1>1, Invariance, PTL

(* kalloc never hands the same block to two callers. *)
THEOREM SingleOwner == Spec => []OneOwner
<1>1. IInv => OneOwner
  BY DEF IInv
<1> QED
  BY <1>1, Invariance, PTL

(* G_lock and every slab's lock protect their critical sections, add_slab's*)
(* nested one included.                                                    *)
THEOREM Exclusion == Spec => []MutualExclusion
<1>1. IInv => MutualExclusion
  BY DEF IInv
<1> QED
  BY <1>1, Invariance, PTL

(* One step leaves an initialised slab's page entry, object size and link  *)
(* as they are.                                                            *)
LEMMA SlabStep ==
  ASSUME IInv, [Next]_vars, NEW p \in Page, IsSlab(p), Linked(p)
  PROVE  /\ Meta'[p] = Meta[p] /\ sz'[p] = sz[p]
         /\ next[p] # NULL => next'[p] = next[p]
<1> USE DEF IInv
<1>1. p \in MetaIdx
  BY MetaAssumption DEF Page, MetaIdx
<1>2. CASE UNCHANGED <<Meta, sz, next>>
  BY <1>2
<1>3. CASE S_init
  <2>1. PICK j \in Class, i \in FirstFit(1) :
          /\ Meta' = slow_alloc(i, 1, TRUE) /\ slab_init(i, ClassSize(j))
          /\ next' = [next EXCEPT ![i] = NULL]
    BY <1>3 DEF S_init
  <2>2. i \in Page /\ i \in Nat /\ try_alloc(i, 1)
    BY MetaAssumption DEF FirstFit, Cand, Page
  <2>3. p # i
    BY <2>2, FreeRunMisses
  <2>4. Meta'[p] = Meta[p]
    BY <1>1, <2>1, <2>2, <2>3, MetaAssumption DEF slow_alloc, Page
  <2> QED
    BY <2>1, <2>2, <2>3, <2>4 DEF slab_init, TypeShared
<1>4. ASSUME NEW t \in Thread, G_alloc_take(t)
      PROVE  Meta'[p] = Meta[p] /\ UNCHANGED <<sz, next>>
  <2>1. /\ UNCHANGED <<sz, next>> /\ pc[t] = "G_take"
        /\ Meta' = IF page[t] = NULL THEN Meta ELSE slow_alloc(page[t], npage(t), slab[t] # NULL)
    BY <1>4 DEF G_alloc_take
  <2>2. page[t] # NULL => try_alloc(page[t], npage(t))
    BY <2>1 DEF SnapInv, SnapOK
  <2>3. page[t] # NULL => p \notin page[t] .. page[t] + npage(t) - 1
    BY <2>2 DEF try_alloc, IsSlab
  <2> QED
    BY <1>1, <2>1, <2>3 DEF slow_alloc
<1>5. ASSUME NEW t \in Thread, add_slab_link(t)
      PROVE  /\ UNCHANGED Meta /\ sz'[p] = sz[p]
             /\ next[p] # NULL => next'[p] = next[p]
  <2>1. UNCHANGED Meta /\ pc[t] = "add_slab_link" /\ slab[t] \in Page
    BY <1>5 DEF add_slab_link, LocalInv, LocalOK, SmallPc, TypeLocal, PageOrNull
  <2>2. CASE page[t] = NULL
    BY <1>5, <2>1, <2>2 DEF add_slab_link
  <2>3. CASE page[t] # NULL
    <3>1. page[t] \in Page /\ ~Linked(page[t])
      BY <2>1, <2>3 DEF PendingInv, Pending, PageOrNull
    <3>2. /\ next[slab[t]] = NULL /\ sz' = [sz EXCEPT ![page[t]] = sz[slab[t]]]
          /\ next' = [next EXCEPT ![page[t]] = NULL, ![slab[t]] = page[t]]
      BY <1>5, <2>3 DEF add_slab_link, slab_init
    <3>3. p # page[t]
      BY <3>1
    <3> QED
      BY <2>1, <3>1, <3>2, <3>3 DEF TypeShared
  <2> QED
    BY <2>2, <2>3
<1>6. ASSUME NEW t \in Thread, G_free_clear(t)
      PROVE  Meta'[p] = Meta[p] /\ UNCHANGED <<sz, next>>
  <2>1. /\ UNCHANGED <<sz, next>> /\ Meta' = Cleared(Meta, ptr[t].pg, page[t])
        /\ \A k \in ptr[t].pg .. page[t] - 1 : ~Meta[k].is_slab
    BY <1>6 DEF G_free_clear
  <2>2. p \notin ptr[t].pg .. page[t] - 1
    BY <2>1 DEF IsSlab
  <2> QED
    BY <1>1, <2>1, <2>2 DEF Cleared
<1>7. CASE UNCHANGED vars
  BY <1>2, <1>7 DEF vars, shared
<1>8. ASSUME NEW t \in Thread, NEW s \in Requests, kalloc(t, s)
      PROVE  UNCHANGED <<Meta, sz, next>>
  BY <1>8 DEF kalloc, shared
<1>9. ASSUME NEW t \in Thread, NEW b \in live, kfree(t, b)
      PROVE  UNCHANGED <<Meta, sz, next>>
  BY <1>9 DEF kfree
<1>10. ASSUME NEW t \in Thread,
              \/ slab_alloc_lock(t) \/ slab_alloc_take(t) \/ S_alloc_next(t)
              \/ add_slab_lock(t) \/ G_alloc_lock(t) \/ S_free_lock(t) \/ S_free_link(t)
              \/ G_free_lock(t) \/ Return(t)
       PROVE  UNCHANGED <<Meta, sz, next>>
  BY <1>10 DEF slab_alloc_lock, slab_alloc_take, S_alloc_next, add_slab_lock, G_alloc_lock,
               S_free_lock, S_free_link, G_free_lock, Return, shared
<1> QED
  BY <1>2, <1>3, <1>4, <1>5, <1>6, <1>7, <1>8, <1>9, <1>10 DEF Next, Step

(* A slab stays a slab of its size on its chain for ever, so what kfree    *)
(* reads of is_slab without a lock is still true when S_free acts on it.   *)
THEOREM SlabsKept == Spec => SlabsStay
<1>1. IInv /\ [Next]_vars =>
        [\A p \in Page : IsSlab(p) /\ sz[p] # 0 =>
           /\ Meta'[p] = Meta[p] /\ sz'[p] = sz[p]
           /\ next[p] # NULL => next'[p] = next[p]]_vars
  BY SlabStep DEF Linked
<1> QED
  BY <1>1, Invariance, PTL DEF Spec, SlabsStay
=============================================================================
