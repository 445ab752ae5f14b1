---------------------------- MODULE PmmTheorems ----------------------------
(***************************************************************************)
(* The other invariants of Pmm: no assert of pmm.c fails, slabs are sound, *)
(* no memory is lost, and kalloc gives NULL only when the heap is full.    *)
(* At the end, that Pmm implements PmmSpec.                                *)
(* All rest on IInv, which PmmProofs shows invariant; what each needs      *)
(* beside it is defined in PmmInd.  The first lemmas say what the actions  *)
(* that change slabs, pages or blocks do, so that the proofs of the        *)
(* invariants have only those cases.                                       *)
(***************************************************************************)
EXTENDS PmmProofs, WellFoundedInduction

(* slab_alloc takes an object of the slab's size off the free list, or     *)
(* finds it empty.                                                         *)
LEMMA ObjectTaken ==
  ASSUME IInv, NEW t \in Thread, slab_alloc_take(t),
         NEW s, s = slab[t], NEW l, l = list[t], NEW c, c = RoundSize(size[t])
  PROVE  /\ s \in Page /\ Linked(s) /\ sz[s] = c /\ c \in Nat \ {0}
         /\ l = n_head[s] /\ l \in Seq(Node) /\ ListOK(l)
         /\ UNCHANGED <<Meta, Slab, sz, next>>
         /\ \/ n_head' = n_head /\ Owned' = Owned
            \/ /\ l # <<>> /\ l[1].size >= c
               /\ n_head' = [n_head EXCEPT ![s] = Carve(l, c)]
               /\ Owned' = Owned \cup {Object(s, [off |-> l[1].off, size |-> c])}
<1> USE DEF IInv
<1> DEFINE o == Object(s, [off |-> l[1].off, size |-> c])
<1>1. /\ pc[t] \in {"slab_take", "new_slab_take"} /\ ret[t] = NULL
      /\ s # NULL /\ s \in Page /\ size[t] \in Served
      /\ UNCHANGED <<Meta, Slab, sz, next, live, ptr>>
  BY DEF slab_alloc_take, LocalInv, LocalOK, FreePc, SmallPc, TypeLocal, PageOrNull
<1>2. /\ l = n_head[s] /\ l \in Seq(Node) /\ ListOK(l)
      /\ sz[s] = c /\ c \in Nat \ {0} /\ Linked(s)
  BY <1>1, RequestAssumption
     DEF SnapInv, SnapOK, TypeShared, CursorInv, CursorOK, FreeInv
<1>3. \/ ret' = ret /\ n_head' = n_head
      \/ /\ l # <<>> /\ l[1].size >= c /\ ret' = [ret EXCEPT ![t] = o]
         /\ n_head' = [n_head EXCEPT ![s] = Carve(l, c)]
  BY <1>1 DEF slab_alloc_take
<1>4. ASSUME l # <<>> PROVE o # NULL
  <2>1. Len(l) \in Nat \ {0} /\ l[1].off \in Nat
    BY <1>2, <1>4, SeqOfNodes
  <2>2. o \in Block
    BY <1>1, <1>2, <2>1 DEF Object, Block
  <2> QED
    BY <2>2, NullAssumption
<1> HIDE DEF o
<1>5. ASSUME ret' = [ret EXCEPT ![t] = o], l # <<>> PROVE Owned' = Owned \cup {o}
  <2>1. ret'[t] = o /\ \A u \in Thread : u # t => ret'[u] = ret[u]
    BY <1>5 DEF TypeLocal
  <2> QED
    BY <1>1, <1>4, <1>5, <2>1 DEF Owned
<1>6. ret' = ret => Owned' = Owned
  BY <1>1 DEF Owned
<1> QED
  BY <1>1, <1>2, <1>3, <1>5, <1>6 DEF o

(* S_free puts the block back, as a node of the slab's size. *)
LEMMA ObjectFreed ==
  ASSUME IInv, NEW t \in Thread, S_free_link(t), NEW b, b = ptr[t], NEW s, s = b.pg
  PROVE  /\ b \in Owned /\ SlabBlock(b) /\ s \in Page /\ Linked(s)
         /\ UNCHANGED <<Meta, Slab, sz, next>>
         /\ Owned' = Owned \ {b}
         /\ n_head[s] \in Seq(Node)
         /\ [off |-> b.off, size |-> sz[s]] \in Node
         /\ \E k \in 1 .. Len(n_head[s]) + 1 :
              n_head' = [n_head EXCEPT ![s] = InsertAt(n_head[s], k, [off |-> b.off, size |-> sz[s]])]
<1>1. /\ pc[t] = "S_link" /\ pc[t] \in FreePc
      /\ b \in Owned /\ b \in Block /\ s \in Page /\ SlabBlock(b)
      /\ UNCHANGED <<Meta, Slab, sz, next, live, ret>>
      /\ ptr' = [ptr EXCEPT ![t] = NULL]
  BY FreedBlock DEF S_free_link, FreePc, Block
<1>2. list[t] = n_head[s] /\ n_head[s] \in Seq(Node) /\ Linked(s)
  BY <1>1 DEF IInv, SnapInv, SnapOK, TypeShared, SlabBlock
<1>3. Owned' = Owned \ {b}
  BY <1>1, FreedOnce
<1>4. [off |-> b.off, size |-> sz[s]] \in Node
  BY <1>1 DEF Node, Block, IInv, TypeShared
<1>5. \E k \in 1 .. Len(n_head[s]) + 1 :
        n_head' = [n_head EXCEPT ![s] = InsertAt(n_head[s], k, [off |-> b.off, size |-> sz[s]])]
  BY <1>2 DEF S_free_link
<1> QED
  BY <1>1, <1>2, <1>3, <1>4, <1>5

(* G_alloc marks a run of free pages, for a new slab or as a block. *)
LEMMA PagesTaken ==
  ASSUME IInv, NEW t \in Thread, G_alloc_take(t),
         NEW i, i = page[t], NEW n, n = npage(t)
  PROVE  /\ UNCHANGED <<Slab, sz, next, n_head>>
         /\ \/ i = NULL /\ Meta' = Meta /\ Owned' = Owned
            \/ /\ i \in Page /\ n \in Nat \ {0} /\ try_alloc(i, n) /\ i + n <= META_SZ
               /\ \A k \in MetaIdx : k \notin i .. i + n - 1 => Meta'[k] = Meta[k]
               /\ \A k \in i .. i + n - 1 : k \in MetaIdx /\ Meta'[k].is_slab = (slab[t] # NULL)
               /\ slab[t] # NULL => Owned' = Owned
               /\ slab[t] = NULL => Owned' = Owned \cup {Pages(i, n)}
<1> USE DEF IInv
<1>1. /\ pc[t] = "G_take" /\ ptr[t] = NULL /\ ret[t] = NULL
      /\ size[t] \in Served /\ (slab[t] = NULL <=> ~IsSmall(size[t]))
      /\ UNCHANGED <<Slab, sz, next, n_head, live, ptr>>
  BY DEF G_alloc_take, LocalInv, LocalOK, FreePc
<1>2. n \in Nat \ {0} /\ \A k \in Page : k + n <= META_SZ
  <2>1. CASE slab[t] # NULL
    BY <2>1, MetaAssumption DEF npage, Page
  <2>2. CASE slab[t] = NULL
    <3>1. size[t] \in Large /\ n = NPage(size[t])
      BY <1>1, <2>2 DEF Large, npage
    <3>2. n \in Nat \ {0} /\ n_meta + n <= META_SZ + 1
      BY <3>1, MetaAssumption
    <3> QED
      BY <3>2, MetaAssumption DEF Page
  <2> QED
    BY <2>1, <2>2
<1>3. i = NULL \/ (i \in Page /\ i # NULL /\ try_alloc(i, n))
  BY <1>1 DEF SnapInv, SnapOK
<1>4. Meta' = IF i = NULL THEN Meta ELSE slow_alloc(i, n, slab[t] # NULL)
  BY DEF G_alloc_take
<1>5. ret' = ret \/ ret'[t] = IF i = NULL THEN NULL ELSE Pages(i, n)
  BY <1>1 DEF G_alloc_take, TypeLocal
<1>6. \A u \in Thread : u # t => ret'[u] = ret[u]
  BY DEF G_alloc_take, TypeLocal
<1>7. slab[t] # NULL => ret' = ret
  BY DEF G_alloc_take
<1>8. slab[t] = NULL => ret'[t] = IF i = NULL THEN NULL ELSE Pages(i, n)
  BY <1>1 DEF G_alloc_take, TypeLocal
<1>9. CASE i = NULL
  <2>1. Owned' = Owned
    BY <1>1, <1>6, <1>7, <1>8, <1>9 DEF Owned
  <2> QED
    BY <1>1, <1>4, <1>9, <2>1
<1>10. CASE i # NULL
  <2>1. i \in Page /\ try_alloc(i, n) /\ i + n <= META_SZ /\ i \in Nat
    BY <1>2, <1>3, <1>10, MetaAssumption DEF Page
  <2>2. Pages(i, n) # NULL
    <3>1. Pages(i, n) \in Block
      BY <1>2, <2>1, FreeRunMisses
    <3> QED
      BY <3>1, NullAssumption
  <2>3. slab[t] # NULL => Owned' = Owned
    BY <1>1, <1>7 DEF Owned
  <2>4. slab[t] = NULL => Owned' = Owned \cup {Pages(i, n)}
    BY <1>1, <1>6, <1>8, <1>10, <2>2 DEF Owned
  <2>5. \A k \in i .. i + n - 1 : k \in MetaIdx
    BY <1>2, <2>1, MetaAssumption DEF MetaIdx
  <2>6. \A k \in MetaIdx : k \notin i .. i + n - 1 => Meta'[k] = Meta[k]
    BY <1>4, <1>10 DEF slow_alloc
  <2>7. \A k \in i .. i + n - 1 : Meta'[k].is_slab = (slab[t] # NULL)
    <3>1. \A k \in i .. i + n - 1 : Meta'[k] = [is_alloc |-> TRUE, is_slab |-> slab[t] # NULL, end |-> i + n]
      BY <1>4, <1>10, <2>5 DEF slow_alloc
    <3> QED
      BY <3>1
  <2> QED
    BY <1>1, <1>2, <2>1, <2>3, <2>4, <2>5, <2>6, <2>7
<1> QED
  BY <1>9, <1>10

(* G_free clears the run of the block it was given. *)
LEMMA PagesFreed ==
  ASSUME IInv, NEW t \in Thread, G_free_clear(t), NEW b, b = ptr[t]
  PROVE  /\ b \in Owned /\ b \in Block /\ LargeBlock(b)
         /\ UNCHANGED <<Slab, sz, next, n_head>>
         /\ Owned' = Owned \ {b}
         /\ \A k \in MetaIdx : /\ k \in b.pg .. b.pg + b.np - 1 => ~(Meta'[k].is_alloc)
                               /\ k \notin b.pg .. b.pg + b.np - 1 => Meta'[k] = Meta[k]
<1> USE DEF IInv
<1>1. /\ pc[t] = "G_clear" /\ pc[t] \in FreePc
      /\ b \in Block /\ b \in Owned /\ LargeBlock(b)
      /\ UNCHANGED <<Slab, sz, next, n_head, live, ret>>
      /\ ptr' = [ptr EXCEPT ![t] = NULL]
  BY FreedBlock DEF G_free_clear, FreePc
<1>2. b.pg \in Nat /\ b.np \in Nat \ {0}
  BY <1>1, MetaAssumption DEF Block, Page, LargeBlock
<1>3. page[t] = b.pg + b.np
  <2>1. b.pg \in b.pg .. b.pg + b.np - 1
    BY <1>2
  <2> QED
    BY <1>1, <2>1 DEF SnapInv, SnapOK, LargeBlock
<1>4. Meta' = Cleared(Meta, b.pg, b.pg + b.np)
  BY <1>3 DEF G_free_clear
<1>5. Owned' = Owned \ {b}
  BY <1>1, FreedOnce
<1>6. \A k \in MetaIdx : /\ k \in b.pg .. b.pg + b.np - 1 => Meta'[k] = FreeEntry(Meta[k])
                         /\ k \notin b.pg .. b.pg + b.np - 1 => Meta'[k] = Meta[k]
  <2> DEFINE run == b.pg .. b.pg + b.np - 1
  <2>1. Meta' = [k \in MetaIdx |-> IF k \in run THEN FreeEntry(Meta[k]) ELSE Meta[k]]
    BY <1>2, <1>4 DEF Cleared
  <2> HIDE DEF run
  <2>2. \A k \in MetaIdx : Meta'[k] = IF k \in run THEN FreeEntry(Meta[k]) ELSE Meta[k]
    BY <2>1
  <2> QED
    BY <2>2 DEF run
<1>7. \A k \in MetaIdx : ~FreeEntry(Meta[k]).is_alloc
  BY DEF FreeEntry
<1> QED
  BY <1>1, <1>5, <1>6, <1>7

(* add_slab makes the page it took a slab of the size of the slab it came  *)
(* from and hangs it there, or finds that it got none.                     *)
LEMMA SlabAdded ==
  ASSUME IInv, NEW t \in Thread, add_slab_link(t),
         NEW s, s = slab[t], NEW p, p = page[t]
  PROVE  /\ s \in Page /\ Linked(s)
         /\ UNCHANGED <<Meta, Slab>> /\ Owned' = Owned
         /\ \/ UNCHANGED <<sz, next, n_head, slab>>
            \/ /\ p \in Page /\ p # NULL /\ p # s /\ ~Linked(p) /\ next[s] = NULL
               /\ \A b \in Owned : b.pg # p
               /\ slab' = [slab EXCEPT ![t] = p]
               /\ \E j \in Class :
                    /\ sz[s] = ClassSize(j)
                    /\ sz' = [sz EXCEPT ![p] = ClassSize(j)]
                    /\ n_head' = [n_head EXCEPT ![p] = FreshList(ClassSize(j))]
                    /\ next' = [next EXCEPT ![p] = NULL, ![s] = p]
<1> USE DEF IInv
<1>1. /\ pc[t] = "add_slab_link" /\ s # NULL /\ s \in Page /\ Linked(s)
      /\ UNCHANGED <<Meta, Slab, live, ret, ptr>>
  BY DEF add_slab_link, LocalInv, LocalOK, FreePc, SmallPc, TypeLocal, PageOrNull,
         CursorInv, CursorOK
<1>2. Owned' = Owned
  BY <1>1 DEF Owned
<1>3. CASE p = NULL
  BY <1>1, <1>2, <1>3 DEF add_slab_link
<1>4. CASE p # NULL
  <2>1. /\ p \in Page /\ IsSlab(p) /\ ~Linked(p) /\ p # s
    BY <1>1, <1>4 DEF PendingInv, Pending, PageOrNull
  <2>2. PICK j \in Class : sz[s] = ClassSize(j)
    BY <1>1 DEF LinkedInv
  <2>3. /\ next[s] = NULL
        /\ sz' = [sz EXCEPT ![p] = ClassSize(j)]
        /\ n_head' = [n_head EXCEPT ![p] = FreshList(ClassSize(j))]
        /\ next' = [next EXCEPT ![p] = NULL, ![s] = p]
        /\ slab' = [slab EXCEPT ![t] = p]
    BY <1>4, <2>2 DEF add_slab_link, slab_init
  <2>4. \A b \in Owned : b.pg # p
    <3> SUFFICES ASSUME NEW b \in Owned, b.pg = p PROVE FALSE
      OBVIOUS
    <3>1. CASE SlabBlock(b)
      BY <2>1, <3>1 DEF SlabBlock
    <3>2. CASE LargeBlock(b)
      <4>1. b.np \in Nat /\ b.np # 0 /\ p \in Nat
        BY <2>1, <3>2, OwnedType, MetaAssumption DEF LargeBlock, Block, Page
      <4>2. p \in b.pg .. b.pg + b.np - 1
        BY <4>1
      <4> QED
        BY <2>1, <3>2, <4>2 DEF LargeBlock, IsSlab
    <3> QED
      BY <3>1, <3>2 DEF BlockInv
  <2> QED
    BY <1>1, <1>2, <1>4, <2>1, <2>2, <2>3, <2>4
<1> QED
  BY <1>3, <1>4

(* S_init makes a free page the first slab of a chain. *)
LEMMA SlabSetUp ==
  ASSUME IInv, S_init
  PROVE  /\ UNCHANGED <<local>> /\ Owned' = Owned
         /\ \A t \in Thread : pc[t] = "idle" /\ slab[t] = NULL
         /\ \E c \in CPU, j \in Class, i \in Page :
              /\ Slab[c][j] = NULL /\ ~Linked(i) /\ \A b \in Owned : b.pg # i
              /\ \A k \in MetaIdx : k # i => Meta'[k] = Meta[k]
              /\ Meta'[i].is_slab
              /\ Slab' = [Slab EXCEPT ![c][j] = i]
              /\ sz' = [sz EXCEPT ![i] = ClassSize(j)]
              /\ n_head' = [n_head EXCEPT ![i] = FreshList(ClassSize(j))]
              /\ next' = [next EXCEPT ![i] = NULL]
<1> USE DEF IInv
<1>1. PICK c \in CPU, j \in Class, i \in FirstFit(1) :
        /\ Slab[c][j] = NULL
        /\ Meta' = slow_alloc(i, 1, TRUE)
        /\ Slab' = [Slab EXCEPT ![c][j] = i]
        /\ slab_init(i, ClassSize(j))
        /\ next' = [next EXCEPT ![i] = NULL]
  BY DEF S_init
<1>2. UNCHANGED <<live, pc, size, slab, list, page, ret, ptr>>
  BY DEF S_init, local
<1>3. \A t \in Thread : pc[t] = "idle" /\ slab[t] = NULL
  BY <1>1 DEF booted, LocalInv, LocalOK
<1>4. i \in Page /\ try_alloc(i, 1) /\ i \in Nat
  BY MetaAssumption DEF FirstFit, Cand, Page
<1>5. ~Linked(i) /\ \A b \in Owned : b.pg # i
  BY <1>4, FreeRunMisses
<1>6. /\ \A k \in MetaIdx : k # i => Meta'[k] = Meta[k]
      /\ Meta'[i] = [is_alloc |-> TRUE, is_slab |-> TRUE, end |-> i + 1]
  BY <1>1, <1>4, MetaAssumption DEF slow_alloc, MetaIdx, Page
<1>7. Owned' = Owned
  BY <1>2 DEF Owned
<1>8. UNCHANGED <<local>>
  BY <1>2 DEF local
<1>9. Meta'[i].is_slab
  BY <1>6
<1>10. /\ sz' = [sz EXCEPT ![i] = ClassSize(j)]
       /\ n_head' = [n_head EXCEPT ![i] = FreshList(ClassSize(j))]
  BY <1>1 DEF slab_init
<1> QED
  BY <1>1, <1>3, <1>4, <1>5, <1>6, <1>7, <1>8, <1>9, <1>10

(* All other steps leave slabs, pages and blocks alone. *)
Calm == UNCHANGED <<Meta, Slab, sz, next, n_head>> /\ Owned' = Owned
LEMMA CalmSteps ==
  ASSUME IInv, NEW t \in Thread,
         \/ \E s \in Requests : kalloc(t, s)
         \/ \E b \in live : kfree(t, b)
         \/ slab_alloc_lock(t) \/ S_alloc_next(t) \/ add_slab_lock(t)
         \/ G_alloc_lock(t) \/ S_free_lock(t) \/ G_free_lock(t) \/ Return(t)
  PROVE  Calm
<1> USE DEF IInv
<1>1. ASSUME NEW s \in Requests, kalloc(t, s) PROVE Calm
  BY <1>1 DEF Calm, kalloc, shared, Owned
<1>2. ASSUME NEW b \in live, kfree(t, b) PROVE Calm
  <2>1. /\ pc[t] = "idle" /\ UNCHANGED <<Meta, Slab, sz, next, n_head, ret>>
        /\ live' = live \ {b} /\ ptr' = [ptr EXCEPT ![t] = b] /\ b \in Block /\ b # NULL
    BY <1>2, NullAssumption DEF kfree, TypeShared
  <2>2. ptr[t] = NULL /\ ptr'[t] = b /\ \A u \in Thread : u # t => ptr'[u] = ptr[u]
    BY <2>1 DEF LocalInv, LocalOK, FreePc, TypeLocal
  <2>3. Owned' = Owned
    BY <1>2, <2>1, <2>2 DEF Owned
  <2> QED
    BY <2>1, <2>3 DEF Calm
<1>3. ASSUME Return(t) PROVE Calm
  <2>1. /\ UNCHANGED <<Meta, Slab, sz, next, n_head, ptr>>
        /\ live' = IF ret[t] = NULL THEN live ELSE live \cup {ret[t]}
        /\ ret'[t] = NULL /\ \A u \in Thread : u # t => ret'[u] = ret[u]
    BY <1>3 DEF Return, TypeLocal
  <2>2. Owned' = Owned
    BY <2>1 DEF Owned
  <2> QED
    BY <2>1, <2>2 DEF Calm
<1>4. ASSUME \/ slab_alloc_lock(t) \/ S_alloc_next(t) \/ add_slab_lock(t)
             \/ G_alloc_lock(t) \/ S_free_lock(t) \/ G_free_lock(t)
      PROVE  Calm
  BY <1>4 DEF Calm, Owned, slab_alloc_lock, S_alloc_next, add_slab_lock, G_alloc_lock,
              S_free_lock, G_free_lock, shared
<1> QED
  BY <1>1, <1>2, <1>3, <1>4

LEMMA OtherSteps ==
  ASSUME IInv, [Next]_vars
  PROVE  \/ Calm
         \/ S_init
         \/ \E t \in Thread : \/ slab_alloc_take(t) \/ S_free_link(t)
                               \/ G_alloc_take(t) \/ G_free_clear(t) \/ add_slab_link(t)
<1>1. CASE UNCHANGED vars
  BY <1>1 DEF Calm, vars, shared, local, Owned
<1> QED
  BY <1>1, CalmSteps DEF Next, Step

----------------------------------------------------------------------------
(* Multiples of an object size: there is one below no other by less than   *)
(* the size, and sums and differences are multiples too.                   *)
LEMMA MultMod ==
  ASSUME NEW c \in Nat \ {0}, NEW q \in Nat
  PROVE  (q * c) % c = 0
  OBVIOUS

LEMMA ModMult ==
  ASSUME NEW c \in Nat \ {0}, NEW a \in Nat, a % c = 0
  PROVE  \E q \in Nat : a = q * c
<1>1. a \div c \in Nat
  OBVIOUS
<1> PICK q \in Nat : q = a \div c
  BY <1>1
<1>2. a = q * c + (a % c)
  OBVIOUS
<1>3. a = q * c
  BY <1>2
<1> QED
  BY <1>3

LEMMA ModSum ==
  ASSUME NEW c \in Nat \ {0}, NEW a \in Nat, NEW b \in Nat, a % c = 0, b % c = 0
  PROVE  /\ (a + b) % c = 0
         /\ b <= a => (a - b) % c = 0
         /\ a # 0 => c <= a
<1>1. PICK q \in Nat : a = q * c
  BY ModMult
<1>2. PICK r \in Nat : b = r * c
  BY ModMult
<1>3. (a + b) % c = 0
  <2>1. a + b = (q + r) * c /\ q + r \in Nat
    BY <1>1, <1>2
  <2> QED
    BY <2>1, MultMod
<1>4. ASSUME b <= a PROVE (a - b) % c = 0
  <2>1. CASE r <= q
    <3>1. a - b = (q - r) * c /\ q - r \in Nat
      BY <1>1, <1>2, <2>1
    <3> QED
      BY <3>1, MultMod
  <2>2. CASE q < r
    <3>1. PICK e \in Nat : e = r - q
      BY <2>2
    <3>2. r = q + e /\ r * c = q * c + e * c /\ e * c \in Nat
      BY <3>1
    <3>3. a - b = 0 * c
      BY <1>1, <1>2, <1>4, <3>2
    <3> QED
      BY <3>3, MultMod
  <2> QED
    BY <2>1, <2>2
<1>5. a # 0 => c <= a
  BY <1>1
<1> QED
  BY <1>3, <1>4, <1>5

(* What carving leaves: the other nodes, and the rest of the first one.    *)
LEMMA CarveNodes ==
  ASSUME NEW l \in Seq(Node), l # <<>>, NEW c \in Nat \ {0}, l[1].size >= c, ListOK(l),
         NEW m, m = Carve(l, c), NEW r, r = [off |-> l[1].off + c, size |-> l[1].size - c]
  PROVE  /\ m \in Seq(Node) /\ Len(m) \in Nat
         /\ \A i \in 1 .. Len(m) : m[i] = r \/ \E j \in 1 .. Len(l) : m[i] = l[j]
         /\ \A j \in 1 .. Len(l) : j # 1 => \E i \in 1 .. Len(m) : m[i] = l[j]
         /\ l[1].size # c => \E i \in 1 .. Len(m) : m[i] = r
<1>1. Len(l) \in Nat \ {0} /\ \A i \in 1 .. Len(l) : l[i] \in Node
  BY SeqOfNodes
<1>2. m \in Seq(Node) /\ Len(m) \in Nat
  BY CarveList, LenProperties
<1>3. CASE l[1].size = c
  <2>1. m = Tail(l)
    BY <1>3 DEF Carve
  <2>2. /\ Len(m) = Len(l) - 1
        /\ \A i \in 1 .. Len(l) - 1 : m[i] = l[i + 1]
    BY <1>1, <2>1
  <2>3. \A i \in 1 .. Len(m) : \E j \in 1 .. Len(l) : m[i] = l[j]
    <3> SUFFICES ASSUME NEW i \in 1 .. Len(m) PROVE \E j \in 1 .. Len(l) : m[i] = l[j]
      OBVIOUS
    <3>1. i + 1 \in 1 .. Len(l) /\ m[i] = l[i + 1]
      BY <1>1, <2>2
    <3> QED
      BY <3>1
  <2>4. \A j \in 1 .. Len(l) : j # 1 => \E i \in 1 .. Len(m) : m[i] = l[j]
    <3> SUFFICES ASSUME NEW j \in 1 .. Len(l), j # 1 PROVE \E i \in 1 .. Len(m) : m[i] = l[j]
      OBVIOUS
    <3>1. j - 1 \in 1 .. Len(m) /\ m[j - 1] = l[(j - 1) + 1] /\ (j - 1) + 1 = j
      BY <1>1, <2>2
    <3>2. m[j - 1] = l[j]
      BY <3>1
    <3> QED
      BY <3>1, <3>2
  <2> QED
    BY <1>2, <1>3, <2>3, <2>4
<1>4. CASE l[1].size # c
  <2>1. m = [l EXCEPT ![1] = r]
    BY <1>4 DEF Carve
  <2>2. r \in Node
    <3>1. l[1] \in Node
      BY <1>1
    <3>2. PICK n \in Nat, z \in Nat : n = l[1].off /\ z = l[1].size
      BY <3>1 DEF Node
    <3>3. n + c \in Nat /\ z - c \in Nat
      BY <3>2
    <3> QED
      BY <3>2, <3>3 DEF Node
  <2>3. Len(m) = Len(l) /\ m[1] = r /\ \A i \in 1 .. Len(l) : i # 1 => m[i] = l[i]
    BY <1>1, <2>1, <2>2
  <2> QED
    BY <1>1, <1>2, <2>3
<1> QED
  BY <1>3, <1>4

(* What inserting leaves: all nodes, and the new one. *)
LEMMA InsertNodes ==
  ASSUME NEW l \in Seq(Node), NEW k \in 1 .. Len(l) + 1, NEW x \in Node
  PROVE  LET m == InsertAt(l, k, x) IN
         /\ m \in Seq(Node) /\ Len(m) \in Nat /\ m # <<>>
         /\ \A i \in 1 .. Len(m) : m[i] = x \/ \E j \in 1 .. Len(l) : m[i] = l[j]
         /\ \A j \in 1 .. Len(l) : \E i \in 1 .. Len(m) : m[i] = l[j]
         /\ \E i \in 1 .. Len(m) : m[i] = x
<1> PICK m : m = InsertAt(l, k, x)
  OBVIOUS
<1>1. /\ m \in Seq(Node) /\ Len(m) = Len(l) + 1 /\ Len(l) \in Nat
      /\ \A i \in 1 .. Len(l) + 1 :
           m[i] = IF i < k THEN l[i] ELSE IF i = k THEN x ELSE l[i - 1]
  <2>1. Len(l) \in Nat
    BY SeqOfNodes
  <2>2. InsertAt(l, k, x) \in Seq(Node) /\ Len(InsertAt(l, k, x)) = Len(l) + 1
    BY InsertAtElements
  <2>3. \A i \in 1 .. Len(l) + 1 :
          InsertAt(l, k, x)[i] = IF i < k THEN l[i] ELSE IF i = k THEN x ELSE l[i - 1]
    <3> SUFFICES ASSUME NEW i \in 1 .. Len(l) + 1
                 PROVE  InsertAt(l, k, x)[i] = IF i < k THEN l[i] ELSE IF i = k THEN x ELSE l[i - 1]
      OBVIOUS
    <3> QED
      BY ONLY InsertAtElements, l \in Seq(Node), k \in 1 .. Len(l) + 1, x \in Node, i \in 1 .. Len(l) + 1
  <2> QED
    BY ONLY <2>1, <2>2, <2>3, m = InsertAt(l, k, x)
<1>2. \A i \in 1 .. Len(m) : m[i] = x \/ \E j \in 1 .. Len(l) : m[i] = l[j]
  <2> SUFFICES ASSUME NEW i \in 1 .. Len(m)
               PROVE  m[i] = x \/ \E j \in 1 .. Len(l) : m[i] = l[j]
    OBVIOUS
  <2>1. i \in 1 .. Len(l) + 1 /\ m[i] = IF i < k THEN l[i] ELSE IF i = k THEN x ELSE l[i - 1]
    BY <1>1
  <2>2. CASE i < k
    <3>1. i \in 1 .. Len(l) /\ m[i] = l[i]
      BY <1>1, <2>2
    <3> QED
      BY <3>1
  <2>3. CASE i = k
    BY ONLY <2>1, <2>3, k \in 1 .. Len(l) + 1, Len(l) \in Nat, <1>1
  <2>4. CASE i > k
    <3>1. i - 1 \in 1 .. Len(l) /\ m[i] = l[i - 1]
      BY <1>1, <2>4
    <3> QED
      BY <3>1
  <2> QED
    BY ONLY <2>1, <2>2, <2>4, <2>3, k \in 1 .. Len(l) + 1, Len(l) \in Nat, <1>1
<1>3. \A j \in 1 .. Len(l) : \E i \in 1 .. Len(m) : m[i] = l[j]
  <2> SUFFICES ASSUME NEW j \in 1 .. Len(l) PROVE \E i \in 1 .. Len(m) : m[i] = l[j]
    OBVIOUS
  <2>1. CASE j < k
    <3>1. j \in 1 .. Len(m) /\ m[j] = l[j]
      BY <1>1, <2>1
    <3> QED
      BY <3>1
  <2>2. CASE j >= k
    <3>1. PICK i \in Int : i = j + 1
      BY <1>1
    <3>2. i \in 1 .. Len(m) /\ ~(i < k) /\ i # k /\ i - 1 = j
      BY <1>1, <2>2, <3>1
    <3>3. m[i] = l[j]
      BY <1>1, <3>2
    <3> QED
      BY <3>2, <3>3
  <2> QED
    BY <1>1, <2>1, <2>2
<1>4. k \in 1 .. Len(m) /\ m[k] = x
  BY <1>1
<1>5. m # <<>>
  BY <1>1
<1> QED
  BY <1>1, <1>2, <1>3, <1>4, <1>5

(* A fresh slab has one free node, the payload. *)
LEMMA FreshNodes ==
  ASSUME NEW j \in Class, NEW c, c = ClassSize(j)
  PROVE  /\ c \in Nat \ {0} /\ FirstOff(c) \in Nat /\ FirstSize(c) \in Nat \ {0}
         /\ FreshList(c) # <<>>
         /\ Len(FreshList(c)) = 1
         /\ FreshList(c)[1].off = FirstOff(c) /\ FreshList(c)[1].size = FirstSize(c)
         /\ FirstOff(c) % c = 0 /\ FirstSize(c) % c = 0
<1>1. /\ c \in Nat \ {0} /\ FirstOff(c) \in Nat /\ FirstSize(c) \in Nat \ {0}
      /\ HDR \in Nat /\ GPAGE_SZ \in Nat /\ HDR <= GPAGE_SZ
  BY LayoutAssumption
<1>2. FirstOff(c) % c = 0
  <2>1. (HDR + c - 1) \div c \in Nat
    BY <1>1
  <2> QED
    BY <1>1, <2>1, MultMod DEF FirstOff, ROUNDUP
<1>3. FirstSize(c) % c = 0
  <2>1. (GPAGE_SZ - HDR) \div c \in Nat
    BY <1>1
  <2> QED
    BY <1>1, <2>1, MultMod DEF FirstSize, ROUNDDOWN
<1> QED
  BY <1>1, <1>2, <1>3 DEF FreshList

----------------------------------------------------------------------------
(* Objects are where slab_init's alignment puts them. *)
LEMMA NewSlabWhole ==
  ASSUME IInv, WholeInv, NEW p \in Page, NEW j \in Class,
         \A b \in Owned : b.pg # p, Owned' = Owned,
         sz' = [sz EXCEPT ![p] = ClassSize(j)],
         n_head' = [n_head EXCEPT ![p] = FreshList(ClassSize(j))]
  PROVE  WholeInv'
<1> PICK c : c = ClassSize(j)
  OBVIOUS
<1> PICK l : l = FreshList(c)
  OBVIOUS
<1>1. /\ sz'[p] = c /\ n_head'[p] = l
      /\ \A q \in Page : q # p => sz'[q] = sz[q] /\ n_head'[q] = n_head[q]
  BY DEF IInv, TypeShared
<1>2. \A i \in 1 .. Len(l) : Whole(l[i], c)
  BY FreshNodes DEF Whole
<1>3. \A b \in Owned : b.pg \in Page /\ b.pg # p
  BY OwnedType DEF Block
<1>4. ASSUME NEW q \in Page PROVE \A i \in 1 .. Len(n_head'[q]) : Whole(n_head'[q][i], sz'[q])
  <2>1. CASE q = p
    BY <1>1, <1>2, <2>1
  <2>2. CASE q # p
    BY <1>1, <2>2 DEF WholeInv
  <2> QED
    BY <2>1, <2>2
<1>5. ASSUME NEW b \in Owned, Linked(b.pg)' PROVE b.off % sz'[b.pg] = 0
  BY <1>1, <1>3, <1>5 DEF WholeInv, Linked
<1> QED
  BY <1>4, <1>5 DEF WholeInv, Whole

LEMMA WholeStep ==
  ASSUME IInv, WholeInv, [Next]_vars
  PROVE  WholeInv'
<1>1. CASE Calm
  BY <1>1 DEF Calm, WholeInv, Whole, Linked
<1>2. CASE S_init
  BY <1>2, SlabSetUp, NewSlabWhole
<1>3. ASSUME NEW t \in Thread, slab_alloc_take(t) PROVE WholeInv'
  <2> PICK s : s = slab[t]
    OBVIOUS
  <2> PICK l : l = list[t]
    OBVIOUS
  <2> PICK c : c = RoundSize(size[t])
    OBVIOUS
  <2> PICK r : r = [off |-> l[1].off + c, size |-> l[1].size - c]
    OBVIOUS
  <2> PICK o : o = Object(s, [off |-> l[1].off, size |-> c])
    OBVIOUS
  <2> PICK m : m = Carve(l, c)
    OBVIOUS
  <2>1. /\ s \in Page /\ Linked(s) /\ sz[s] = c /\ c \in Nat \ {0}
        /\ l = n_head[s] /\ l \in Seq(Node) /\ ListOK(l)
        /\ sz' = sz
        /\ \/ n_head' = n_head /\ Owned' = Owned
           \/ /\ l # <<>> /\ l[1].size >= c
              /\ n_head' = [n_head EXCEPT ![s] = m] /\ Owned' = Owned \cup {o}
    BY <1>3, ObjectTaken
  <2>2. CASE n_head' = n_head /\ Owned' = Owned
    BY SMTT(30), <2>1, <2>2 DEF WholeInv, Whole, Linked
  <2>3. CASE l # <<>> /\ l[1].size >= c /\ n_head' = [n_head EXCEPT ![s] = m] /\ Owned' = Owned \cup {o}
    <3>1. 1 \in 1 .. Len(l) /\ l[1].off \in Nat /\ l[1].size \in Nat
      BY <2>1, <2>3, SeqOfNodes
    <3>2. \A j \in 1 .. Len(l) : Whole(l[j], c)
      BY <2>1 DEF WholeInv
    <3>3. l[1].off % c = 0 /\ l[1].size % c = 0 /\ c % c = 0
      <4>1. c = 1 * c
        BY <2>1
      <4> QED
        BY <2>1, <3>1, <3>2, <4>1, MultMod DEF Whole
    <3>4. Whole(r, c)
      BY <2>1, <2>3, <3>1, <3>3, ModSum DEF Whole
    <3>5. \A i \in 1 .. Len(m) : m[i] = r \/ \E j \in 1 .. Len(l) : m[i] = l[j]
      BY SMTT(30), <2>1, <2>3, CarveNodes
    <3>6. n_head'[s] = m /\ \A p \in Page : p # s => n_head'[p] = n_head[p]
      BY <2>1, <2>3 DEF IInv, TypeShared
    <3>7. ASSUME NEW p \in Page PROVE \A i \in 1 .. Len(n_head'[p]) : Whole(n_head'[p][i], sz[p])
      <4>1. CASE p = s
        BY <2>1, <3>2, <3>4, <3>5, <3>6, <4>1
      <4>2. CASE p # s
        BY <3>6, <4>2 DEF WholeInv
      <4> QED
        BY <4>1, <4>2
    <3>8. o.pg = s /\ o.off = l[1].off
      BY DEF Object
    <3>9. ASSUME NEW b \in Owned \cup {o}, Linked(b.pg) PROVE b.off % sz[b.pg] = 0
      BY SMTT(30), <2>1, <3>3, <3>8, <3>9 DEF WholeInv
    <3> QED
      BY <2>1, <2>3, <3>7, <3>9 DEF WholeInv, Whole, Linked
  <2> QED
    BY <2>1, <2>2, <2>3
<1>4. ASSUME NEW t \in Thread, S_free_link(t) PROVE WholeInv'
  <2> PICK b : b = ptr[t]
    OBVIOUS
  <2> PICK s : s = b.pg
    OBVIOUS
  <2> PICK x : x = [off |-> b.off, size |-> sz[s]]
    OBVIOUS
  <2> PICK l : l = n_head[s]
    OBVIOUS
  <2>1. /\ b \in Owned /\ s \in Page /\ Linked(s) /\ sz' = sz /\ Owned' = Owned \ {b}
        /\ l \in Seq(Node) /\ x \in Node
        /\ \E k \in 1 .. Len(l) + 1 : n_head' = [n_head EXCEPT ![s] = InsertAt(l, k, x)]
    BY <1>4, ObjectFreed
  <2>2. PICK k \in 1 .. Len(l) + 1 : n_head' = [n_head EXCEPT ![s] = InsertAt(l, k, x)]
    BY <2>1
  <2> PICK m : m = InsertAt(l, k, x)
    OBVIOUS
  <2>3. \A i \in 1 .. Len(m) : m[i] = x \/ \E j \in 1 .. Len(l) : m[i] = l[j]
    <3>1. l \in Seq(Node) /\ x \in Node /\ k \in 1 .. Len(l) + 1
      BY <2>1
    <3>2. \A i \in 1 .. Len(InsertAt(l, k, x)) :
            InsertAt(l, k, x)[i] = x \/ \E j \in 1 .. Len(l) : InsertAt(l, k, x)[i] = l[j]
      BY ONLY SMTT(30), <3>1, InsertNodes
    <3> QED
      BY ONLY <3>2, m = InsertAt(l, k, x)
  <2>4. n_head'[s] = m /\ \A p \in Page : p # s => n_head'[p] = n_head[p]
    BY <2>1, <2>2 DEF IInv, TypeShared
  <2>5. Whole(x, sz[s])
    <3>1. sz[s] \in Nat \ {0}
      BY <2>1 DEF IInv, TypeShared, Linked
    <3>2. sz[s] = 1 * sz[s] /\ b.off % sz[s] = 0
      BY <2>1, <3>1 DEF WholeInv
    <3>3. sz[s] % sz[s] = 0
      BY <3>1, <3>2, MultMod
    <3> QED
      BY <3>2, <3>3 DEF Whole
  <2>6. ASSUME NEW p \in Page PROVE \A i \in 1 .. Len(n_head'[p]) : Whole(n_head'[p][i], sz[p])
    <3>1. CASE p = s
      BY <2>3, <2>4, <2>5, <3>1 DEF WholeInv
    <3>2. CASE p # s
      BY <2>4, <3>2 DEF WholeInv
    <3> QED
      BY <3>1, <3>2
  <2> QED
    BY <2>1, <2>6 DEF WholeInv, Whole, Linked
<1>5. ASSUME NEW t \in Thread, G_alloc_take(t) PROVE WholeInv'
  <2> PICK i : i = page[t]
    OBVIOUS
  <2> PICK n : n = npage(t)
    OBVIOUS
  <2>1. /\ UNCHANGED <<sz, n_head>>
        /\ \/ Owned' = Owned
           \/ i \in Page /\ n \in Nat \ {0} /\ try_alloc(i, n) /\ Owned' = Owned \cup {Pages(i, n)}
    BY <1>5, PagesTaken
  <2>2. CASE Owned' = Owned
    BY <2>1, <2>2 DEF WholeInv, Whole, Linked
  <2>3. CASE i \in Page /\ n \in Nat \ {0} /\ try_alloc(i, n) /\ Owned' = Owned \cup {Pages(i, n)}
    <3>1. ~Linked(i) /\ Pages(i, n).pg = i
      BY <2>3, FreeRunMisses DEF Pages
    <3> QED
      BY <2>1, <2>3, <3>1 DEF WholeInv, Whole, Linked
  <2> QED
    BY <2>1, <2>2, <2>3
<1>6. ASSUME NEW t \in Thread, G_free_clear(t) PROVE WholeInv'
  <2>1. UNCHANGED <<sz, n_head>> /\ Owned' = Owned \ {ptr[t]}
    BY <1>6, PagesFreed
  <2> QED
    BY <2>1 DEF WholeInv, Whole, Linked
<1>7. ASSUME NEW t \in Thread, add_slab_link(t) PROVE WholeInv'
  <2>1. Owned' = Owned
    BY <1>7, SlabAdded
  <2>2. CASE UNCHANGED <<sz, next, n_head, slab>>
    BY <2>1, <2>2 DEF WholeInv, Whole, Linked
  <2>3. CASE ~UNCHANGED <<sz, next, n_head, slab>>
    BY <1>7, <2>3, SlabAdded, NewSlabWhole
  <2> QED
    BY <2>2, <2>3
<1> QED
  BY <1>1, <1>2, <1>3, <1>4, <1>5, <1>6, <1>7, OtherSteps

(* An object on its way to a caller or back is one of its slab's: it       *)
(* begins where the slab's objects do, which S_free relies on when it puts *)
(* a node back by its address only.                                        *)
THEOREM WholeObjects == Spec => []WholeInv
<1>1. Init => WholeInv
  <2> SUFFICES ASSUME Init PROVE WholeInv
    OBVIOUS
  <2>1. Owned = {}
    BY DEF Init, Owned
  <2>2. \A p \in Page : n_head[p] = <<>> /\ Len(n_head[p]) = 0
    BY DEF Init
  <2> QED
    BY <2>1, <2>2 DEF WholeInv
<1>2. IInv /\ WholeInv /\ [Next]_vars => WholeInv'
  BY WholeStep
<1> QED
  BY <1>1, <1>2, Invariance, PTL DEF Spec

----------------------------------------------------------------------------
(* Chains are apart: a slab is hung on a chain when it is made, and only   *)
(* then.                                                                   *)
LEMMA ChainsLinked ==
  ASSUME IInv
  PROVE  /\ \A c \in CPU, j \in Class : Slab[c][j] # NULL => Slab[c][j] \in Page /\ Linked(Slab[c][j])
         /\ \A p \in Page : next[p] # NULL => next[p] \in Page /\ Linked(next[p]) /\ Linked(p)
         /\ \A t \in Thread : slab[t] # NULL => slab[t] \in Page /\ Linked(slab[t])
         /\ \A p \in Page : p # NULL
<1>1. \A c \in CPU, j \in Class : Slab[c][j] \in PageOrNull
  BY DEF IInv, TypeShared
<1>2. \A j \in Class : ClassSize(j) # 0
  BY FreshNodes
<1>3. \A p \in Page : next[p] \in PageOrNull
  BY DEF IInv, TypeShared
<1>4. \A p \in Page : p # NULL
  BY MetaAssumption, NullAssumption DEF Page
<1>5. \A p \in Page : next[p] # NULL => next[p] \in Page /\ Linked(next[p]) /\ Linked(p)
  BY <1>3 DEF IInv, ChainInv, Linked, PageOrNull
<1>6. \A t \in Thread : slab[t] # NULL => slab[t] \in Page /\ Linked(slab[t])
  BY DEF IInv, CursorInv, CursorOK, TypeLocal, PageOrNull
<1> QED
  BY <1>1, <1>2, <1>4, <1>5, <1>6 DEF IInv, HeadInv, Linked, PageOrNull

LEMMA ApartStep ==
  ASSUME IInv, ApartInv, [Next]_vars
  PROVE  ApartInv'
<1>1. CASE UNCHANGED <<Slab, next>>
  BY <1>1 DEF ApartInv
<1>2. CASE S_init
  <2>1. PICK c \in CPU, j \in Class, i \in Page :
          /\ Slab[c][j] = NULL /\ ~Linked(i)
          /\ Slab' = [Slab EXCEPT ![c][j] = i]
          /\ next' = [next EXCEPT ![i] = NULL]
    BY <1>2, SlabSetUp
  <2>2. next'[i] = NULL /\ \A p \in Page : p # i => next'[p] = next[p]
    BY <2>1 DEF IInv, TypeShared
  <2>3. /\ Slab'[c][j] = i
        /\ \A d \in CPU, k \in Class : ~(d = c /\ k = j) => Slab'[d][k] = Slab[d][k]
    BY <2>1 DEF IInv, TypeShared
  <2>4. /\ i # NULL /\ \A p \in Page : next[p] # i
        /\ \A d \in CPU, k \in Class : Slab[d][k] # i
    BY <2>1, ChainsLinked
  <2>5. \A p, q \in Page : next'[p] # NULL /\ next'[p] = next'[q] => p = q
    BY <2>2 DEF ApartInv
  <2>6. \A p \in Page : next'[p] # p
    BY <2>2, <2>4 DEF ApartInv
  <2>7. ASSUME NEW d \in CPU, NEW k \in Class, Slab'[d][k] # NULL
        PROVE  /\ \A e \in CPU, h \in Class : Slab'[e][h] = Slab'[d][k] => e = d /\ h = k
               /\ \A p \in Page : next'[p] # Slab'[d][k]
    <3>1. CASE d = c /\ k = j
      BY <2>2, <2>3, <2>4, <3>1
    <3>2. CASE ~(d = c /\ k = j)
      <4>1. Slab'[d][k] = Slab[d][k] /\ Slab[d][k] # i
        BY <2>3, <2>4, <3>2
      <4> QED
        BY <2>2, <2>3, <2>7, <4>1 DEF ApartInv
    <3> QED
      BY <3>1, <3>2
  <2> QED
    BY <2>5, <2>6, <2>7 DEF ApartInv
<1>3. ASSUME NEW t \in Thread, add_slab_link(t), ~UNCHANGED <<Slab, next>> PROVE ApartInv'
  <2> PICK s : s = slab[t]
    OBVIOUS
  <2> PICK p : p = page[t]
    OBVIOUS
  <2>1. /\ s \in Page /\ p \in Page /\ p # s /\ ~Linked(p) /\ next[s] = NULL
        /\ Slab' = Slab /\ next' = [next EXCEPT ![p] = NULL, ![s] = p]
    BY <1>3, SlabAdded
  <2>2. /\ next'[p] = NULL /\ next'[s] = p
        /\ \A q \in Page : q # p /\ q # s => next'[q] = next[q]
    BY <2>1 DEF IInv, TypeShared
  <2>3. /\ p # NULL /\ \A q \in Page : next[q] # p
        /\ \A d \in CPU, k \in Class : Slab[d][k] # p
    BY <2>1, ChainsLinked
  <2>4. \A q, u \in Page : next'[q] # NULL /\ next'[q] = next'[u] => q = u
    BY <2>2, <2>3 DEF ApartInv
  <2>5. \A q \in Page : next'[q] # q
    BY <2>1, <2>2, <2>3 DEF ApartInv
  <2>6. \A d \in CPU, k \in Class : Slab[d][k] # NULL => \A q \in Page : next'[q] # Slab[d][k]
    BY <2>2, <2>3 DEF ApartInv
  <2>7. ASSUME NEW c \in CPU, NEW j \in Class, Slab'[c][j] # NULL
        PROVE  /\ \A d \in CPU, k \in Class : Slab'[d][k] = Slab'[c][j] => d = c /\ k = j
               /\ \A q \in Page : next'[q] # Slab'[c][j]
    <3>1. Slab' = Slab
      BY <2>1
    <3>2. Slab[c][j] # NULL
      BY <2>7, <3>1
    <3>3. \A d \in CPU, k \in Class : Slab[d][k] = Slab[c][j] => d = c /\ k = j
      BY <3>2 DEF ApartInv
    <3>4. \A q \in Page : next'[q] # Slab[c][j]
      BY <2>6, <3>2
    <3> QED
      BY <3>1, <3>3, <3>4
  <2> QED
    BY <2>4, <2>5, <2>7 DEF ApartInv
<1>4. ASSUME NEW t \in Thread, slab_alloc_take(t) \/ S_free_link(t) \/ G_alloc_take(t) \/ G_free_clear(t)
      PROVE  UNCHANGED <<Slab, next>>
  BY <1>4 DEF slab_alloc_take, S_free_link, G_alloc_take, G_free_clear
<1> QED
  BY <1>1, <1>2, <1>3, <1>4, OtherSteps DEF Calm

(* add_slab appends to one chain: no slab is reached from two chains of    *)
(* Slab, or twice from one.                                                *)
THEOREM ChainsApart == Spec => []ApartInv
<1>1. Init => ApartInv
  <2> SUFFICES ASSUME Init PROVE ApartInv
    OBVIOUS
  <2>1. \A p \in Page : next[p] = NULL /\ p # NULL
    BY MetaAssumption, NullAssumption DEF Init, Page
  <2>2. \A c \in CPU, j \in Class : Slab[c][j] = NULL
    BY DEF Init
  <2> QED
    BY <2>1, <2>2 DEF ApartInv
<1>2. IInv /\ ApartInv /\ [Next]_vars => ApartInv'
  BY ApartStep
<1> QED
  BY <1>1, <1>2, Invariance, PTL DEF Spec

(* Every slab of pmm.c is sound whatever calls are under way: its free     *)
(* list sorted, after the header, made of whole aligned objects; and it is *)
(* on one chain only, of slabs of its size.                                *)
THEOREM SlabsAlwaysSound == Spec => []SlabsSound
<1>1. ASSUME IInv, WholeInv, ApartInv PROVE SlabsSound
  <2>1. ASSUME NEW p \in Page PROVE ListSound(n_head[p], sz[p])
    <3> PICK l : l = n_head[p]
      OBVIOUS
    <3>1. ListOK(l) /\ l \in Seq(Node) /\ Len(l) \in Nat
      BY <1>1, SeqOfNodes DEF IInv, FreeInv, TypeShared
    <3>2. ASSUME NEW i \in 1 .. Len(l)
          PROVE  /\ HDR <= l[i].off /\ l[i].off + l[i].size <= GPAGE_SZ
                 /\ l[i].off % sz[p] = 0 /\ l[i].size % sz[p] = 0 /\ l[i].size > 0
                 /\ i < Len(l) => l[i].off + l[i].size <= l[i + 1].off
      <4>1. l[i].off \in Nat /\ l[i].size \in Nat /\ NodeOK(l[i])
        BY <3>1, SeqOfNodes DEF ListOK
      <4>2. l[i].off % sz[p] = 0 /\ l[i].size % sz[p] = 0
        BY <1>1 DEF WholeInv, Whole
      <4>3. ASSUME i < Len(l) PROVE l[i].off + l[i].size <= l[i + 1].off
        <5>1. PICK k \in Int : k = i + 1
          BY <3>1
        <5>2. k \in 1 .. Len(l) /\ i < k
          BY <3>1, <4>3, <5>1
        <5>3. Before(l[i], l[k])
          BY <3>1, <5>2 DEF ListOK
        <5> QED
          BY <5>1, <5>3 DEF Before
      <4> QED
        BY <4>1, <4>2, <4>3 DEF NodeOK
    <3> QED
      BY <3>2 DEF ListSound
  <2>2. SlabPage \subseteq Page
    BY DEF SlabPage
  <2>3. \A p \in Page : next[p] # NULL => sz[next[p]] = sz[p]
    BY <1>1 DEF IInv, ChainInv
  <2>4. \A c \in CPU, j \in Class : Slab[c][j] # NULL => sz[Slab[c][j]] = ClassSize(j)
    BY <1>1 DEF IInv, HeadInv
  <2> QED
    BY <1>1, <2>1, <2>2, <2>3, <2>4 DEF SlabsSound, ApartInv
<1> QED
  BY <1>1, Invariance, WholeObjects, ChainsApart, PTL

----------------------------------------------------------------------------
(* The steps of one thread change its own locals only. *)
CallStep(t) ==
  (\E s \in Requests : kalloc(t, s)) \/ (\E b \in live : kfree(t, b)) \/ Step(t)

LEMMA NextCases == ASSUME Next PROVE S_init \/ \E t \in Thread : CallStep(t)
  BY DEF Next, CallStep

LEMMA OthersStay ==
  ASSUME IInv, NEW t \in Thread, NEW u \in Thread, t # u, CallStep(t)
  PROVE  pc'[u] = pc[u] /\ size'[u] = size[u] /\ slab'[u] = slab[u] /\ page'[u] = page[u]
<1> USE DEF IInv, TypeLocal, Goto
<1>1. ASSUME NEW s \in Requests, kalloc(t, s)
      PROVE  pc'[u] = pc[u] /\ size'[u] = size[u] /\ slab'[u] = slab[u] /\ page'[u] = page[u]
  BY <1>1 DEF kalloc
<1>2. ASSUME NEW b \in live, kfree(t, b)
      PROVE  pc'[u] = pc[u] /\ size'[u] = size[u] /\ slab'[u] = slab[u] /\ page'[u] = page[u]
  BY <1>2 DEF kfree
<1>3. ASSUME slab_alloc_lock(t) \/ slab_alloc_take(t) \/ S_alloc_next(t) \/ add_slab_lock(t)
             \/ Return(t)
      PROVE  pc'[u] = pc[u] /\ size'[u] = size[u] /\ slab'[u] = slab[u] /\ page'[u] = page[u]
  BY <1>3 DEF slab_alloc_lock, slab_alloc_take, S_alloc_next, add_slab_lock, Return
<1>4. ASSUME G_alloc_lock(t) \/ G_alloc_take(t) \/ add_slab_link(t)
      PROVE  pc'[u] = pc[u] /\ size'[u] = size[u] /\ slab'[u] = slab[u] /\ page'[u] = page[u]
  BY <1>4 DEF G_alloc_lock, G_alloc_take, add_slab_link
<1>5. ASSUME S_free_lock(t) \/ S_free_link(t) \/ G_free_lock(t) \/ G_free_clear(t)
      PROVE  pc'[u] = pc[u] /\ size'[u] = size[u] /\ slab'[u] = slab[u] /\ page'[u] = page[u]
  BY <1>5 DEF S_free_lock, S_free_link, G_free_lock, G_free_clear
<1> QED
  BY <1>1, <1>2, <1>3, <1>4, <1>5 DEF CallStep, Step

(* Meta changes only in the steps that give G_lock back. *)
LEMMA MetaUnderLock ==
  ASSUME IInv, NEW t \in Thread, CallStep(t)
  PROVE  \/ Meta' = Meta
         \/ HoldsG(t) /\ pc'[t] \in {"add_slab_link", "ret", "idle"}
<1>1. ASSUME G_alloc_take(t) \/ G_free_clear(t)
      PROVE  HoldsG(t) /\ pc'[t] \in {"add_slab_link", "ret", "idle"}
  BY <1>1 DEF G_alloc_take, G_free_clear, Goto, HoldsG, IInv, TypeLocal
<1>2. ASSUME NEW s \in Requests, kalloc(t, s) PROVE Meta' = Meta
  BY <1>2 DEF kalloc, shared
<1>3. ASSUME NEW b \in live, kfree(t, b) PROVE Meta' = Meta
  BY <1>3 DEF kfree
<1>4. ASSUME Step(t), ~G_alloc_take(t), ~G_free_clear(t) PROVE Meta' = Meta
  BY <1>4 DEF Step, slab_alloc_lock, slab_alloc_take, S_alloc_next, add_slab_lock, G_alloc_lock,
              add_slab_link, S_free_lock, S_free_link, G_free_lock, Return, shared
<1> QED
  BY <1>1, <1>2, <1>3, <1>4 DEF CallStep

(* A nonempty set of natural numbers has a least element. *)
LEMMA LeastNumber ==
  ASSUME NEW X, X \subseteq Nat, X # {}
  PROVE  \E x \in X : \A y \in X : x <= y
<1>1. PICK x \in X : \A y \in X : ~ (<<y, x>> \in OpToRel(<, Nat))
  BY NatLessThanWellFounded, WFMin
<1>2. OpToRel(<, Nat) = {ss \in Nat \X Nat : ss[1] < ss[2]}
  BY DEF OpToRel
<1>3. ASSUME NEW y \in X PROVE x <= y
  <2>1. <<y, x>> \in Nat \X Nat /\ <<y, x>>[1] = y /\ <<y, x>>[2] = x
    OBVIOUS
  <2>2. <<y, x>> \notin {ss \in Nat \X Nat : ss[1] < ss[2]}
    BY <1>1, <1>2, Zenon
  <2> QED
    BY <2>1, <2>2
<1> QED
  BY <1>3

(* G_alloc's loop finds a run if there is one. *)
LEMMA FitFound ==
  ASSUME NEW n, FirstFit(n) = {}
  PROVE  \A i \in Cand(n) : ~try_alloc(i, n)
<1> SUFFICES ASSUME \E i \in Cand(n) : try_alloc(i, n) PROVE FALSE
  OBVIOUS
<1> DEFINE X == {i \in Cand(n) : try_alloc(i, n)}
<1>1. X \subseteq Nat /\ X # {}
  BY MetaAssumption DEF Cand, Page
<1>2. PICK x \in X : \A y \in X : x <= y
  BY <1>1, LeastNumber
<1>3. ASSUME NEW j \in Cand(n), j < x PROVE ~try_alloc(j, n)
  BY <1>1, <1>2, <1>3 DEF Cand, Page
<1>4. x \in FirstFit(n)
  BY <1>2, <1>3 DEF FirstFit
<1> QED
  BY <1>4

(* A thread enters G_alloc's second step from its first only. *)
LEMMA OnlyLockTakes ==
  ASSUME IInv, NEW u \in Thread, CallStep(u), pc'[u] = "G_take"
  PROVE  G_alloc_lock(u)
<1> USE DEF IInv, TypeLocal, Goto
<1>1. ASSUME NEW s \in Requests, kalloc(u, s) PROVE FALSE
  BY <1>1 DEF kalloc
<1>2. ASSUME NEW b \in live, kfree(u, b) PROVE FALSE
  BY <1>2 DEF kfree
<1>3. ASSUME slab_alloc_lock(u) \/ slab_alloc_take(u) \/ S_alloc_next(u) \/ add_slab_lock(u)
             \/ Return(u)
      PROVE  FALSE
  BY <1>3 DEF slab_alloc_lock, slab_alloc_take, S_alloc_next, add_slab_lock, Return
<1>4. ASSUME G_alloc_take(u) \/ add_slab_link(u) \/ S_free_lock(u) \/ S_free_link(u)
             \/ G_free_lock(u) \/ G_free_clear(u)
      PROVE  FALSE
  BY <1>4 DEF G_alloc_take, add_slab_link, S_free_lock, S_free_link, G_free_lock, G_free_clear
<1> QED
  BY <1>1, <1>2, <1>3, <1>4 DEF CallStep, Step

LEMMA FullStep ==
  ASSUME IInv, FullInv, [Next]_vars
  PROVE  FullInv'
<1> SUFFICES ASSUME NEW u \in Thread, pc'[u] = "G_take", page'[u] = NULL
             PROVE  \A i \in Cand(npage(u))' : ~try_alloc(i, npage(u))'
  BY DEF FullInv, Cand
<1> DEFINE Same == pc[u] = "G_take" /\ page[u] = NULL /\ Meta' = Meta
                   /\ size'[u] = size[u] /\ slab'[u] = slab[u]
<1>1. ASSUME Same PROVE \A i \in Cand(npage(u))' : ~try_alloc(i, npage(u))'
  BY <1>1 DEF FullInv, Cand, try_alloc, npage
<1>2. CASE UNCHANGED vars
  BY <1>1, <1>2 DEF vars, shared, local
<1>3. CASE S_init
  <2>1. UNCHANGED pc /\ pc[u] = "idle"
    BY <1>3, SlabSetUp DEF local
  <2> QED
    BY <2>1
<1>4. ASSUME NEW t \in Thread, CallStep(t), t # u PROVE Same
  <2>1. pc'[u] = pc[u] /\ size'[u] = size[u] /\ slab'[u] = slab[u] /\ page'[u] = page[u]
    BY <1>4, OthersStay
  <2>2. HoldsG(u)
    BY <2>1 DEF HoldsG
  <2>3. Meta' = Meta
    BY <1>4, <2>2, MetaUnderLock DEF IInv, MutualExclusion
  <2> QED
    BY <2>1, <2>3
<1>5. CASE CallStep(u)
  <2>1. Meta' = Meta
    BY <1>5, MetaUnderLock
  <2>2. G_alloc_lock(u)
    BY <1>5, OnlyLockTakes
  <2>3. UNCHANGED <<size, slab>>
    BY <2>2 DEF G_alloc_lock
  <2>4. FirstFit(npage(u)) = {}
    <3>1. ASSUME FirstFit(npage(u)) # {} PROVE FALSE
      <4>1. PICK i \in FirstFit(npage(u)) : page' = [page EXCEPT ![u] = i]
        BY <2>2, <3>1 DEF G_alloc_lock
      <4>2. page'[u] = i /\ i \in Page
        BY <4>1 DEF IInv, TypeLocal, FirstFit, Cand
      <4> QED
        BY <4>2, ChainsLinked
    <3> QED
      BY <3>1
  <2>5. \A i \in Cand(npage(u)) : ~try_alloc(i, npage(u))
    BY <2>4, FitFound
  <2> QED
    BY <2>1, <2>3, <2>5 DEF Cand, try_alloc, npage
<1> QED
  BY <1>1, <1>2, <1>3, <1>4, <1>5, NextCases

(* G_alloc's first-fit loop, with is_valid_ret, passes over no run that is *)
(* free when it holds G_lock, and its answer is good until the unlock.     *)
THEOREM NoRunMissed == Spec => []FullInv
<1>1. Init => FullInv
  BY DEF Init, FullInv
<1>2. IInv /\ FullInv /\ [Next]_vars => FullInv'
  BY FullStep
<1> QED
  BY <1>1, <1>2, Invariance, PTL DEF Spec

(* When kalloc answers NULL to a request it serves, every aligned run of   *)
(* pages it could have given has a page in use at that moment: G_alloc's   *)
(* first-fit loop misses none, and its result is not stale at the unlock.  *)
THEOREM NullMeansFull == Spec => NullOnlyWhenFull
<1>1. ASSUME IInv, FullInv, NEW t \in Thread, pc[t] = "G_take", page[t] = NULL, NEW i \in Page,
             (GP + i) % npage(t) = 0
      PROVE  \E k \in i .. i + npage(t) - 1 : Meta[k].is_alloc
  BY <1>1 DEF FullInv, Cand, try_alloc
<1>2. IInv /\ FullInv /\ [Next]_vars =>
        [\A t \in Thread :
           pc[t] = "G_take" /\ page[t] = NULL /\ pc'[t] # "G_take" =>
             \A i \in Page :
               (GP + i) % npage(t) = 0 /\ i + npage(t) <= n_meta
                 => \E k \in i .. i + npage(t) - 1 : Meta[k].is_alloc]_vars
  BY <1>1
<1> QED
  BY <1>2, Invariance, NoRunMissed, PTL DEF Spec, NullOnlyWhenFull

----------------------------------------------------------------------------
(* Nothing is lost.  First the bytes of the slabs. *)
PayloadInv == \A p \in Page : Linked(p) => SpaceOK(p)

LEMMA NewSlabSpace ==
  ASSUME IInv, PayloadInv, NEW p \in Page, NEW j \in Class,
         \A b \in Owned : b.pg # p, Owned' = Owned,
         sz' = [sz EXCEPT ![p] = ClassSize(j)],
         n_head' = [n_head EXCEPT ![p] = FreshList(ClassSize(j))]
  PROVE  PayloadInv'
<1> PICK c : c = ClassSize(j)
  OBVIOUS
<1> PICK l : l = FreshList(c)
  OBVIOUS
<1>1. /\ sz'[p] = c /\ n_head'[p] = l
      /\ \A q \in Page : q # p => sz'[q] = sz[q] /\ n_head'[q] = n_head[q]
  BY DEF IInv, TypeShared
<1>2. /\ Len(l) = 1 /\ l[1].off = FirstOff(c) /\ l[1].size = FirstSize(c)
      /\ FirstOff(c) \in Nat /\ FirstSize(c) \in Nat /\ FirstOff(c) + FirstSize(c) = GPAGE_SZ
  BY FreshNodes, PayloadAssumption
<1>3. SpaceOK(p)'
  <2>1. \A i \in 1 .. Len(l) : FirstOff(c) <= l[i].off
    BY <1>2
  <2>2. \A x \in FirstOff(c) .. GPAGE_SZ - 1 : \E i \in 1 .. Len(l) : InNode(x, l[i])
    BY <1>2, LayoutAssumption DEF InNode
  <2>3. FirstOff(sz[p])' = FirstOff(c)
    BY <1>1 DEF FirstOff, ROUNDUP
  <2> QED
    BY <1>1, <2>1, <2>2, <2>3 DEF SpaceOK, InNode
<1>4. ASSUME NEW q \in Page, Linked(q)', q # p PROVE SpaceOK(q)'
  <2>1. SpaceOK(q)
    BY <1>1, <1>4 DEF PayloadInv, Linked
  <2>2. FirstOff(sz[q])' = FirstOff(sz[q])
    BY <1>1, <1>4 DEF FirstOff, ROUNDUP
  <2> QED
    BY <1>1, <1>4, <2>1, <2>2 DEF SpaceOK, InNode, InBlock
<1> QED
  BY <1>3, <1>4 DEF PayloadInv

LEMMA PayloadStep ==
  ASSUME IInv, PayloadInv, [Next]_vars
  PROVE  PayloadInv'
<1> USE DEF FirstOff, ROUNDUP
<1>1. CASE UNCHANGED <<sz, n_head>> /\ Owned' = Owned
  BY <1>1 DEF PayloadInv, SpaceOK, InNode, InBlock, Linked
<1>2. CASE S_init
  BY <1>2, SlabSetUp, NewSlabSpace
<1>3. ASSUME NEW t \in Thread, slab_alloc_take(t) PROVE PayloadInv'
  <2> PICK s : s = slab[t]
    OBVIOUS
  <2> PICK l : l = list[t]
    OBVIOUS
  <2> PICK c : c = RoundSize(size[t])
    OBVIOUS
  <2> PICK r : r = [off |-> l[1].off + c, size |-> l[1].size - c]
    OBVIOUS
  <2> PICK o : o = Object(s, [off |-> l[1].off, size |-> c])
    OBVIOUS
  <2> PICK m : m = Carve(l, c)
    OBVIOUS
  <2>1. /\ s \in Page /\ Linked(s) /\ c \in Nat \ {0}
        /\ l = n_head[s] /\ l \in Seq(Node) /\ ListOK(l)
        /\ sz' = sz
        /\ \/ n_head' = n_head /\ Owned' = Owned
           \/ /\ l # <<>> /\ l[1].size >= c
              /\ n_head' = [n_head EXCEPT ![s] = m] /\ Owned' = Owned \cup {o}
    BY <1>3, ObjectTaken
  <2>2. CASE l # <<>> /\ l[1].size >= c /\ n_head' = [n_head EXCEPT ![s] = m] /\ Owned' = Owned \cup {o}
    <3>1. 1 \in 1 .. Len(l) /\ l[1].off \in Nat /\ l[1].size \in Nat
      BY <2>1, <2>2, SeqOfNodes
    <3>2. /\ \A i \in 1 .. Len(m) : m[i] = r \/ \E j \in 1 .. Len(l) : m[i] = l[j]
          /\ \A j \in 1 .. Len(l) : j # 1 => \E i \in 1 .. Len(m) : m[i] = l[j]
          /\ l[1].size # c => \E i \in 1 .. Len(m) : m[i] = r
      <4>1. /\ l \in Seq(Node) /\ l # <<>> /\ c \in Nat \ {0} /\ l[1].size >= c /\ ListOK(l)
            /\ m = Carve(l, c) /\ r = [off |-> l[1].off + c, size |-> l[1].size - c]
        BY <2>1, <2>2
      <4> QED
        BY ONLY <4>1, CarveNodes
    <3>3. o.pg = s /\ o.off = l[1].off /\ o.len = c
      BY DEF Object
    <3>4. n_head'[s] = m /\ \A p \in Page : p # s => n_head'[p] = n_head[p]
      BY <2>1, <2>2 DEF IInv, TypeShared
    <3>5. SpaceOK(s)
      BY <2>1 DEF PayloadInv
    <3> PICK first : first = FirstOff(sz[s])
      OBVIOUS
    <3>6. first \in Nat
      <4>1. \E j \in Class : sz[s] = ClassSize(j)
        BY <2>1 DEF IInv, LinkedInv
      <4> HIDE DEF FirstOff
      <4> QED
        BY <4>1, LayoutAssumption
    <3>7. SpaceOK(s)'
      <4> HIDE DEF FirstOff
      <4>1. /\ \A i \in 1 .. Len(l) : first <= l[i].off
            /\ \A b \in Owned : b.pg = s => first <= b.off
            /\ \A x \in first .. GPAGE_SZ - 1 :
                 \/ \E i \in 1 .. Len(l) : InNode(x, l[i])
                 \/ \E b \in Owned : b.pg = s /\ InBlock(x, b)
        BY <2>1, <3>5 DEF SpaceOK
      <4>2. ASSUME NEW i \in 1 .. Len(m) PROVE first <= m[i].off
        <5>1. r.off = l[1].off + c
          OBVIOUS
        <5>2. first <= r.off
          BY <2>1, <3>1, <3>6, <4>1, <5>1
        <5> QED
          BY <3>2, <4>1, <5>2
      <4>3. \A b \in Owned \cup {o} : b.pg = s => first <= b.off
        BY <3>1, <3>3, <4>1
      <4>4. ASSUME NEW x \in first .. GPAGE_SZ - 1
            PROVE  \/ \E i \in 1 .. Len(m) : InNode(x, m[i])
                   \/ \E b \in Owned \cup {o} : b.pg = s /\ InBlock(x, b)
        <5>1. CASE \E b \in Owned : b.pg = s /\ InBlock(x, b)
          BY <5>1
        <5>2. CASE \E i \in 1 .. Len(l) : i # 1 /\ InNode(x, l[i])
          BY <3>2, <5>2
        <5>3. CASE InNode(x, l[1])
          <6>0. x \in Nat
            BY <3>6, LayoutAssumption
          <6>1. CASE x < l[1].off + c
            <7>1. InBlock(x, o)
              BY <3>3, <5>3, <6>1 DEF InBlock, InNode
            <7> QED
              BY <3>3, <7>1
          <6>2. CASE l[1].off + c <= x
            <7>1. r.off = l[1].off + c /\ r.size = l[1].size - c
              OBVIOUS
            <7>2. InNode(x, r)
              BY <2>1, <3>1, <5>3, <6>0, <6>2, <7>1 DEF InNode
            <7>3. l[1].size # c
              BY <2>1, <3>1, <5>3, <6>0, <6>2 DEF InNode
            <7> QED
              BY <3>2, <7>2, <7>3
          <6> QED
            BY <2>1, <3>1, <6>0, <6>1, <6>2
        <5> QED
          BY <4>1, <5>1, <5>2, <5>3
      <4>5. FirstOff(sz[s])' = first
        BY <2>1 DEF FirstOff
      <4> QED
        BY <2>2, <3>4, <4>2, <4>3, <4>4, <4>5 DEF SpaceOK, InNode, InBlock
    <3>8. ASSUME NEW p \in Page, p # s, Linked(p) PROVE SpaceOK(p)'
      <4>1. SpaceOK(p) /\ n_head'[p] = n_head[p]
        BY <3>4, <3>8 DEF PayloadInv
      <4>2. \A b \in Owned' : b.pg = p => b \in Owned
        BY <2>2, <3>3, <3>8
      <4> QED
        BY <2>1, <2>2, <4>1, <4>2 DEF SpaceOK, InNode, InBlock
    <3> QED
      BY <2>1, <3>7, <3>8 DEF PayloadInv, Linked
  <2> QED
    BY <1>1, <2>1, <2>2
<1>4. ASSUME NEW t \in Thread, S_free_link(t) PROVE PayloadInv'
  <2> PICK d : d = ptr[t]
    OBVIOUS
  <2> PICK s : s = d.pg
    OBVIOUS
  <2> PICK x : x = [off |-> d.off, size |-> sz[s]]
    OBVIOUS
  <2> PICK l : l = n_head[s]
    OBVIOUS
  <2>1. /\ d \in Owned /\ SlabBlock(d) /\ s \in Page /\ Linked(s) /\ sz' = sz /\ Owned' = Owned \ {d}
        /\ l \in Seq(Node) /\ x \in Node
        /\ \E k \in 1 .. Len(l) + 1 : n_head' = [n_head EXCEPT ![s] = InsertAt(l, k, x)]
    BY <1>4, ObjectFreed
  <2>2. PICK k \in 1 .. Len(l) + 1 : n_head' = [n_head EXCEPT ![s] = InsertAt(l, k, x)]
    BY <2>1
  <2> PICK m : m = InsertAt(l, k, x)
    OBVIOUS
  <2>3. /\ \A i \in 1 .. Len(m) : m[i] = x \/ \E j \in 1 .. Len(l) : m[i] = l[j]
        /\ \A j \in 1 .. Len(l) : \E i \in 1 .. Len(m) : m[i] = l[j]
        /\ \E i \in 1 .. Len(m) : m[i] = x
    <3>1. l \in Seq(Node) /\ x \in Node /\ k \in 1 .. Len(l) + 1
      BY <2>1
    <3> DEFINE n == InsertAt(l, k, x)
    <3>2. /\ \A i \in 1 .. Len(n) : n[i] = x \/ \E j \in 1 .. Len(l) : n[i] = l[j]
          /\ \A j \in 1 .. Len(l) : \E i \in 1 .. Len(n) : n[i] = l[j]
          /\ \E i \in 1 .. Len(n) : n[i] = x
      BY ONLY SMTT(30), <3>1, InsertNodes
    <3> QED
      BY ONLY <3>2, m = InsertAt(l, k, x)
  <2>4. n_head'[s] = m /\ \A p \in Page : p # s => n_head'[p] = n_head[p]
    BY <2>1, <2>2 DEF IInv, TypeShared
  <2>5. x.off = d.off /\ x.size = d.len
    BY <2>1 DEF SlabBlock
  <2>6. SpaceOK(s)'
    <3> PICK first : first = FirstOff(sz[s])
      OBVIOUS
    <3> HIDE DEF FirstOff
    <3>1. /\ \A i \in 1 .. Len(l) : first <= l[i].off
          /\ \A b \in Owned : b.pg = s => first <= b.off
          /\ \A y \in first .. GPAGE_SZ - 1 :
               \/ \E i \in 1 .. Len(l) : InNode(y, l[i])
               \/ \E b \in Owned : b.pg = s /\ InBlock(y, b)
      BY <2>1 DEF PayloadInv, SpaceOK
    <3>2. ASSUME NEW i \in 1 .. Len(m) PROVE first <= m[i].off
      <4>1. CASE m[i] = x
        BY <2>1, <2>5, <3>1, <4>1
      <4>2. CASE \E j \in 1 .. Len(l) : m[i] = l[j]
        BY <3>1, <4>2
      <4> QED
        BY <2>3, <4>1, <4>2
    <3>3. ASSUME NEW y \in first .. GPAGE_SZ - 1
          PROVE  \/ \E i \in 1 .. Len(m) : InNode(y, m[i])
                 \/ \E b \in Owned \ {d} : b.pg = s /\ InBlock(y, b)
      <4>1. CASE \E i \in 1 .. Len(l) : InNode(y, l[i])
        BY SMTT(30), <2>3, <4>1
      <4>2. CASE InBlock(y, d)
        <5>1. InNode(y, x)
          BY <2>5, <4>2 DEF InNode, InBlock
        <5> QED
          BY <2>3, <5>1
      <4>3. CASE \E b \in Owned \ {d} : b.pg = s /\ InBlock(y, b)
        BY <4>3
      <4> QED
        BY <3>1, <4>1, <4>2, <4>3
    <3>4. FirstOff(sz[s])' = first
      BY <2>1 DEF FirstOff
    <3>5. n_head'[s] = m /\ Owned' = Owned \ {d} /\ FirstOff(sz[s])' = first
      BY <2>1, <2>4, <3>4
    <3>6. \A b \in Owned \ {d} : b.pg = s => first <= b.off
      BY <3>1
    <3> QED
      BY ONLY <3>2, <3>3, <3>5, <3>6, Zenon DEF SpaceOK, InNode, InBlock
  <2>7. ASSUME NEW p \in Page, p # s, Linked(p) PROVE SpaceOK(p)'
    <3>1. SpaceOK(p) /\ n_head'[p] = n_head[p]
      BY <2>4, <2>7 DEF PayloadInv
    <3>2. \A b \in Owned : b.pg = p => b \in Owned'
      BY <2>1, <2>7
    <3> QED
      BY <2>1, <3>1, <3>2 DEF SpaceOK, InNode, InBlock
  <2> QED
    BY <2>1, <2>6, <2>7 DEF PayloadInv, Linked
<1>5. ASSUME NEW t \in Thread, G_alloc_take(t) PROVE PayloadInv'
  <2> PICK i : i = page[t]
    OBVIOUS
  <2> PICK n : n = npage(t)
    OBVIOUS
  <2>1. /\ UNCHANGED <<sz, n_head>>
        /\ \/ Owned' = Owned
           \/ i \in Page /\ n \in Nat \ {0} /\ try_alloc(i, n) /\ Owned' = Owned \cup {Pages(i, n)}
    BY <1>5, PagesTaken
  <2>2. CASE i \in Page /\ n \in Nat \ {0} /\ try_alloc(i, n) /\ Owned' = Owned \cup {Pages(i, n)}
    <3>1. ~Linked(i) /\ Pages(i, n).pg = i
      BY <2>2, FreeRunMisses DEF Pages
    <3>2. ASSUME NEW p \in Page, Linked(p) PROVE SpaceOK(p)'
      <4>1. \A b \in Owned' : b.pg = p => b \in Owned
        BY <2>2, <3>1, <3>2
      <4> QED
        BY <2>1, <2>2, <3>2, <4>1 DEF PayloadInv, SpaceOK, InNode, InBlock
    <3> QED
      BY <2>1, <3>2 DEF PayloadInv, Linked
  <2> QED
    BY <1>1, <2>1, <2>2
<1>6. ASSUME NEW t \in Thread, G_free_clear(t) PROVE PayloadInv'
  <2> PICK d : d = ptr[t]
    OBVIOUS
  <2>1. UNCHANGED <<sz, n_head>> /\ Owned' = Owned \ {d} /\ d \in Block /\ LargeBlock(d)
    BY <1>6, PagesFreed
  <2>2. d.pg \in d.pg .. d.pg + d.np - 1
    BY <2>1, MetaAssumption DEF LargeBlock, Block, Page
  <2>3. ~Linked(d.pg)
    BY <2>1, <2>2 DEF LargeBlock, IInv, LinkedInv, IsSlab, Block
  <2>4. ASSUME NEW p \in Page, Linked(p) PROVE SpaceOK(p)'
    <3>1. \A b \in Owned : b.pg = p => b \in Owned'
      BY <2>1, <2>3, <2>4
    <3> QED
      BY <2>1, <2>4, <3>1 DEF PayloadInv, SpaceOK, InNode, InBlock
  <2> QED
    BY <2>1, <2>4 DEF PayloadInv, Linked
<1>7. ASSUME NEW t \in Thread, add_slab_link(t) PROVE PayloadInv'
  <2>1. Owned' = Owned
    BY <1>7, SlabAdded
  <2>2. CASE UNCHANGED <<sz, next, n_head, slab>>
    BY <1>1, <2>1, <2>2
  <2>3. CASE ~UNCHANGED <<sz, next, n_head, slab>>
    BY <1>7, <2>3, SlabAdded, NewSlabSpace
  <2> QED
    BY <2>2, <2>3
<1> QED
  BY <1>1, <1>2, <1>3, <1>4, <1>5, <1>6, <1>7, OtherSteps DEF Calm

(* Then the pages that are no slabs. *)
Covers(b, p) == b.pg <= p /\ p < b.pg + b.np
RunsInv == \A p \in Page : Meta[p].is_alloc /\ ~Meta[p].is_slab =>
             \E b \in Owned : Covers(b, p)

LEMMA RunsStep ==
  ASSUME IInv, RunsInv, [Next]_vars
  PROVE  RunsInv'
<1>0. \A p \in Page : p \in MetaIdx /\ p \in Nat
  BY MetaAssumption DEF Page, MetaIdx
<1>1. ASSUME Meta' = Meta, Owned \subseteq Owned' PROVE RunsInv'
  BY <1>1 DEF RunsInv, Covers
<1>2. CASE S_init
  <2>1. PICK i \in Page : (\A k \in MetaIdx : k # i => Meta'[k] = Meta[k]) /\ Meta'[i].is_slab
    BY <1>2, SlabSetUp
  <2>2. Owned' = Owned
    BY <1>2, SlabSetUp
  <2> QED
    BY <1>0, <2>1, <2>2 DEF RunsInv, Covers
<1>3. ASSUME NEW t \in Thread, slab_alloc_take(t) PROVE RunsInv'
  <2>1. Meta' = Meta /\ Owned \subseteq Owned'
    BY <1>3, ObjectTaken
  <2> QED
    BY <1>1, <2>1
<1>4. ASSUME NEW t \in Thread, S_free_link(t) PROVE RunsInv'
  <2> PICK d : d = ptr[t]
    OBVIOUS
  <2>1. d \in Owned /\ SlabBlock(d) /\ Meta' = Meta /\ Owned' = Owned \ {d} /\ d.pg \in Page
    BY <1>4, ObjectFreed
  <2>2. ASSUME NEW p \in Page, Covers(d, p) PROVE Meta[p].is_slab
    <3>1. d.np = 1 /\ Meta[d.pg].is_slab
      BY <2>1 DEF SlabBlock, IsSlab
    <3>2. p = d.pg
      BY <1>0, <2>1, <2>2, <3>1 DEF Covers
    <3> QED
      BY <3>1, <3>2
  <2> QED
    BY <2>1, <2>2 DEF RunsInv, Covers
<1>5. ASSUME NEW t \in Thread, G_alloc_take(t) PROVE RunsInv'
  <2> PICK i : i = page[t]
    OBVIOUS
  <2> PICK n : n = npage(t)
    OBVIOUS
  <2>1. CASE i = NULL /\ Meta' = Meta /\ Owned' = Owned
    BY <1>1, <2>1
  <2>2. CASE ~(i = NULL /\ Meta' = Meta /\ Owned' = Owned)
    <3>1. /\ i \in Page /\ n \in Nat \ {0}
          /\ \A k \in MetaIdx : k \notin i .. i + n - 1 => Meta'[k] = Meta[k]
          /\ \A k \in i .. i + n - 1 : k \in MetaIdx /\ Meta'[k].is_slab = (slab[t] # NULL)
          /\ slab[t] # NULL => Owned' = Owned
          /\ slab[t] = NULL => Owned' = Owned \cup {Pages(i, n)}
      BY <1>5, <2>2, PagesTaken
    <3>2. ASSUME NEW p \in Page, Meta'[p].is_alloc, ~(Meta'[p].is_slab)
          PROVE  \E b \in Owned' : Covers(b, p)
      <4>1. CASE p \in i .. i + n - 1
        <5>1. slab[t] = NULL
          BY <3>1, <3>2, <4>1
        <5>2. Pages(i, n).pg = i /\ Pages(i, n).np = n
          BY DEF Pages
        <5>3. Covers(Pages(i, n), p)
          BY <1>0, <3>1, <4>1, <5>2 DEF Covers
        <5> QED
          BY <3>1, <5>1, <5>3
      <4>2. CASE p \notin i .. i + n - 1
        <5>1. Meta'[p] = Meta[p] /\ Owned \subseteq Owned'
          BY <1>0, <3>1, <4>2
        <5> QED
          BY <3>2, <5>1 DEF RunsInv
      <4> QED
        BY <4>1, <4>2
    <3> QED
      BY <3>2 DEF RunsInv, Covers
  <2> QED
    BY <2>1, <2>2
<1>6. ASSUME NEW t \in Thread, G_free_clear(t) PROVE RunsInv'
  <2> PICK d : d = ptr[t]
    OBVIOUS
  <2>1. /\ d \in Block /\ Owned' = Owned \ {d}
        /\ \A k \in MetaIdx : k \in d.pg .. d.pg + d.np - 1 => ~(Meta'[k].is_alloc)
        /\ \A k \in MetaIdx : k \notin d.pg .. d.pg + d.np - 1 => Meta'[k] = Meta[k]
    BY <1>6, PagesFreed
  <2>2. d.pg \in Nat /\ d.np \in Nat
    BY <1>0, <2>1 DEF Block
  <2>3. ASSUME NEW p \in Page, Meta'[p].is_alloc, ~(Meta'[p].is_slab)
        PROVE  \E b \in Owned' : Covers(b, p)
    <3>1. p \notin d.pg .. d.pg + d.np - 1 /\ Meta'[p] = Meta[p]
      BY <1>0, <2>1, <2>3
    <3>2. ~Covers(d, p)
      BY <1>0, <2>2, <3>1 DEF Covers
    <3> QED
      BY <2>1, <2>3, <3>1, <3>2 DEF RunsInv
  <2> QED
    BY <2>3 DEF RunsInv, Covers
<1>7. ASSUME NEW t \in Thread, add_slab_link(t) PROVE RunsInv'
  <2>1. Meta' = Meta /\ Owned' = Owned
    BY <1>7, SlabAdded
  <2> QED
    BY <1>1, <2>1
<1>8. CASE Calm
  BY <1>1, <1>8 DEF Calm
<1> QED
  BY <1>2, <1>3, <1>4, <1>5, <1>6, <1>7, <1>8, OtherSteps

(* slab_alloc's carving and S_free's inserting neither lose nor double a   *)
(* byte of a slab's payload.                                               *)
THEOREM SpaceKept == Spec => []SpaceInv
<1>1. Init => PayloadInv /\ RunsInv
  <2> SUFFICES ASSUME Init PROVE PayloadInv /\ RunsInv
    OBVIOUS
  <2>1. \A p \in Page : ~Linked(p)
    BY DEF Init, Linked
  <2>2. \A p \in Page : ~Meta[p].is_alloc
    BY DEF Init
  <2> QED
    BY <2>1, <2>2 DEF PayloadInv, RunsInv
<1>2. IInv /\ PayloadInv /\ [Next]_vars => PayloadInv'
  BY PayloadStep
<1>3. IInv /\ RunsInv /\ [Next]_vars => RunsInv'
  BY RunsStep
<1>4. PayloadInv /\ RunsInv => SpaceInv
  BY DEF PayloadInv, RunsInv, Covers, SpaceInv
<1> QED
  BY <1>1, <1>2, <1>3, <1>4, Invariance, PTL DEF Spec

(* No memory is lost: between any two steps the payload of a slab is its   *)
(* free list and the objects in use, without a byte in both, and an        *)
(* allocated page that is no slab belongs to a block in use.               *)
THEOREM NothingLost == Spec => []NoLeak
<1>1. ASSUME IInv, SpaceInv, NEW p \in Page,
             n_head[p] # <<>> \/ (\E b \in Owned : b.pg = p /\ IsSlab(p))
      PROVE  /\ FreeBytes(p) \cap OwnedBytes(p) = {}
             /\ FreeBytes(p) \cup OwnedBytes(p) = FirstOff(sz[p]) .. GPAGE_SZ - 1
  <2> PICK l : l = n_head[p]
    OBVIOUS
  <2> PICK first : first = FirstOff(sz[p])
    OBVIOUS
  <2>1. Linked(p)
    <3>1. n_head[p] # <<>> => Linked(p)
      BY <1>1 DEF IInv, FreeInv
    <3>2. ASSUME NEW b \in Owned, b.pg = p, IsSlab(p) PROVE Linked(p)
      <4>1. ~LargeBlock(b)
        <5>1. ASSUME LargeBlock(b) PROVE FALSE
          <6>1. b \in Block
            BY <1>1, OwnedType
          <6>2. b.pg <= p /\ p < b.pg + b.np
            BY <3>2, <5>1, <6>1, MetaAssumption DEF LargeBlock, Block, Page
          <6> QED
            BY <3>2, <5>1, <6>1, <6>2, LargeMissesSlab
        <5> QED
          BY <5>1
      <4> QED
        BY <1>1, <3>2, <4>1 DEF IInv, BlockInv, SlabBlock
    <3> QED
      BY <1>1, <3>1, <3>2
  <2>2. SpaceOK(p)
    BY <1>1, <2>1 DEF SpaceInv
  <2>3. /\ first \in Nat /\ GPAGE_SZ \in Nat
    <3>1. \E j \in Class : sz[p] = ClassSize(j)
      BY <1>1, <2>1 DEF IInv, LinkedInv
    <3> QED
      BY <3>1, LayoutAssumption
  <2>4. /\ Len(l) \in Nat
        /\ \A i \in 1 .. Len(l) : /\ l[i].off \in Nat /\ l[i].size \in Nat
                                 /\ first <= l[i].off /\ l[i].off + l[i].size <= GPAGE_SZ
    <3>1. l \in Seq(Node) /\ ListOK(l)
      BY <1>1 DEF IInv, TypeShared, FreeInv
    <3> QED
      BY <2>2, <3>1, SeqOfNodes DEF ListOK, NodeOK, SpaceOK
  <2>5. ASSUME NEW b \in Owned, b.pg = p
        PROVE  /\ b.off \in Nat /\ b.len \in Nat
               /\ first <= b.off /\ b.off + b.len <= GPAGE_SZ
    <3>1. b \in Block
      BY <1>1, OwnedType
    <3>2. first <= b.off
      BY <2>2, <2>5 DEF SpaceOK
    <3>3. b.off + b.len <= GPAGE_SZ
      BY <1>1, <2>3, <3>1 DEF IInv, BlockInv, SlabBlock, LargeBlock, Block
    <3> QED
      BY <3>1, <3>2, <3>3 DEF Block
  <2>6. \A x : x \in FreeBytes(p) <=> x \in Int /\ \E i \in 1 .. Len(l) : InNode(x, l[i])
    <3>1. ASSUME NEW x, NEW i \in 1 .. Len(l)
          PROVE  x \in l[i].off .. l[i].off + l[i].size - 1 <=> x \in Int /\ InNode(x, l[i])
      BY <2>4 DEF InNode
    <3>2. \A x : x \in FreeBytes(p) <=> \E i \in 1 .. Len(l) : x \in l[i].off .. l[i].off + l[i].size - 1
      BY DEF FreeBytes
    <3> QED
      BY <3>1, <3>2
  <2>7. \A x : x \in OwnedBytes(p) <=> x \in Int /\ \E b \in Owned : b.pg = p /\ InBlock(x, b)
    <3>1. ASSUME NEW x, NEW b \in Owned, b.pg = p
          PROVE  x \in b.off .. b.off + b.len - 1 <=> x \in Int /\ InBlock(x, b)
      BY <2>5, <3>1 DEF InBlock
    <3>2. \A x : x \in OwnedBytes(p) <=> \E b \in Owned : b.pg = p /\ x \in b.off .. b.off + b.len - 1
      BY DEF OwnedBytes
    <3> QED
      BY <3>1, <3>2
  <2>8. ASSUME NEW x, x \in FreeBytes(p), x \in OwnedBytes(p) PROVE FALSE
    <3>1. PICK i \in 1 .. Len(l) : InNode(x, l[i])
      BY <2>6, <2>8
    <3>2. PICK b \in Owned : b.pg = p /\ InBlock(x, b)
      BY <2>7, <2>8
    <3>3. x \in Int
      BY <2>6, <2>8
    <3>4. Apart(l[i], b)
      BY <1>1, <3>2 DEF IInv, FreeInv
    <3>5. l[i].off \in Nat /\ l[i].size \in Nat
      BY <2>4
    <3>6. b.off \in Nat /\ b.len \in Nat
      BY <2>5, <3>2
    <3>7. /\ l[i].off <= x /\ x < l[i].off + l[i].size
          /\ b.off <= x /\ x < b.off + b.len
      BY <3>1, <3>2 DEF InNode, InBlock
    <3>8. l[i].off + l[i].size <= b.off \/ b.off + b.len <= l[i].off
      BY <3>4 DEF Apart
    <3> QED
      BY <3>3, <3>5, <3>6, <3>7, <3>8
  <2>9. ASSUME NEW x, x \in first .. GPAGE_SZ - 1 PROVE x \in FreeBytes(p) \/ x \in OwnedBytes(p)
    <3>1. x \in Int
      BY <2>3, <2>9
    <3>2. (\E i \in 1 .. Len(l) : InNode(x, l[i])) \/ \E b \in Owned : b.pg = p /\ InBlock(x, b)
      BY <2>2, <2>9 DEF SpaceOK
    <3> QED
      BY <2>6, <2>7, <3>1, <3>2
  <2>10. ASSUME NEW x, x \in FreeBytes(p) PROVE x \in first .. GPAGE_SZ - 1
    <3>1. PICK i \in 1 .. Len(l) : x \in Int /\ InNode(x, l[i])
      BY <2>6, <2>10
    <3> QED
      BY <2>3, <2>4, <3>1 DEF InNode
  <2>11. ASSUME NEW x, x \in OwnedBytes(p) PROVE x \in first .. GPAGE_SZ - 1
    <3>1. PICK b \in Owned : x \in Int /\ b.pg = p /\ InBlock(x, b)
      BY <2>7, <2>11
    <3> QED
      BY <2>3, <2>5, <3>1 DEF InBlock
  <2> QED
    BY <2>8, <2>9, <2>10, <2>11
<1>2. ASSUME IInv, SpaceInv, NEW p \in Page, Meta[p].is_alloc, ~Meta[p].is_slab
      PROVE  \E b \in Owned : p \in b.pg .. b.pg + b.np - 1
  <2>1. PICK b \in Owned : b.pg <= p /\ p < b.pg + b.np
    BY <1>2 DEF SpaceInv
  <2>2. b.pg \in Nat /\ b.np \in Nat /\ p \in Nat
    BY <1>2, OwnedType, MetaAssumption DEF Block, Page
  <2> QED
    BY <2>1, <2>2
<1>3. IInv /\ SpaceInv => NoLeak
  BY <1>1, <1>2 DEF NoLeak
<1> QED
  BY <1>3, Invariance, SpaceKept, PTL

----------------------------------------------------------------------------
(* The asserts.  Threads on different CPUs are on different slabs: the     *)
(* chains of a CPU never lead to those of another.                         *)
LEMMA ChartStep ==
  ASSUME IInv, ChartInv, [Next]_vars
  PROVE  ChartInv'
<1> USE DEF IInv
<1> PICK own \in [Page -> CPU \cup {NULL}] : Charted(own)
  BY DEF ChartInv
<1>1. ASSUME Slab' = Slab, next' = next,
             \A t \in Thread : slab'[t] # NULL => own[slab'[t]] = cpu_current[t]
      PROVE  ChartInv'
  <2>1. Charted(own)'
    BY <1>1 DEF Charted
  <2> QED
    BY <2>1 DEF ChartInv
<1>2. CASE UNCHANGED <<Slab, next, slab>>
  BY <1>1, <1>2 DEF Charted
<1>3. CASE S_init
  <2>1. PICK c \in CPU, j \in Class, i \in Page :
          /\ Slab[c][j] = NULL /\ ~Linked(i)
          /\ Slab' = [Slab EXCEPT ![c][j] = i]
          /\ next' = [next EXCEPT ![i] = NULL]
    BY <1>3, SlabSetUp
  <2>2. \A t \in Thread : slab'[t] = NULL
    BY <1>3, SlabSetUp DEF local
  <2>3. next'[i] = NULL /\ \A p \in Page : p # i => next'[p] = next[p]
    BY <2>1 DEF TypeShared
  <2>4. /\ Slab'[c][j] = i
        /\ \A d \in CPU, k \in Class : ~(d = c /\ k = j) => Slab'[d][k] = Slab[d][k]
    BY <2>1 DEF TypeShared
  <2> DEFINE new == [own EXCEPT ![i] = c]
  <2>5. /\ new \in [Page -> CPU \cup {NULL}] /\ new[i] = c
        /\ \A p \in Page : p # i => new[p] = own[p]
    OBVIOUS
  <2> HIDE DEF new
  <2>6. ASSUME NEW d \in CPU, NEW k \in Class, Slab'[d][k] # NULL PROVE new[Slab'[d][k]] = d
    <3>1. CASE d = c /\ k = j
      BY <2>4, <2>5, <3>1
    <3>2. CASE ~(d = c /\ k = j)
      <4>1. Slab'[d][k] = Slab[d][k] /\ Slab[d][k] \in Page /\ Slab[d][k] # i
        BY <2>1, <2>4, <2>6, <3>2, ChainsLinked
      <4> QED
        BY <2>5, <2>6, <4>1 DEF Charted
    <3> QED
      BY <3>1, <3>2
  <2>7. ASSUME NEW p \in Page, next'[p] # NULL PROVE new[next'[p]] = new[p]
    <3>1. p # i /\ next'[p] = next[p] /\ next[p] \in Page /\ next[p] # i
      BY <2>1, <2>3, <2>7, ChainsLinked
    <3> QED
      BY <2>5, <2>7, <3>1 DEF Charted
  <2>8. Charted(new)'
    BY <2>2, <2>6, <2>7 DEF Charted
  <2> QED
    BY <2>5, <2>8 DEF ChartInv
<1>4. ASSUME NEW t \in Thread, NEW s \in Requests, kalloc(t, s) PROVE ChartInv'
  <2>1. UNCHANGED <<Slab, next>> /\ booted
    BY <1>4 DEF kalloc, shared
  <2>2. CASE slab' = slab
    BY <1>2, <2>1, <2>2
  <2>3. CASE slab' # slab
    <3>1. /\ s \in Served /\ IsSmall(s)
          /\ slab' = [slab EXCEPT ![t] = Slab[cpu_current[t]][get_slab_index(RoundSize(s))]]
      BY <1>4, <2>3 DEF kalloc, Served
    <3>2. cpu_current[t] \in CPU /\ get_slab_index(RoundSize(s)) \in Class
      BY <3>1, CpuAssumption, ClassAssumption
    <3>3. own[Slab[cpu_current[t]][get_slab_index(RoundSize(s))]] = cpu_current[t]
      BY <2>1, <3>2 DEF Charted, booted
    <3>4. \A u \in Thread : slab'[u] # NULL => own[slab'[u]] = cpu_current[u]
      BY <3>1, <3>3 DEF Charted, TypeLocal
    <3> QED
      BY <1>1, <2>1, <3>4
  <2> QED
    BY <2>2, <2>3
<1>5. ASSUME NEW t \in Thread, S_alloc_next(t) PROVE ChartInv'
  <2>1. UNCHANGED <<Slab, next>> /\ slab[t] # NULL /\ slab[t] \in Page
    BY <1>5, ChainsLinked DEF S_alloc_next, shared, LocalInv, LocalOK, SmallPc
  <2>2. CASE slab' = slab
    BY <1>2, <2>1, <2>2
  <2>3. CASE slab' # slab
    <3>1. next[slab[t]] # NULL /\ slab' = [slab EXCEPT ![t] = next[slab[t]]]
      BY <1>5, <2>3 DEF S_alloc_next
    <3>2. own[next[slab[t]]] = cpu_current[t]
      BY <2>1, <3>1 DEF Charted
    <3>3. \A u \in Thread : slab'[u] # NULL => own[slab'[u]] = cpu_current[u]
      BY <3>1, <3>2 DEF Charted, TypeLocal
    <3> QED
      BY <1>1, <2>1, <3>3
  <2> QED
    BY <2>2, <2>3
<1>6. ASSUME NEW t \in Thread, Return(t) PROVE ChartInv'
  <2>1. UNCHANGED <<Slab, next>> /\ slab' = [slab EXCEPT ![t] = NULL]
    BY <1>6 DEF Return
  <2>2. \A u \in Thread : slab'[u] # NULL => own[slab'[u]] = cpu_current[u]
    BY <2>1 DEF Charted, TypeLocal
  <2> QED
    BY <1>1, <2>1, <2>2
<1>7. ASSUME NEW t \in Thread, add_slab_link(t) PROVE ChartInv'
  <2> PICK s : s = slab[t]
    OBVIOUS
  <2> PICK p : p = page[t]
    OBVIOUS
  <2>1. CASE UNCHANGED <<sz, next, n_head, slab>>
    BY <1>2, <1>7, <2>1 DEF add_slab_link
  <2>2. CASE ~UNCHANGED <<sz, next, n_head, slab>>
    <3>1. /\ s \in Page /\ p \in Page /\ p # s /\ ~Linked(p) /\ Slab' = Slab
          /\ slab' = [slab EXCEPT ![t] = p] /\ next' = [next EXCEPT ![p] = NULL, ![s] = p]
      BY <1>7, <2>2, SlabAdded
    <3>2. /\ next'[p] = NULL /\ next'[s] = p
          /\ \A q \in Page : q # p /\ q # s => next'[q] = next[q]
      BY <3>1 DEF TypeShared
    <3>3. slab'[t] = p /\ \A u \in Thread : u # t => slab'[u] = slab[u]
      BY <3>1 DEF TypeLocal
    <3> DEFINE new == [own EXCEPT ![p] = own[s]]
    <3>4. /\ new \in [Page -> CPU \cup {NULL}] /\ new[p] = own[s]
          /\ \A q \in Page : q # p => new[q] = own[q]
      BY <3>1
    <3> HIDE DEF new
    <3>5. ASSUME NEW d \in CPU, NEW k \in Class, Slab[d][k] # NULL PROVE new[Slab[d][k]] = d
      BY <3>1, <3>4, <3>5, ChainsLinked DEF Charted
    <3>6. ASSUME NEW q \in Page, next'[q] # NULL PROVE new[next'[q]] = new[q]
      <4>1. CASE q = s
        BY <3>1, <3>2, <3>4, <4>1
      <4>2. CASE q # s
        <5>1. q # p /\ next'[q] = next[q] /\ next[q] \in Page /\ next[q] # p
          BY <3>1, <3>2, <3>6, <4>2, ChainsLinked
        <5> QED
          BY <3>4, <3>6, <5>1 DEF Charted
      <4> QED
        BY <4>1, <4>2
    <3>7. ASSUME NEW u \in Thread, slab'[u] # NULL PROVE new[slab'[u]] = cpu_current[u]
      <4>1. CASE u = t
        <5>1. s # NULL /\ own[s] = cpu_current[t]
          BY <3>1, ChainsLinked DEF Charted
        <5> QED
          BY <3>3, <3>4, <4>1, <5>1
      <4>2. CASE u # t
        <5>1. slab[u] \in Page /\ slab[u] # p /\ slab[u] # NULL /\ slab'[u] = slab[u]
          BY <3>1, <3>3, <3>7, <4>2, ChainsLinked
        <5> QED
          BY <3>4, <5>1 DEF Charted
      <4> QED
        BY <4>1, <4>2
    <3>8. Charted(new)'
      BY <3>1, <3>5, <3>6, <3>7 DEF Charted
    <3> QED
      BY <3>4, <3>8 DEF ChartInv
  <2> QED
    BY <2>1, <2>2
<1>8. ASSUME NEW t \in Thread,
             \/ \E b \in live : kfree(t, b)
             \/ slab_alloc_lock(t) \/ slab_alloc_take(t) \/ add_slab_lock(t) \/ G_alloc_lock(t)
             \/ G_alloc_take(t) \/ S_free_lock(t) \/ S_free_link(t) \/ G_free_lock(t) \/ G_free_clear(t)
      PROVE  UNCHANGED <<Slab, next, slab>>
  BY <1>8 DEF kfree, slab_alloc_lock, slab_alloc_take, add_slab_lock, G_alloc_lock, G_alloc_take,
              S_free_lock, S_free_link, G_free_lock, G_free_clear
<1>9. CASE UNCHANGED vars
  BY <1>2, <1>9 DEF vars, shared, local
<1> QED
  BY <1>2, <1>3, <1>4, <1>5, <1>6, <1>7, <1>8, <1>9 DEF Next, Step

(* A chain belongs to one processor, and a thread's slab_alloc and         *)
(* add_slab stay on the chains of the processor they run on.               *)
THEOREM ChainsCharted == Spec => []ChartInv
<1>1. Init => ChartInv
  <2> SUFFICES ASSUME Init PROVE ChartInv
    OBVIOUS
  <2> DEFINE own == [p \in Page |-> NULL]
  <2>1. own \in [Page -> CPU \cup {NULL}]
    OBVIOUS
  <2>2. Charted(own)
    BY DEF Init, Charted
  <2> HIDE DEF own
  <2> QED
    BY <2>1, <2>2 DEF ChartInv
<1>2. IInv /\ ChartInv /\ [Next]_vars => ChartInv'
  BY ChartStep
<1> QED
  BY <1>1, <1>2, Invariance, PTL DEF Spec

LEMMA SlabsApart ==
  ASSUME IInv, ChartInv, OneThreadPerCpu, NEW t \in Thread, NEW u \in Thread, t # u,
         slab[t] # NULL
  PROVE  slab[t] # slab[u]
<1> PICK own \in [Page -> CPU \cup {NULL}] : Charted(own)
  BY DEF ChartInv
<1> QED
  BY DEF Charted, OneThreadPerCpu

(* What add_slab starts from stays the end of its chain until it writes.   *)
LEMMA TailStep ==
  ASSUME IInv, ChartInv, TailInv, OneThreadPerCpu, [Next]_vars
  PROVE  TailInv'
<1> SUFFICES ASSUME NEW u \in Thread, pc'[u] \in TailPc, slab'[u] # NULL
             PROVE  next'[slab'[u]] = NULL
  BY DEF TailInv, TailPc
<1>1. ASSUME pc[u] \in TailPc, slab'[u] = slab[u], next' = next PROVE next'[slab'[u]] = NULL
  BY <1>1 DEF TailInv
<1>2. CASE UNCHANGED vars
  BY <1>1, <1>2 DEF vars, shared, local
<1>3. CASE S_init
  BY <1>3, SlabSetUp DEF local
<1>4. ASSUME NEW t \in Thread, CallStep(t), t # u PROVE next'[slab'[u]] = NULL
  <2>1. pc'[u] = pc[u] /\ slab'[u] = slab[u]
    BY <1>4, OthersStay
  <2>2. next[slab[u]] = NULL /\ slab[u] \in Page
    BY <2>1, ChainsLinked DEF TailInv
  <2>3. CASE next' = next
    BY <2>1, <2>2, <2>3
  <2>4. CASE add_slab_link(t)
    <3>1. slab[u] # slab[t]
      BY <1>4, <2>1, SlabsApart
    <3>2. \/ next' = next
          \/ \E p \in Page : next' = [next EXCEPT ![p] = NULL, ![slab[t]] = p]
      BY <2>4, SlabAdded
    <3> QED
      BY <2>1, <2>2, <2>3, <3>1, <3>2 DEF IInv, TypeShared
  <2>5. CASE next' # next /\ ~add_slab_link(t)
    BY <1>4, <2>5 DEF CallStep, Step, kalloc, kfree, slab_alloc_lock, slab_alloc_take, S_alloc_next,
         add_slab_lock, G_alloc_lock, G_alloc_take, S_free_lock, S_free_link, G_free_lock,
         G_free_clear, Return, shared
  <2> QED
    BY <2>3, <2>4, <2>5
<1>5. CASE CallStep(u)
  <2> USE DEF Goto, TailPc
  <2>0. pc \in [Thread -> {"idle", "ret", "G_alloc", "G_take"} \cup SmallPc \cup FreePc]
        /\ slab \in [Thread -> PageOrNull]
    BY DEF IInv, TypeLocal
  <2>1. ASSUME NEW s \in Requests, kalloc(u, s) PROVE FALSE
    <3>1. slab[u] = NULL
      BY <2>1 DEF kalloc, IInv, LocalInv, LocalOK
    <3> QED
      BY <2>0, <2>1, <3>1 DEF kalloc
  <2>2. ASSUME \/ \E b \in live : kfree(u, b)
               \/ slab_alloc_lock(u) \/ slab_alloc_take(u) \/ Return(u)
        PROVE  FALSE
    BY <2>0, <2>2 DEF kfree, slab_alloc_lock, slab_alloc_take, Return
  <2>3. ASSUME S_alloc_next(u) PROVE next'[slab'[u]] = NULL
    BY <2>0, <2>3 DEF S_alloc_next, shared
  <2>4. ASSUME add_slab_lock(u) \/ G_alloc_lock(u) \/ G_alloc_take(u)
        PROVE  next'[slab'[u]] = NULL
    BY <1>1, <2>0, <2>4 DEF add_slab_lock, G_alloc_lock, G_alloc_take
  <2>5. ASSUME add_slab_link(u) \/ S_free_lock(u) \/ S_free_link(u) \/ G_free_lock(u) \/ G_free_clear(u)
        PROVE  FALSE
    BY <2>0, <2>5 DEF add_slab_link, S_free_lock, S_free_link, G_free_lock, G_free_clear
  <2> QED
    BY <1>5, <2>1, <2>2, <2>3, <2>4, <2>5 DEF CallStep, Step
<1> QED
  BY <1>2, <1>3, <1>4, <1>5, NextCases

(* Nobody else takes from the slab add_slab made before add_slab does. *)
LEMMA FreshStep ==
  ASSUME IInv, ChartInv, FreshInv, OneThreadPerCpu, [Next]_vars
  PROVE  FreshInv'
<1> SUFFICES ASSUME NEW u \in Thread, pc'[u] \in {"new_slab_alloc", "new_slab_take"}
             PROVE  n_head'[slab'[u]] # <<>>
  BY DEF FreshInv
<1>0. n_head \in [Page -> Seq(Node)]
  BY DEF IInv, TypeShared
<1>1. ASSUME pc[u] \in {"new_slab_alloc", "new_slab_take"}, slab'[u] = slab[u], n_head' = n_head
      PROVE  n_head'[slab'[u]] # <<>>
  BY <1>1 DEF FreshInv
<1>2. CASE UNCHANGED vars
  BY <1>1, <1>2 DEF vars, shared, local
<1>3. CASE S_init
  BY <1>3, SlabSetUp DEF local
<1>4. ASSUME NEW t \in Thread, CallStep(t), t # u PROVE n_head'[slab'[u]] # <<>>
  <2>1. pc'[u] = pc[u] /\ slab'[u] = slab[u]
    BY <1>4, OthersStay
  <2>2. n_head[slab[u]] # <<>>
    BY <2>1 DEF FreshInv
  <2>3. slab[u] \in Page /\ slab[u] # NULL
    BY <2>1, ChainsLinked DEF IInv, LocalInv, LocalOK, SmallPc
  <2>4. CASE n_head' = n_head
    BY <2>1, <2>2, <2>4
  <2>5. CASE slab_alloc_take(t)
    <3> PICK s : s = slab[t]
      OBVIOUS
    <3> PICK l : l = list[t]
      OBVIOUS
    <3> PICK c : c = RoundSize(size[t])
      OBVIOUS
    <3>1. slab[u] # s
      BY <1>4, <2>3, SlabsApart
    <3> PICK o : o = Object(s, [off |-> l[1].off, size |-> c])
      OBVIOUS
    <3> PICK m : m = Carve(l, c)
      OBVIOUS
    <3>2. /\ s \in Page /\ Linked(s) /\ c \in Nat \ {0}
          /\ \/ n_head' = n_head /\ Owned' = Owned
             \/ /\ l # <<>> /\ l[1].size >= c
                /\ n_head' = [n_head EXCEPT ![s] = m] /\ Owned' = Owned \cup {o}
      BY <2>5, ObjectTaken
    <3> QED
      BY <1>0, <2>1, <2>2, <2>3, <3>1, <3>2
  <2>6. CASE S_free_link(t)
    <3> PICK b : b = ptr[t]
      OBVIOUS
    <3> PICK s : s = b.pg
      OBVIOUS
    <3> PICK x : x = [off |-> b.off, size |-> sz[s]]
      OBVIOUS
    <3>1. /\ s \in Page /\ n_head[s] \in Seq(Node) /\ x \in Node
          /\ \E k \in 1 .. Len(n_head[s]) + 1 :
               n_head' = [n_head EXCEPT ![s] = InsertAt(n_head[s], k, x)]
      BY <2>6, ObjectFreed
    <3>2. PICK k \in 1 .. Len(n_head[s]) + 1 :
            n_head' = [n_head EXCEPT ![s] = InsertAt(n_head[s], k, x)]
      BY <3>1
    <3>3. InsertAt(n_head[s], k, x) # <<>>
      <4>1. n_head[s] \in Seq(Node) /\ x \in Node /\ k \in 1 .. Len(n_head[s]) + 1
        BY <3>1
      <4> QED
        BY ONLY <4>1, InsertNodes
    <3> QED
      BY <1>0, <2>1, <2>2, <2>3, <3>1, <3>2, <3>3
  <2>7. CASE add_slab_link(t)
    <3>1. \/ n_head' = n_head
          \/ \E p \in Page, j \in Class : n_head' = [n_head EXCEPT ![p] = FreshList(ClassSize(j))]
      BY <2>7, SlabAdded
    <3>2. \A j \in Class : FreshList(ClassSize(j)) # <<>>
      BY FreshNodes
    <3> QED
      BY <1>0, <2>1, <2>2, <2>3, <3>1, <3>2
  <2>8. ASSUME ~slab_alloc_take(t), ~S_free_link(t), ~add_slab_link(t) PROVE n_head' = n_head
    BY <1>4, <2>8 DEF CallStep, Step, kalloc, kfree, slab_alloc_lock, S_alloc_next,
         add_slab_lock, G_alloc_lock, G_alloc_take, S_free_lock, G_free_lock,
         G_free_clear, Return, shared
  <2> QED
    BY <2>4, <2>5, <2>6, <2>7, <2>8
<1>5. CASE CallStep(u)
  <2> USE DEF Goto
  <2>0. pc \in [Thread -> {"idle", "ret", "G_alloc", "G_take"} \cup SmallPc \cup FreePc]
        /\ slab \in [Thread -> PageOrNull]
    BY DEF IInv, TypeLocal
  <2>1. ASSUME \/ \E s \in Requests : kalloc(u, s)
               \/ \E b \in live : kfree(u, b)
               \/ slab_alloc_take(u) \/ S_alloc_next(u) \/ add_slab_lock(u)
               \/ G_alloc_lock(u) \/ G_alloc_take(u) \/ Return(u)
        PROVE  FALSE
    BY <2>0, <2>1 DEF kalloc, kfree, slab_alloc_take, S_alloc_next, add_slab_lock, G_alloc_lock,
                      G_alloc_take, Return
  <2>2. ASSUME S_free_lock(u) \/ S_free_link(u) \/ G_free_lock(u) \/ G_free_clear(u)
        PROVE  FALSE
    BY <2>0, <2>2 DEF S_free_lock, S_free_link, G_free_lock, G_free_clear
  <2>3. ASSUME slab_alloc_lock(u) PROVE n_head'[slab'[u]] # <<>>
    BY <1>1, <2>0, <2>3 DEF slab_alloc_lock
  <2>4. ASSUME add_slab_link(u) PROVE n_head'[slab'[u]] # <<>>
    <3>1. page[u] # NULL /\ slab' = [slab EXCEPT ![u] = page[u]]
      BY <2>0, <2>4 DEF add_slab_link
    <3>2. slab'[u] = page[u]
      BY <2>0, <3>1
    <3>3. slab' # slab
      <4>1. pc[u] = "add_slab_link" /\ page[u] \in Page /\ slab[u] # NULL
        BY <2>4, <3>1 DEF add_slab_link, IInv, LocalInv, LocalOK, SmallPc, PendingInv, PageOrNull
      <4>2. ~Linked(page[u]) /\ Linked(slab[u])
        BY <3>1, <4>1, ChainsLinked DEF IInv, PendingInv, Pending
      <4> QED
        BY <3>2, <4>2
    <3>4. /\ page[u] \in Page
          /\ \E j \in Class : n_head' = [n_head EXCEPT ![page[u]] = FreshList(ClassSize(j))]
      BY <2>4, <3>3, SlabAdded
    <3>5. \A j \in Class : FreshList(ClassSize(j)) # <<>>
      BY FreshNodes
    <3> QED
      BY <1>0, <3>2, <3>4, <3>5
  <2> QED
    BY <1>5, <2>1, <2>2, <2>3, <2>4 DEF CallStep, Step
<1> QED
  BY <1>2, <1>3, <1>4, <1>5, NextCases

(* With one thread of control per CPU, as add_slab's asserts take for      *)
(* granted, nobody touches a slab between its creation and add_slab_link.  *)
THEOREM FreshUntouched ==
  ASSUME OneThreadPerCpu PROVE Spec => [](TailInv /\ FreshInv)
<1>1. Init => TailInv /\ FreshInv
  BY DEF Init, TailInv, TailPc, FreshInv
<1>2. IInv /\ ChartInv /\ TailInv /\ FreshInv /\ [Next]_vars => (TailInv /\ FreshInv)'
  BY TailStep, FreshStep
<1> QED
  BY <1>1, <1>2, Invariance, ChainsCharted, PTL DEF Spec

LEMMA AssertsTrue == IInv /\ WholeInv /\ TailInv /\ FreshInv => AssertsHold
<1> SUFFICES ASSUME IInv, WholeInv, TailInv, FreshInv, NEW t \in Thread
             PROVE  /\ pc[t] = "slab_take" =>
                         list[t] = <<>> \/ list[t][1].size >= RoundSize(size[t])
                    /\ pc[t] = "new_slab_take" => list[t] # <<>>
                    /\ pc[t] = "add_slab_link" /\ page[t] # NULL => next[slab[t]] = NULL
                    /\ pc[t] = "G_take" /\ page[t] # NULL => try_alloc(page[t], npage(t))
                    /\ pc[t] = "S_link" =>
                         \A i \in 1 .. Len(list[t]) : list[t][i].off # ptr[t].off
                    /\ pc[t] = "G_free" => ptr[t].off = 0 /\ Meta[ptr[t].pg].end # NULL
                    /\ pc[t] = "G_clear" =>
                         \A k \in ptr[t].pg .. page[t] - 1 :
                           Meta[k].is_alloc /\ ~Meta[k].is_slab /\ Meta[k].end = page[t]
  BY DEF AssertsHold
<1>1. ASSUME pc[t] = "slab_take", list[t] # <<>> PROVE list[t][1].size >= RoundSize(size[t])
  <2> PICK s : s = slab[t]
    OBVIOUS
  <2> PICK c : c = RoundSize(size[t])
    OBVIOUS
  <2> PICK l : l = list[t]
    OBVIOUS
  <2>1. s \in Page /\ s # NULL /\ size[t] \in Served
    BY <1>1, ChainsLinked DEF IInv, LocalInv, LocalOK, SmallPc
  <2>2. l = n_head[s] /\ l \in Seq(Node) /\ ListOK(l) /\ l # <<>>
    BY <1>1, <2>1 DEF IInv, SnapInv, SnapOK, TypeShared, FreeInv
  <2>3. sz[s] = c /\ c \in Nat \ {0}
    BY <1>1, <2>1, RequestAssumption DEF IInv, CursorInv, CursorOK
  <2>4. Len(l) \in Nat \ {0} /\ l[1].size \in Nat
    BY <2>2, SeqOfNodes
  <2>5. 1 \in 1 .. Len(l)
    BY <2>4
  <2>6. l[1].size # 0 /\ l[1].size % c = 0
    BY <2>1, <2>2, <2>3, <2>5 DEF WholeInv, Whole, ListOK, NodeOK
  <2>7. c <= l[1].size
    BY <2>3, <2>4, <2>6, ModMult, ModSum
  <2> QED
    BY <2>3, <2>4, <2>7
<1>2. ASSUME pc[t] = "new_slab_take" PROVE list[t] # <<>>
  BY <1>2 DEF IInv, SnapInv, SnapOK, FreshInv
<1>3. ASSUME pc[t] = "add_slab_link" PROVE next[slab[t]] = NULL
  BY <1>3 DEF IInv, LocalInv, LocalOK, SmallPc, TailInv, TailPc
<1>4. ASSUME pc[t] = "G_take", page[t] # NULL PROVE try_alloc(page[t], npage(t))
  BY <1>4 DEF IInv, SnapInv, SnapOK
<1>5. ASSUME pc[t] = "S_link", NEW i \in 1 .. Len(list[t]) PROVE list[t][i].off # ptr[t].off
  <2> PICK b : b = ptr[t]
    OBVIOUS
  <2> PICK n : n = list[t][i]
    OBVIOUS
  <2>1. b \in Owned /\ b \in Block /\ SlabBlock(b)
    BY <1>5, FreedBlock DEF FreePc
  <2>2. b.pg \in Page /\ b.off \in Nat /\ b.len \in Nat \ {0}
    BY <2>1 DEF Block, SlabBlock, Linked
  <2>3. list[t] = n_head[b.pg] /\ list[t] \in Seq(Node)
    BY <1>5, <2>2 DEF IInv, SnapInv, SnapOK, TypeShared
  <2>4. Apart(n, b) /\ NodeOK(n)
    BY <2>1, <2>2, <2>3 DEF IInv, FreeInv, ListOK
  <2>5. n.off \in Nat /\ n.size \in Nat /\ n.size # 0
    BY <2>3, <2>4, SeqOfNodes DEF NodeOK
  <2> QED
    BY <2>2, <2>4, <2>5 DEF Apart
<1>6. ASSUME pc[t] \in {"G_free", "G_clear"}
      PROVE  /\ ptr[t].off = 0 /\ Meta[ptr[t].pg].end = ptr[t].pg + ptr[t].np
             /\ ptr[t].pg \in Nat /\ ptr[t].np \in Nat
             /\ \A k \in ptr[t].pg .. ptr[t].pg + ptr[t].np - 1 :
                  Meta[k].is_alloc /\ ~Meta[k].is_slab /\ Meta[k].end = ptr[t].pg + ptr[t].np
  <2> PICK b : b = ptr[t]
    OBVIOUS
  <2>1. b \in Block /\ LargeBlock(b)
    BY <1>6, FreedBlock DEF FreePc
  <2>2. b.pg \in Nat /\ b.np \in Nat \ {0}
    BY <2>1, MetaAssumption DEF Block, Page, LargeBlock
  <2>3. b.pg \in b.pg .. b.pg + b.np - 1
    BY <2>2
  <2> QED
    BY <2>1, <2>2, <2>3 DEF LargeBlock
<1>7. ASSUME pc[t] = "G_free" PROVE ptr[t].off = 0 /\ Meta[ptr[t].pg].end # NULL
  BY <1>6, <1>7, NullAssumption
<1>8. ASSUME pc[t] = "G_clear"
      PROVE  \A k \in ptr[t].pg .. page[t] - 1 :
               Meta[k].is_alloc /\ ~Meta[k].is_slab /\ Meta[k].end = page[t]
  <2>1. page[t] = ptr[t].pg + ptr[t].np
    BY <1>6, <1>8 DEF IInv, SnapInv, SnapOK
  <2> QED
    BY <1>6, <1>8, <2>1
<1> QED
  BY <1>1, <1>2, <1>3, <1>4, <1>5, <1>7, <1>8

(* No assert of pmm.c fails on what another thread may have changed: the   *)
(* node slab_alloc meets is large enough, a fresh slab is still fresh, the *)
(* end of the chain is still its end, S_free does not find its object      *)
(* free, and G_alloc and G_free find the run as it was.  With two threads  *)
(* of control on one CPU the two asserts about add_slab could fail.        *)
THEOREM NoAssertFails == ASSUME OneThreadPerCpu PROVE Spec => []AssertsHold
  BY AssertsTrue, Invariance, WholeObjects, FreshUntouched, PTL

(***************************************************************************)
(* Pmm implements PmmSpec: every step of the allocator is a step a caller  *)
(* may see or changes nothing a caller sees.  A kalloc takes effect when   *)
(* it writes the free list or Meta, a kfree likewise; the other steps of   *)
(* both, and S_init, are invisible.                                        *)
(***************************************************************************)

(* Sizes: the powers of two at stake are positive, products keep order,    *)
(* and what divides a divisor divides.                                     *)
LEMMA PowerPositive == \A k \in 0 .. 24 : 2^k \in Nat \ {0}
<1>1. \A k \in 0 .. 24 :
        \/ k = 0 \/ k = 1 \/ k = 2 \/ k = 3 \/ k = 4 \/ k = 5 \/ k = 6 \/ k = 7 \/ k = 8
        \/ k = 9 \/ k = 10 \/ k = 11 \/ k = 12 \/ k = 13 \/ k = 14 \/ k = 15 \/ k = 16
        \/ k = 17 \/ k = 18 \/ k = 19 \/ k = 20 \/ k = 21 \/ k = 22 \/ k = 23 \/ k = 24
  OBVIOUS
<1>2. /\ 2^0 > 0 /\ 2^1 > 0 /\ 2^2 > 0 /\ 2^3 > 0 /\ 2^4 > 0 /\ 2^5 > 0 /\ 2^6 > 0
      /\ 2^7 > 0 /\ 2^8 > 0 /\ 2^9 > 0 /\ 2^10 > 0 /\ 2^11 > 0 /\ 2^12 > 0 /\ 2^13 > 0
      /\ 2^14 > 0 /\ 2^15 > 0 /\ 2^16 > 0 /\ 2^17 > 0 /\ 2^18 > 0 /\ 2^19 > 0
      /\ 2^20 > 0 /\ 2^21 > 0 /\ 2^22 > 0 /\ 2^23 > 0 /\ 2^24 > 0
  OBVIOUS
<1>3. \A k \in 0 .. 24 : 2^k \in Int
  OBVIOUS
<1>4. \A k \in 0 .. 24 : 2^k > 0
  BY <1>1, <1>2
<1>5. \A x \in Int : x > 0 => x \in Nat \ {0}
  OBVIOUS
<1> QED
  BY <1>3, <1>4, <1>5, Zenon

LEMMA ProductOrder ==
  ASSUME NEW g \in Nat, NEW x \in Nat, NEW y \in Nat, x <= y
  PROVE  x * g <= y * g /\ x * g \in Nat
<1>1. PICK d \in Nat : y = x + d
  OBVIOUS
<1>2. y * g = x * g + d * g /\ d * g \in Nat
  BY <1>1
<1> QED
  BY <1>2

LEMMA DividesTwice ==
  ASSUME NEW a \in Nat, NEW c \in Nat \ {0}, NEW d \in Nat \ {0}, a % c = 0, c % d = 0
  PROVE  a % d = 0
<1>1. PICK q \in Nat : a = q * c
  BY ModMult
<1>2. PICK r \in Nat : c = r * d
  BY ModMult
<1>3. a = (q * r) * d /\ q * r \in Nat
  BY <1>1, <1>2
<1> QED
  BY <1>3, MultMod

LEMMA DivMultiple ==
  ASSUME NEW a \in Nat, NEW n \in Nat \ {0}, NEW g \in Nat \ {0}, a % n = 0
  PROVE  (a * g) % (n * g) = 0
<1>1. PICK q \in Nat : a = q * n
  BY ModMult
<1>2. a * g = q * (n * g) /\ n * g \in Nat \ {0}
  BY <1>1
<1> QED
  BY <1>2, MultMod

(* The pages meta_init wrote lie in the heap. *)
LEMMA PagesInHeap == n_meta * GPAGE_SZ <= HeapSize
<1> DEFINE Stops(i) == (i + 1) * GPAGE_SZ > HeapSize /\ i * GPAGE_SZ <= HeapSize
<1>1. PICK g \in Nat \ {0} : g = GPAGE_SZ
  BY LayoutAssumption
<1>2. HeapSize \in Nat /\ META_SZ \in Nat /\ HeapSize < META_SZ * g
  BY <1>1, HeapAssumption, MetaAssumption
<1>3. PICK q \in Nat : q = HeapSize \div g
  BY <1>1, <1>2
<1>4. HeapSize = q * g + (HeapSize % g) /\ HeapSize % g \in 0 .. g - 1
  BY <1>1, <1>2, <1>3
<1>5. q * g <= HeapSize /\ (q + 1) * g > HeapSize
  <2>1. (q + 1) * g = q * g + g
    BY <1>1
  <2> QED
    BY <1>1, <1>2, <1>4, <2>1
<1>6. q < META_SZ
  <2>1. ASSUME META_SZ <= q PROVE FALSE
    <3>1. META_SZ * g <= q * g
      BY <1>1, <1>2, <2>1, ProductOrder
    <3> QED
      BY <1>1, <1>2, <1>5, <3>1
  <2> QED
    BY <1>2, <2>1
<1>7. q \in 0 .. META_SZ - 1 /\ Stops(q)
  BY <1>1, <1>2, <1>5, <1>6
<1> HIDE DEF Stops
<1>8. Stops(CHOOSE i \in 0 .. META_SZ - 1 : Stops(i))
  BY <1>7
<1> QED
  BY <1>8 DEF Stops, n_meta

----------------------------------------------------------------------------
(* Blocks as byte ranges.  Every block is whole pages or within one page.  *)
Shaped(b) ==
  /\ b \in Block /\ b.pg \in Nat /\ b.np \in Nat \ {0}
  /\ b.off \in Nat /\ b.len \in Nat \ {0} /\ b.off + b.len <= GPAGE_SZ
  /\ b.np = 1 \/ (b.off = 0 /\ b.len = GPAGE_SZ)

LEMMA BlockShape == ASSUME IInv, NEW b \in Owned PROVE Shaped(b)
<1>1. b \in Block
  BY OwnedType
<1>2. SlabBlock(b) \/ LargeBlock(b)
  BY DEF IInv, BlockInv
<1>3. GPAGE_SZ \in Nat \ {0}
  BY LayoutAssumption
<1>4. SlabBlock(b) => b.len # 0
  BY DEF SlabBlock, Linked
<1> QED
  BY <1>1, <1>2, <1>3, <1>4, MetaAssumption DEF Shaped, SlabBlock, LargeBlock, Block, Page

LEMMA NextBlockShape == ASSUME IInv', NEW b \in Owned' PROVE Shaped(b)
<1>1. b \in Block
  BY DEF IInv, TypeShared, TypeLocal, Owned
<1>2. SlabBlock(b)' \/ LargeBlock(b)'
  BY DEF IInv, BlockInv
<1>3. GPAGE_SZ \in Nat \ {0}
  BY LayoutAssumption
<1>4. SlabBlock(b)' => b.len # 0
  BY DEF SlabBlock, Linked
<1> QED
  BY <1>1, <1>2, <1>3, <1>4, MetaAssumption DEF Shaped, SlabBlock, LargeBlock, Block, Page

LEMMA ChunkShape ==
  ASSUME NEW b, Shaped(b)
  PROVE  /\ Chunk(b) \in [addr : Nat, len : Nat] /\ Chunk(b) # NULL
         /\ Chunk(b).addr = (GP + b.pg) * GPAGE_SZ + b.off
         /\ Chunk(b).len = (b.np - 1) * GPAGE_SZ + b.len
         /\ Chunk(b).len # 0
         /\ Chunk(b).addr + Chunk(b).len <= (GP + b.pg + b.np) * GPAGE_SZ
<1>1. /\ b.pg \in Nat /\ b.np \in Nat \ {0} /\ b.off \in Nat /\ b.len \in Nat \ {0}
      /\ b.off + b.len <= GPAGE_SZ
  BY DEF Shaped
<1>2. GP \in Nat /\ GPAGE_SZ \in Nat
  BY MetaAssumption, LayoutAssumption
<1>3. PICK m \in Nat : m = b.np - 1
  BY <1>1
<1>4. PICK a \in Nat : a = GP + b.pg
  BY <1>1, <1>2
<1>5. m * GPAGE_SZ \in Nat /\ a * GPAGE_SZ \in Nat
  BY <1>2
<1>6. /\ Chunk(b).addr = a * GPAGE_SZ + b.off /\ Chunk(b).len = m * GPAGE_SZ + b.len
      /\ Chunk(b) = [addr |-> a * GPAGE_SZ + b.off, len |-> m * GPAGE_SZ + b.len]
  BY <1>3, <1>4 DEF Chunk
<1>7. Chunk(b) \in [addr : Nat, len : Nat] /\ Chunk(b).len # 0
  BY <1>1, <1>5, <1>6
<1>8. (GP + b.pg + b.np) * GPAGE_SZ = a * GPAGE_SZ + m * GPAGE_SZ + GPAGE_SZ
  <2>1. GP + b.pg + b.np = a + m + 1
    BY <1>1, <1>2, <1>3, <1>4
  <2>2. (a + m + 1) * GPAGE_SZ = a * GPAGE_SZ + m * GPAGE_SZ + GPAGE_SZ
    BY <1>2
  <2> QED
    BY <2>1, <2>2
<1> QED
  BY <1>1, <1>2, <1>3, <1>4, <1>5, <1>6, <1>7, <1>8, NullAssumption

(* Blocks that do not overlap are disjoint ranges. *)
LEMMA ChunksApart ==
  ASSUME NEW a, NEW b, Shaped(a), Shaped(b), ~Overlap(a, b)
  PROVE  Promise!Disjoint(Chunk(a), Chunk(b)) /\ Chunk(a) # Chunk(b)
<1> DEFINE Below(x, y) == Chunk(x).addr + Chunk(x).len <= Chunk(y).addr
<1>0. GP \in Nat /\ GPAGE_SZ \in Nat \ {0}
  BY MetaAssumption, LayoutAssumption
<1>1. ASSUME NEW x, NEW y, Shaped(x), Shaped(y), x.pg + x.np <= y.pg PROVE Below(x, y)
  <2>1. (GP + x.pg + x.np) * GPAGE_SZ <= (GP + y.pg) * GPAGE_SZ
    <3>1. GP + x.pg + x.np \in Nat /\ GP + y.pg \in Nat /\ GP + x.pg + x.np <= GP + y.pg
      BY <1>0, <1>1 DEF Shaped
    <3> QED
      BY <1>0, <3>1, ProductOrder
  <2>2. /\ Chunk(x).addr + Chunk(x).len <= (GP + x.pg + x.np) * GPAGE_SZ
        /\ Chunk(x).addr \in Nat /\ Chunk(x).len \in Nat
    BY <1>1, ChunkShape
  <2>3. Chunk(y).addr = (GP + y.pg) * GPAGE_SZ + y.off /\ y.off \in Nat
    BY <1>1, ChunkShape DEF Shaped
  <2>4. (GP + x.pg + x.np) * GPAGE_SZ \in Nat /\ (GP + y.pg) * GPAGE_SZ \in Nat
    <3>1. GP + x.pg + x.np \in Nat /\ GP + y.pg \in Nat
      BY <1>0, <1>1 DEF Shaped
    <3> QED
      BY <1>0, <3>1
  <2> QED
    BY <2>1, <2>2, <2>3, <2>4
<1>2. ASSUME NEW x, NEW y, Shaped(x), Shaped(y), x.off + x.len <= y.off,
             x.pg < y.pg + y.np, y.pg < x.pg + x.np
      PROVE  Below(x, y)
  <2>1. x.np = 1 /\ y.np = 1 /\ x.pg = y.pg
    BY <1>0, <1>2 DEF Shaped
  <2>2. PICK p \in Nat : p = (GP + x.pg) * GPAGE_SZ
    <3>1. GP + x.pg \in Nat
      BY <1>0, <1>2 DEF Shaped
    <3> QED
      BY <1>0, <3>1
  <2>3. Chunk(x).addr = p + x.off /\ Chunk(x).len = x.len
    <3>1. (x.np - 1) * GPAGE_SZ = 0
      BY <1>0, <2>1
    <3>2. /\ Chunk(x).addr = (GP + x.pg) * GPAGE_SZ + x.off
          /\ Chunk(x).len = (x.np - 1) * GPAGE_SZ + x.len
      BY <1>2, ChunkShape
    <3>3. x.len \in Nat
      BY <1>2 DEF Shaped
    <3> QED
      BY <2>2, <3>1, <3>2, <3>3
  <2>4. Chunk(y).addr = p + y.off
    BY <1>2, <2>1, <2>2, ChunkShape
  <2> QED
    BY <1>2, <2>2, <2>3, <2>4 DEF Shaped
<1>3. \/ a.pg + a.np <= b.pg \/ b.pg + b.np <= a.pg
      \/ /\ a.pg < b.pg + b.np /\ b.pg < a.pg + a.np
         /\ a.off + a.len <= b.off \/ b.off + b.len <= a.off
  BY DEF Shaped, Overlap
<1>4. Below(a, b) \/ Below(b, a)
  BY <1>1, <1>2, <1>3
<1>5. Chunk(a) # Chunk(b)
  <2>1. Chunk(a).addr \in Nat /\ Chunk(a).len \in Nat \ {0}
    BY ChunkShape
  <2> QED
    BY <1>4, <2>1
<1> QED
  BY <1>4, <1>5 DEF Promise!Disjoint

----------------------------------------------------------------------------
LEMMA FitStep ==
  ASSUME IInv, FitInv, [Next]_vars
  PROVE  FitInv'
<1> SUFFICES ASSUME NEW u \in Thread, pc'[u] = "G_take", page'[u] # NULL
             PROVE  page'[u] \in Cand(npage(u))'
  BY DEF FitInv, Cand
<1> DEFINE Same == pc[u] = "G_take" /\ page'[u] = page[u]
                   /\ size'[u] = size[u] /\ slab'[u] = slab[u]
<1>1. ASSUME Same PROVE page'[u] \in Cand(npage(u))'
  BY <1>1 DEF FitInv, Cand, npage
<1>2. CASE UNCHANGED vars
  BY <1>1, <1>2 DEF vars, shared, local
<1>3. CASE S_init
  BY <1>1, <1>3, SlabSetUp DEF local
<1>4. ASSUME NEW t \in Thread, CallStep(t), t # u PROVE Same
  BY <1>4, OthersStay
<1>5. CASE CallStep(u)
  <2>1. G_alloc_lock(u)
    BY <1>5, OnlyLockTakes
  <2>2. UNCHANGED <<size, slab>>
    BY <2>1 DEF G_alloc_lock
  <2>3. page'[u] \in FirstFit(npage(u))
    <3>1. PICK i : /\ i \in (IF FirstFit(npage(u)) = {} THEN {NULL} ELSE FirstFit(npage(u)))
                   /\ page' = [page EXCEPT ![u] = i]
      BY <2>1 DEF G_alloc_lock
    <3>2. page'[u] = i
      BY <3>1 DEF IInv, TypeLocal
    <3> QED
      BY <3>1, <3>2
  <2> QED
    BY <2>2, <2>3 DEF FirstFit, Cand, npage
<1> QED
  BY <1>1, <1>2, <1>3, <1>4, <1>5, NextCases

(* The run that G_alloc takes is one of those its loop looks at: it starts *)
(* at a multiple of its length.                                            *)
THEOREM RunsFit == Spec => []FitInv
<1>1. Init => FitInv
  BY DEF Init, FitInv
<1>2. IInv /\ FitInv /\ [Next]_vars => FitInv'
  BY FitStep
<1> QED
  BY <1>1, <1>2, Invariance, PTL DEF Spec

----------------------------------------------------------------------------
(* What callers see of a call, now and after a step of one thread. *)
AllocPc == SmallPc \cup {"G_alloc", "G_take"}

LEMMA CallShape ==
  ASSUME NEW t \in Thread
  PROVE  /\ pc[t] = "idle" => CallOf(t) = Promise!Idle
         /\ pc[t] = "ret" /\ ret[t] = NULL => CallOf(t) = Promise!Answered(NULL)
         /\ pc[t] = "ret" /\ ret[t] # NULL => CallOf(t) = Promise!Answered(Chunk(ret[t]))
         /\ pc[t] \in FreePc => CallOf(t) = Promise!Freeing(Chunk(ptr[t]))
         /\ pc[t] \in AllocPc => CallOf(t) = Promise!Asked(size[t])
  BY DEF CallOf, FreePc, AllocPc, SmallPc, Promise!Idle, Promise!Asked, Promise!Answered, Promise!Freeing

LEMMA NextCallShape ==
  ASSUME NEW t \in Thread
  PROVE  /\ pc'[t] = "idle" => CallOf(t)' = Promise!Idle
         /\ pc'[t] = "ret" /\ ret'[t] = NULL => CallOf(t)' = Promise!Answered(NULL)
         /\ pc'[t] = "ret" /\ ret'[t] # NULL => CallOf(t)' = Promise!Answered(Chunk(ret'[t]))
         /\ pc'[t] \in FreePc => CallOf(t)' = Promise!Freeing(Chunk(ptr'[t]))
         /\ pc'[t] \in AllocPc => CallOf(t)' = Promise!Asked(size'[t])
  BY DEF CallOf, FreePc, AllocPc, SmallPc, Promise!Idle, Promise!Asked, Promise!Answered, Promise!Freeing, Chunk

LEMMA OtherReturns ==
  ASSUME IInv, NEW t \in Thread, NEW u \in Thread, t # u, CallStep(t)
  PROVE  ret'[u] = ret[u] /\ ptr'[u] = ptr[u]
<1> USE DEF IInv, TypeLocal
<1>1. ASSUME NEW s \in Requests, kalloc(t, s) PROVE ret'[u] = ret[u] /\ ptr'[u] = ptr[u]
  BY <1>1 DEF kalloc
<1>2. ASSUME NEW b \in live, kfree(t, b) PROVE ret'[u] = ret[u] /\ ptr'[u] = ptr[u]
  BY <1>2 DEF kfree
<1>3. ASSUME slab_alloc_lock(t) \/ slab_alloc_take(t) \/ S_alloc_next(t) \/ add_slab_lock(t)
             \/ Return(t) \/ G_alloc_lock(t) \/ G_alloc_take(t) \/ add_slab_link(t)
      PROVE  ret'[u] = ret[u] /\ ptr'[u] = ptr[u]
  BY <1>3 DEF slab_alloc_lock, slab_alloc_take, S_alloc_next, add_slab_lock, Return,
              G_alloc_lock, G_alloc_take, add_slab_link
<1>4. ASSUME S_free_lock(t) \/ S_free_link(t) \/ G_free_lock(t) \/ G_free_clear(t)
      PROVE  ret'[u] = ret[u] /\ ptr'[u] = ptr[u]
  BY <1>4 DEF S_free_lock, S_free_link, G_free_lock, G_free_clear
<1> QED
  BY <1>1, <1>2, <1>3, <1>4 DEF CallStep, Step

LEMMA OtherCalls ==
  ASSUME IInv, NEW t \in Thread, NEW u \in Thread, t # u, CallStep(t)
  PROVE  CallOf(u)' = CallOf(u)
<1>1. pc'[u] = pc[u] /\ size'[u] = size[u]
  BY OthersStay
<1> QED
  BY <1>1, OtherReturns DEF CallOf, Chunk

(* The refinement mapping. *)
Used  == {Chunk(b) : b \in Owned}
Calls == [t \in Thread |-> CallOf(t)]

LEMMA CallsAfter ==
  ASSUME IInv, NEW t \in Thread, CallStep(t)
  PROVE  /\ Calls' = [Calls EXCEPT ![t] = CallOf(t)']
         /\ CallOf(t)' = CallOf(t) => Calls' = Calls
<1>1. Calls' = [u \in Thread |-> CallOf(u)']
  BY DEF Calls
<1>2. \A u \in Thread : u # t => CallOf(u)' = CallOf(u)
  BY OtherCalls
<1> QED
  BY <1>1, <1>2 DEF Calls

(* A step that leaves the blocks in use and t's call as they were is       *)
(* invisible.                                                              *)
LEMMA Invisible ==
  ASSUME IInv, NEW t \in Thread, CallStep(t), Owned' = Owned, CallOf(t)' = CallOf(t)
  PROVE  UNCHANGED <<Used, Calls>>
<1>1. Calls' = Calls
  BY CallsAfter
<1>2. Used' = Used
  BY DEF Used, Chunk
<1> QED
  BY <1>1, <1>2

(* A step that adds a block nobody had, for the call it answers, grants it.*)
LEMMA Granted ==
  ASSUME IInv, IInv', NEW t \in Thread, CallStep(t), NEW b,
         pc[t] \in AllocPc, size[t] \in Served, ret[t] = NULL,
         pc'[t] = "ret", ret'[t] = b, b # NULL,
         Owned' = Owned \cup {b}, live' = live, ptr' = ptr,
         Chunk(b).len = BlockLen(size[t]), Chunk(b).addr % BlockLen(size[t]) = 0,
         b.pg + b.np <= n_meta
  PROVE  Promise!Next
<1> PICK s \in Served : s = size[t]
  OBVIOUS
<1> PICK c : c = Chunk(b)
  OBVIOUS
<1>1. Shaped(b)
  BY NextBlockShape
<1>2. c.addr \in Nat /\ c.len \in Nat \ {0} /\ c \in [addr : Nat, len : Nat]
  BY <1>1, ChunkShape
<1>3. b \notin Owned
  <2>1. b \notin live
    BY DEF IInv, OneOwner
  <2>2. \A u \in Thread : b # ptr[u]
    BY DEF IInv, OneOwner
  <2>3. \A u \in Thread : b # ret[u]
    <3> SUFFICES ASSUME NEW u \in Thread, b = ret[u] PROVE FALSE
      OBVIOUS
    <3>1. u # t /\ pc[u] = "ret" /\ ret[u] = b
      BY DEF IInv, LocalInv, LocalOK
    <3>2. ret'[u] = ret[u]
      BY <3>1, OtherReturns
    <3> QED
      BY <3>1, <3>2 DEF IInv, OneOwner
  <2> QED
    BY <2>1, <2>2, <2>3 DEF Owned
<1>4. \A x \in Used : Promise!Disjoint(c, x)
  <2> SUFFICES ASSUME NEW a \in Owned PROVE Promise!Disjoint(c, Chunk(a))
    BY DEF Used
  <2>1. ~Overlap(b, a)
    BY <1>3 DEF IInv, NoOverlap
  <2>2. Shaped(a)
    BY BlockShape
  <2> QED
    BY <1>1, <2>1, <2>2, ChunksApart
<1>5. c \in Promise!Chunk
  <2>1. GP * GPAGE_SZ <= c.addr /\ GP * GPAGE_SZ \in Nat
    <3>1. GP \in Nat /\ GPAGE_SZ \in Nat /\ b.pg \in Nat /\ b.off \in Nat
      BY <1>1, MetaAssumption, LayoutAssumption DEF Shaped
    <3>2. GP * GPAGE_SZ <= (GP + b.pg) * GPAGE_SZ /\ GP * GPAGE_SZ \in Nat
      BY <3>1, ProductOrder
    <3>3. c.addr = (GP + b.pg) * GPAGE_SZ + b.off
      BY <1>1, ChunkShape
    <3>4. (GP + b.pg) * GPAGE_SZ \in Nat
      BY <3>1
    <3> QED
      BY <3>1, <3>2, <3>3, <3>4
  <2>2. c.addr + c.len <= GP * GPAGE_SZ + HeapSize
    <3>1. GP \in Nat /\ GPAGE_SZ \in Nat /\ b.pg + b.np \in Nat /\ n_meta \in Nat
      BY <1>1, MetaAssumption, LayoutAssumption DEF Shaped
    <3>2. c.addr + c.len <= (GP + b.pg + b.np) * GPAGE_SZ
      BY <1>1, ChunkShape
    <3>3. (GP + b.pg + b.np) * GPAGE_SZ <= (GP + n_meta) * GPAGE_SZ
      <4>1. GP + b.pg + b.np \in Nat /\ GP + n_meta \in Nat /\ GP + b.pg + b.np <= GP + n_meta
        BY <1>1, <3>1 DEF Shaped
      <4> QED
        BY <3>1, <4>1, ProductOrder
    <3>4. (GP + n_meta) * GPAGE_SZ = GP * GPAGE_SZ + n_meta * GPAGE_SZ
      BY <3>1
    <3>5. (GP + b.pg + b.np) * GPAGE_SZ \in Nat /\ GP * GPAGE_SZ \in Nat /\ n_meta * GPAGE_SZ \in Nat
      <4>1. GP + b.pg + b.np \in Nat
        BY <1>1, <3>1 DEF Shaped
      <4> QED
        BY <3>1, <4>1
    <3>6. HeapSize \in Nat
      BY HeapAssumption
    <3> QED
      BY <1>2, <3>2, <3>3, <3>4, <3>5, <3>6, PagesInHeap
  <2>3. c.addr \in GP * GPAGE_SZ .. GP * GPAGE_SZ + HeapSize - 1
    BY <1>2, <2>1, <2>2, HeapAssumption
  <2>4. c.len \in {BlockLen(x) : x \in Served} /\ c.addr % c.len = 0
    OBVIOUS
  <2> QED
    BY <1>2, <2>2, <2>3, <2>4, MetaAssumption, LayoutAssumption, HeapAssumption DEF Promise!Chunk
<1>6. Calls[t] = Promise!Asked(s) /\ Calls' = [Calls EXCEPT ![t] = Promise!Answered(c)]
  <2>1. CallOf(t) = Promise!Asked(s) /\ CallOf(t)' = Promise!Answered(c)
    BY CallShape, NextCallShape
  <2>2. Calls' = [Calls EXCEPT ![t] = CallOf(t)']
    BY CallsAfter
  <2> QED
    BY <2>1, <2>2 DEF Calls
<1>7. Used' = Used \cup {c}
  BY DEF Used, Chunk
<1>8. c.len >= s /\ Promise!Aligned(c.addr, s)
  <2>1. c.len >= s /\ \A k \in 0 .. 24 : 2^k < 2 * s => c.len % 2^k = 0
    BY LengthAssumption
  <2>2. ASSUME NEW k \in 0 .. 24, 2^k < 2 * s PROVE c.addr % 2^k = 0
    <3>1. PICK d \in Nat \ {0} : d = 2^k
      BY PowerPositive
    <3>2. c.len % d = 0 /\ c.addr % c.len = 0
      BY <2>1, <2>2, <3>1
    <3>3. c.addr % d = 0
      BY <1>2, <3>1, <3>2, DividesTwice
    <3> QED
      BY <3>1, <3>3
  <2> QED
    BY <2>1, <2>2 DEF Promise!Aligned
<1>9. Promise!Grant(t, c)
  BY <1>4, <1>6, <1>7, <1>8 DEF Promise!Grant, Promise!Asked, Used, Calls
<1> QED
  BY <1>5, <1>9 DEF Promise!Next

(* A step that answers NULL refuses. *)
LEMMA Refused ==
  ASSUME IInv, NEW t \in Thread, CallStep(t), pc[t] \in AllocPc,
         pc'[t] = "ret", ret'[t] = NULL, Owned' = Owned
  PROVE  Promise!Next
<1>1. Used' = Used
  BY DEF Used, Chunk
<1>2. CallOf(t).op = "alloc" /\ Calls' = [Calls EXCEPT ![t] = Promise!Answered(NULL)]
  BY CallShape, NextCallShape, CallsAfter DEF Promise!Asked
<1>3. Promise!Refuse(t)
  BY <1>1, <1>2 DEF Promise!Refuse, Used, Calls
<1> QED
  BY <1>3 DEF Promise!Next

(* kalloc's first lines start a call, or refuse it on the spot. *)
LEMMA KallocSim ==
  ASSUME IInv, NEW t \in Thread, NEW s \in Requests, kalloc(t, s)
  PROVE  Promise!Next
<1> USE DEF IInv, TypeLocal, Goto
<1>1. CallStep(t) /\ Used' = Used
  BY CalmSteps DEF CallStep, Calm, Used, Chunk
<1>2. pc[t] = "idle" /\ ret[t] = NULL /\ ret' = ret /\ size'[t] = s
  BY DEF kalloc, LocalInv, LocalOK
<1>3. Calls[t] = Promise!Idle /\ Calls' = [Calls EXCEPT ![t] = CallOf(t)']
  BY <1>1, <1>2, CallShape, CallsAfter DEF Calls
<1>4. CASE s > MAX_ALLOC
  <2>1. pc'[t] = "ret" /\ ret'[t] = NULL
    <3>1. pc' = [pc EXCEPT ![t] = "ret"]
      BY <1>4, RequestAssumption DEF kalloc
    <3> QED
      BY <1>2, <3>1
  <2>2. CallOf(t)' = Promise!Answered(NULL)
    BY <2>1, NextCallShape
  <2>3. Promise!Reject(t)
    BY <1>1, <1>3, <2>2 DEF Promise!Reject, Used, Calls
  <2> QED
    BY <2>3 DEF Promise!Next
<1>5. CASE ~(s > MAX_ALLOC)
  <2>1. pc'[t] \in AllocPc
    BY <1>5 DEF kalloc, AllocPc, SmallPc
  <2>2. CallOf(t)' = Promise!Asked(s)
    BY <1>2, <2>1, NextCallShape
  <2>3. Promise!Alloc(t, s)
    BY <1>1, <1>3, <2>2 DEF Promise!Alloc, Used, Calls
  <2> QED
    BY <2>3 DEF Promise!Next
<1> QED
  BY <1>4, <1>5

(* kfree starts a call for a block that no other call is about.            *)
LEMMA KfreeSim ==
  ASSUME IInv, NEW t \in Thread, NEW b \in live, kfree(t, b)
  PROVE  Promise!Next
<1>1. CallStep(t) /\ Used' = Used
  BY CalmSteps DEF CallStep, Calm, Used, Chunk
<1>2. pc[t] = "idle" /\ pc'[t] \in FreePc /\ ptr'[t] = b
  BY DEF kfree, Goto, FreePc, IInv, TypeLocal
<1>3. Calls[t] = Promise!Idle /\ Calls' = [Calls EXCEPT ![t] = Promise!Freeing(Chunk(b))]
  BY <1>1, <1>2, CallShape, NextCallShape, CallsAfter DEF Calls
<1>4. b \in Owned /\ Chunk(b) \in Used /\ Shaped(b)
  <2>1. b \in Owned
    BY NullAssumption DEF IInv, TypeShared, Owned
  <2> QED
    BY <2>1, BlockShape DEF Used
<1>5. ASSUME NEW a \in Owned, a # b PROVE Chunk(a) # Chunk(b)
  BY <1>4, <1>5, BlockShape, ChunksApart DEF IInv, NoOverlap
<1>6. ASSUME NEW u \in Thread, CallOf(u).op \in {"ret", "free"} PROVE CallOf(u).blk # Chunk(b)
  <2>1. CASE pc[u] = "ret" /\ ret[u] = NULL
    BY <1>4, <2>1, CallShape, ChunkShape DEF Promise!Answered
  <2>2. CASE pc[u] = "ret" /\ ret[u] # NULL
    <3>1. ret[u] \in Owned /\ ret[u] # b
      BY <2>2 DEF Owned, IInv, OneOwner
    <3> QED
      BY <1>5, <2>2, <3>1, CallShape DEF Promise!Answered
  <2>3. CASE pc[u] \in FreePc
    <3>1. ptr[u] \in Owned /\ ptr[u] # b
      BY <2>3, FreedBlock DEF IInv, OneOwner
    <3> QED
      BY <1>5, <2>3, <3>1, CallShape DEF Promise!Freeing
  <2>4. CASE pc[u] = "idle"
    BY <1>6, <2>4, CallShape DEF Promise!Idle
  <2>5. CASE pc[u] \in AllocPc
    BY <1>6, <2>5, CallShape DEF Promise!Asked
  <2> QED
    BY <2>1, <2>2, <2>3, <2>4, <2>5 DEF IInv, TypeLocal, AllocPc
<1>7. Promise!Free(t, Chunk(b))
  BY <1>1, <1>3, <1>6 DEF Promise!Free, Used, Calls
<1> QED
  BY <1>4, <1>7 DEF Promise!Next, Used

(* The steps inside a call that only lock and read. *)
LEMMA QuietSim ==
  ASSUME IInv, NEW t \in Thread,
         \/ slab_alloc_lock(t) \/ S_alloc_next(t) \/ add_slab_lock(t)
         \/ G_alloc_lock(t) \/ S_free_lock(t) \/ G_free_lock(t)
  PROVE  UNCHANGED <<Used, Calls>>
<1> USE DEF IInv, TypeLocal, Goto
<1>1. Owned' = Owned /\ CallStep(t)
  BY CalmSteps DEF Calm, CallStep, Step
<1>2. CASE slab_alloc_lock(t) \/ S_alloc_next(t) \/ add_slab_lock(t) \/ G_alloc_lock(t)
  <2>1. pc[t] \in AllocPc /\ pc'[t] \in AllocPc /\ size' = size
    BY <1>2 DEF AllocPc, SmallPc, slab_alloc_lock, S_alloc_next, add_slab_lock, G_alloc_lock
  <2> QED
    BY <1>1, <2>1, CallShape, NextCallShape, Invisible
<1>3. CASE S_free_lock(t) \/ G_free_lock(t)
  <2>1. pc[t] \in FreePc /\ pc'[t] \in FreePc /\ ptr' = ptr
    BY <1>3 DEF FreePc, S_free_lock, G_free_lock
  <2> QED
    BY <1>1, <2>1, CallShape, NextCallShape, Invisible
<1> QED
  BY <1>2, <1>3

(* The caller gets its answer. *)
LEMMA ReturnSim ==
  ASSUME IInv, NEW t \in Thread, Return(t)
  PROVE  Promise!Next
<1>1. CallStep(t) /\ Used' = Used
  BY CalmSteps DEF CallStep, Step, Calm, Used, Chunk
<1>2. pc[t] = "ret" /\ pc'[t] = "idle"
  BY DEF Return, Goto, IInv, TypeLocal
<1>3. CallOf(t).op = "ret"
  BY <1>2, CallShape DEF Promise!Answered
<1>4. Calls' = [Calls EXCEPT ![t] = Promise!Idle]
  BY <1>1, <1>2, NextCallShape, CallsAfter
<1>5. Promise!Return(t)
  BY <1>1, <1>3, <1>4 DEF Promise!Return, Used, Calls
<1> QED
  BY <1>5 DEF Promise!Next

(* A free takes effect with the write of the free list or of Meta. *)
LEMMA FreeSim ==
  ASSUME IInv, NEW t \in Thread, S_free_link(t) \/ G_free_clear(t)
  PROVE  Promise!Next
<1> PICK b : b = ptr[t]
  OBVIOUS
<1>1. b \in Owned /\ Owned' = Owned \ {b}
  BY ObjectFreed, PagesFreed
<1>2. CallStep(t) /\ pc[t] \in FreePc /\ pc'[t] = "idle"
  BY DEF CallStep, Step, S_free_link, G_free_clear, Goto, FreePc, IInv, TypeLocal
<1>3. CallOf(t) = Promise!Freeing(Chunk(b)) /\ Calls' = [Calls EXCEPT ![t] = Promise!Idle]
  BY <1>2, CallShape, NextCallShape, CallsAfter
<1>4. Used' = Used \ {Chunk(b)}
  <2>1. \A a \in Owned : a # b => Chunk(a) # Chunk(b)
    BY <1>1, BlockShape, ChunksApart DEF IInv, NoOverlap
  <2>2. Used' = {Chunk(a) : a \in Owned \ {b}}
    BY <1>1 DEF Used, Chunk
  <2> QED
    BY <1>1, <2>1, <2>2 DEF Used
<1>5. Promise!Release(t)
  BY <1>3, <1>4 DEF Promise!Release, Promise!Freeing, Used, Calls
<1> QED
  BY <1>5 DEF Promise!Next

(* Object sizes divide the page. *)
LEMMA SizeDividesPage ==
  ASSUME NEW j \in Class, NEW c, c = ClassSize(j)
  PROVE  c \in Nat \ {0} /\ GPAGE_SZ \in Nat /\ GPAGE_SZ % c = 0
<1>1. /\ c \in Nat \ {0} /\ FirstOff(c) \in Nat /\ FirstSize(c) \in Nat
      /\ FirstOff(c) % c = 0 /\ FirstSize(c) % c = 0
  BY FreshNodes
<1>2. GPAGE_SZ = FirstOff(c) + FirstSize(c)
  BY PayloadAssumption
<1> QED
  BY <1>1, <1>2, ModSum

(* A small request is granted when slab_alloc takes the object. *)
LEMMA TakeSim ==
  ASSUME IInv, IInv', WholeInv, NEW t \in Thread, slab_alloc_take(t)
  PROVE  Promise!Next \/ UNCHANGED <<Used, Calls>>
<1> PICK s : s = slab[t]
  OBVIOUS
<1> PICK l : l = list[t]
  OBVIOUS
<1> PICK c : c = RoundSize(size[t])
  OBVIOUS
<1> PICK b : b = Object(s, [off |-> l[1].off, size |-> c])
  OBVIOUS
<1> PICK m : m = Carve(l, c)
  OBVIOUS
<1>0. CallStep(t)
  BY DEF CallStep, Step
<1>1. /\ s \in Page /\ Linked(s) /\ sz[s] = c /\ c \in Nat \ {0}
      /\ l = n_head[s] /\ l \in Seq(Node) /\ ListOK(l)
      /\ \/ n_head' = n_head /\ Owned' = Owned
         \/ /\ l # <<>> /\ l[1].size >= c
            /\ n_head' = [n_head EXCEPT ![s] = m] /\ Owned' = Owned \cup {b}
  BY ObjectTaken
<1>2. /\ pc[t] \in AllocPc /\ ret[t] = NULL /\ size' = size /\ live' = live /\ ptr' = ptr
      /\ size[t] \in Served /\ IsSmall(size[t])
  BY DEF slab_alloc_take, AllocPc, SmallPc, IInv, LocalInv, LocalOK
<1>3. \/ l = <<>> /\ pc'[t] = "S_next" /\ ret' = ret
      \/ l # <<>> /\ pc'[t] = "ret" /\ ret'[t] = b
  BY DEF slab_alloc_take, Goto, IInv, TypeLocal
<1>4. CASE l = <<>>
  <2>1. Owned' = Owned
    BY <1>1, <1>4
  <2>2. CallOf(t)' = CallOf(t)
    BY <1>2, <1>3, <1>4, CallShape, NextCallShape DEF AllocPc, SmallPc
  <2> QED
    BY <1>0, <2>1, <2>2, Invisible
<1>5. CASE l # <<>>
  <2>1. 1 \in 1 .. Len(l) /\ l[1].off \in Nat
    BY <1>1, <1>5, SeqOfNodes
  <2>2. b.pg = s /\ b.np = 1 /\ b.off = l[1].off /\ b.len = c
    BY DEF Object
  <2>3. b # NULL /\ b.pg + b.np <= n_meta
    <3>1. b \in Block
      BY <1>1, <2>1 DEF Object, Block
    <3> QED
      BY <1>1, <2>2, <3>1, NullAssumption, MetaAssumption DEF Page
  <2>4. Owned' = Owned \cup {b}
    <3>1. CASE n_head' = n_head /\ Owned' = Owned
      <4>1. b \in Owned'
        BY <1>3, <1>5, <2>3 DEF Owned
      <4> QED
        BY <3>1, <4>1
    <3> QED
      BY <1>1, <3>1
  <2>5. PICK a \in Nat : a = GP + s
    BY <1>1, MetaAssumption DEF Page
  <2>6. Chunk(b).len = c /\ Chunk(b).addr = a * GPAGE_SZ + l[1].off
    <3>1. (b.np - 1) * GPAGE_SZ = 0
      BY <2>2, LayoutAssumption
    <3>2. Chunk(b).len = (b.np - 1) * GPAGE_SZ + b.len /\ Chunk(b).addr = (GP + b.pg) * GPAGE_SZ + b.off
      BY DEF Chunk
    <3> QED
      BY <1>1, <2>2, <2>5, <3>1, <3>2
  <2>7. (a * GPAGE_SZ + l[1].off) % c = 0
    <3>1. \E j \in Class : c = ClassSize(j)
      BY <1>1 DEF IInv, LinkedInv
    <3>2. GPAGE_SZ \in Nat /\ GPAGE_SZ % c = 0
      BY <3>1, SizeDividesPage
    <3>3. PICK q \in Nat : GPAGE_SZ = q * c
      BY <1>1, <3>2, ModMult
    <3>4. a * GPAGE_SZ = (a * q) * c /\ a * q \in Nat /\ a * GPAGE_SZ \in Nat
      BY <1>1, <3>3
    <3>5. (a * GPAGE_SZ) % c = 0
      BY <1>1, <3>4, MultMod
    <3>6. l[1].off % c = 0
      BY <1>1, <2>1 DEF WholeInv, Whole
    <3> QED
      BY SMTT(30), <1>1, <2>1, <3>4, <3>5, <3>6, ModSum
  <2>8. BlockLen(size[t]) = c
    BY <1>2 DEF BlockLen
  <2> QED
    BY <1>0, <1>2, <1>3, <1>5, <2>3, <2>4, <2>6, <2>7, <2>8, Granted
<1> QED
  BY <1>4, <1>5

(* A large one is granted, or refused, when G_alloc gives its lock back.   *)
LEMMA GTakeSim ==
  ASSUME IInv, IInv', FitInv, HeapEndAligned, NEW t \in Thread, G_alloc_take(t)
  PROVE  Promise!Next \/ UNCHANGED <<Used, Calls>>
<1> PICK i : i = page[t]
  OBVIOUS
<1> PICK n : n = npage(t)
  OBVIOUS
<1>0. CallStep(t)
  BY DEF CallStep, Step
<1>1. /\ pc[t] = "G_take" /\ ret[t] = NULL /\ size' = size /\ live' = live /\ ptr' = ptr
      /\ size[t] \in Served /\ (slab[t] = NULL <=> ~IsSmall(size[t]))
  BY DEF G_alloc_take, IInv, LocalInv, LocalOK
<1>2. \/ i = NULL /\ Owned' = Owned
      \/ /\ i \in Page /\ n \in Nat \ {0}
         /\ slab[t] # NULL => Owned' = Owned
         /\ slab[t] = NULL => Owned' = Owned \cup {Pages(i, n)}
  BY PagesTaken
<1>3. CASE slab[t] # NULL
  <2>1. pc'[t] = "add_slab_link"
    BY <1>3 DEF G_alloc_take, Goto, IInv, TypeLocal
  <2>2. CallOf(t)' = CallOf(t)
    BY <1>1, <2>1, CallShape, NextCallShape DEF AllocPc, SmallPc
  <2> QED
    BY <1>0, <1>2, <1>3, <2>2, Invisible
<1>4. CASE slab[t] = NULL /\ i = NULL
  <2>1. pc'[t] = "ret" /\ ret'[t] = NULL
    BY <1>4 DEF G_alloc_take, Goto, IInv, TypeLocal
  <2>2. Owned' = Owned
    BY <1>2, <1>4, ChainsLinked
  <2> QED
    BY <1>0, <1>1, <2>1, <2>2, Refused DEF AllocPc
<1>5. CASE slab[t] = NULL /\ i # NULL
  <2> PICK b : b = Pages(i, n)
    OBVIOUS
  <2>1. pc'[t] = "ret" /\ ret'[t] = b
    BY <1>5 DEF G_alloc_take, Goto, IInv, TypeLocal
  <2>2. i \in Page /\ n \in Nat \ {0} /\ Owned' = Owned \cup {b}
    BY <1>2, <1>5
  <2>3. b.pg = i /\ b.np = n /\ b.off = 0 /\ b.len = GPAGE_SZ
    BY DEF Pages
  <2>4. GPAGE_SZ \in Nat \ {0} /\ GP \in Nat /\ n_meta \in Nat /\ i \in Nat /\ i < n_meta
    BY <2>2, LayoutAssumption, MetaAssumption DEF Page
  <2>5. b # NULL
    <3>1. b \in Block
      BY <2>2, <2>4 DEF Pages, Block
    <3> QED
      BY <3>1, NullAssumption
  <2>6. size[t] \in Large /\ n = NPage(size[t])
    BY <1>1, <1>5 DEF Large, npage
  <2>7. (GP + i) % n = 0 /\ (GP + n_meta) % n = 0
    BY <1>1, <1>5, <2>6 DEF FitInv, Cand, HeapEndAligned
  <2>8. i + n <= n_meta
    <3>1. ((GP + n_meta) - (GP + i)) % n = 0
      <4>1. GP + n_meta \in Nat /\ GP + i \in Nat /\ GP + i <= GP + n_meta
        BY <2>4
      <4> QED
        BY <2>2, <2>7, <4>1, ModSum
    <3>2. (GP + n_meta) - (GP + i) = n_meta - i /\ n_meta - i \in Nat /\ n_meta - i # 0
      BY <2>4
    <3>3. n <= n_meta - i
      <4>1. (n_meta - i) % n = 0
        BY <3>1, <3>2
      <4>2. PICK q \in Nat : n_meta - i = q * n
        BY <2>2, <3>2, <4>1, ModMult
      <4> QED
        BY <2>2, <3>2, <4>2
    <3> QED
      BY <2>2, <2>4, <3>3
  <2>9. Chunk(b).len = n * GPAGE_SZ /\ Chunk(b).addr = (GP + i) * GPAGE_SZ
    <3>1. Chunk(b).len = (b.np - 1) * GPAGE_SZ + b.len /\ Chunk(b).addr = (GP + b.pg) * GPAGE_SZ + b.off
      BY DEF Chunk
    <3>2. (n - 1) * GPAGE_SZ + GPAGE_SZ = n * GPAGE_SZ
      BY <2>2, <2>4
    <3>3. (GP + i) * GPAGE_SZ \in Nat
      <4>1. GP + i \in Nat
        BY <2>4
      <4> QED
        BY <2>4, <4>1
    <3> QED
      BY <2>3, <3>1, <3>2, <3>3
  <2>10. ((GP + i) * GPAGE_SZ) % (n * GPAGE_SZ) = 0
    <3>1. GP + i \in Nat
      BY <2>4
    <3> QED
      BY <2>2, <2>4, <2>7, <3>1, DivMultiple
  <2>11. BlockLen(size[t]) = n * GPAGE_SZ
    BY <1>1, <1>5, <2>6 DEF BlockLen
  <2> QED
    BY <1>0, <1>1, <2>1, <2>2, <2>3, <2>5, <2>8, <2>9, <2>10, <2>11, Granted DEF AllocPc
<1> QED
  BY <1>3, <1>4, <1>5

(* add_slab refuses if it got no page. *)
LEMMA LinkSim ==
  ASSUME IInv, NEW t \in Thread, add_slab_link(t)
  PROVE  Promise!Next \/ UNCHANGED <<Used, Calls>>
<1>1. /\ CallStep(t) /\ Owned' = Owned /\ size' = size
      /\ pc[t] \in AllocPc /\ ret[t] = NULL /\ ret' = ret
  BY SlabAdded DEF CallStep, Step, add_slab_link, AllocPc, SmallPc, IInv, LocalInv, LocalOK
<1>2. CASE page[t] = NULL
  <2>1. pc'[t] = "ret"
    BY <1>2 DEF add_slab_link, Goto, IInv, TypeLocal
  <2> QED
    BY <1>1, <2>1, Refused
<1>3. CASE page[t] # NULL
  <2>1. pc'[t] \in AllocPc
    BY <1>3 DEF add_slab_link, Goto, IInv, TypeLocal, AllocPc, SmallPc
  <2> QED
    BY <1>1, <2>1, CallShape, NextCallShape, Invisible
<1> QED
  BY <1>2, <1>3

----------------------------------------------------------------------------
LEMMA InitSim == Init => Promise!Init
<1> SUFFICES ASSUME Init PROVE Promise!Init
  OBVIOUS
<1>1. Owned = {}
  BY DEF Init, Owned
<1>2. \A t \in Thread : CallOf(t) = Promise!Idle
  BY CallShape DEF Init
<1> QED
  BY <1>1, <1>2 DEF Promise!Init

LEMMA StepSim ==
  ASSUME IInv, IInv', WholeInv, FitInv, HeapEndAligned, [Next]_vars
  PROVE  Promise!Next \/ UNCHANGED <<Used, Calls>>
<1>1. CASE UNCHANGED vars
  <2>1. Owned' = Owned /\ \A t \in Thread : CallOf(t)' = CallOf(t)
    BY <1>1 DEF vars, shared, local, Owned, CallOf, Chunk
  <2> QED
    BY <2>1 DEF Used, Calls, Chunk
<1>2. CASE S_init
  <2>1. Owned' = Owned /\ UNCHANGED <<local>>
    BY <1>2, SlabSetUp
  <2>2. \A t \in Thread : CallOf(t)' = CallOf(t)
    BY <2>1 DEF local, CallOf, Chunk
  <2> QED
    BY <2>1, <2>2 DEF Used, Calls, Chunk
<1>3. ASSUME NEW t \in Thread, Step(t) PROVE Promise!Next \/ UNCHANGED <<Used, Calls>>
  BY <1>3, QuietSim, TakeSim, GTakeSim, LinkSim, FreeSim, ReturnSim DEF Step
<1> QED
  BY <1>1, <1>2, <1>3, KallocSim, KfreeSim DEF Next

(* The allocator keeps the promise of PmmSpec if the heap ends where the   *)
(* largest blocks may: a block given out is aligned and large enough, lies *)
(* in the heap and shares no byte with one in use; NULL is the only other  *)
(* answer; a free gives back that block and no other.                      *)
THEOREM AllocatorKeepsPromise == ASSUME HeapEndAligned PROVE Spec => Refines
<1>1. Init => Promise!Init
  BY InitSim
<1>2. IInv /\ IInv' /\ WholeInv /\ FitInv /\ [Next]_vars => [Promise!Next]_(Promise!specVars)
  BY StepSim DEF Promise!specVars, Used, Calls
<1> QED
  BY <1>1, <1>2, Invariance, WholeObjects, RunsFit, PTL DEF Spec, Refines, Promise!Spec
=============================================================================
