------------------------------- MODULE X86Vme -------------------------------
(***************************************************************************)
(* Address spaces as page tables, src/abstract-machine/am/src/x86/qemu/    *)
(* vme.c, in the 32-bit build, where vme_init builds the kernel's tables:  *)
(* mmu has two levels, a directory and the tables it leads to.             *)
(*                                                                         *)
(* A virtual address is the pair of its indices.  A panic halts the        *)
(* machine.                                                                *)
(***************************************************************************)
EXTENDS Integers, Null

CONSTANTS
  Spaces,          \* the AddrSpace structures
  Frame,           \* pages
  Data,            \* the ones the system has allocated to be mapped
  Kernel, User,    \* the directory's indices of the kernel's areas and of uvm_area
  Index            \* the indices of a table

KernelVa == Kernel \X Index
UserVa   == User \X Index

Empty == [p |-> FALSE, u |-> FALSE, w |-> FALSE, to |-> NULL]
Entry(to, u, w) == [p |-> TRUE, u |-> u, w |-> w, to |-> to]
NoEntries == [i \in Kernel \cup User \cup Index |-> Empty]

(* The pages vme_init takes: one for each of the kernel's tables, and one  *)
(* (NULL's) for its directory.                                             *)
Taken(t) ==
  /\ t \in [Kernel \cup {NULL} -> Frame \ Data]
  /\ \A i, j \in DOMAIN t : t[i] = t[j] => i = j

(* With fewer pages vme_init panics, and there is no system. *)
ASSUME X86VmeAssumption ==
  /\ Data \subseteq Frame /\ Kernel \cap User = {}
  /\ \E t \in [Kernel \cup {NULL} -> Frame \ Data] : Taken(t)
  /\ NULL \notin Spaces \cup Kernel \cup User
  /\ \A D \in SUBSET UserVa : NULL \notin [D -> [to : Data, write : BOOLEAN]]

VARIABLES
  ptr,    \* per space, as->ptr: the entry for its directory
  pt,     \* the entries of every page
  used,   \* what pgalloc gave out
  twice,  \* a page was freed that was free
  panic,  \* the machine halted
  live,   \* the spaces between protect and unprotect
  space   \* what user code of each space can reach: the processor's view

x86vars == <<ptr, pt, used, twice, panic, live, space>>

(* pgalloc gives some free page; external. *)
pgalloc == CHOOSE f \in Frame : f \notin used
NoPage  == Frame \subseteq used

indexof(va, level) == va[level]

(* ptwalk: a table that is missing on the way is allocated, and stays.     *)
(* The result is the pages after it and the table with the entry for va.   *)
ptwalk(s, va) ==
  LET dir == ptr[s].to
      e   == pt[dir][indexof(va, 1)]
  IN  IF e.p THEN [pt |-> pt, used |-> used, table |-> e.to]
      ELSE [pt    |-> [pt EXCEPT ![pgalloc] = NoEntries,
                                 ![dir][indexof(va, 1)] = Entry(pgalloc, TRUE, TRUE)],
            used  |-> used \cup {pgalloc},
            table |-> pgalloc]

Missing(s, va) == ~pt[ptr[s].to][indexof(va, 1)].p

(* The processor's own walk; external.  Each level must be present, and    *)
(* user mode needs PTE_U, to write PTE_W too, on every level below CR3.    *)
Translate(s, va) ==
  LET e1 == pt[ptr[s].to][va[1]]
      e2 == pt[e1.to][va[2]]
  IN  IF ptr[s].p /\ e1.p /\ e2.p THEN Entry(e2.to, e1.u /\ e2.u, e1.w /\ e2.w) ELSE Empty

Seen(s) ==
  [va \in {v \in UserVa : Translate(s, v).p /\ Translate(s, v).u} |->
     [to |-> Translate(s, va).to, write |-> Translate(s, va).w]]

View == [s \in Spaces |-> IF s \in live THEN Seen(s) ELSE NULL]

(* Every kernel address is mapped to itself, in tables without PTE_U. *)
ktable == CHOOSE t \in [Kernel \cup {NULL} -> Frame \ Data] : Taken(t)
kpt == ktable[NULL]
KernelDir == [i \in DOMAIN NoEntries |-> IF i \in Kernel THEN Entry(ktable[i], FALSE, TRUE) ELSE Empty]
KernelTable(k) == [i \in DOMAIN NoEntries |-> IF i \in Index THEN Entry(<<k, i>>, FALSE, TRUE) ELSE Empty]

vme_init ==
  /\ pt = [f \in Frame |->
             IF f = kpt THEN KernelDir
             ELSE IF \E k \in Kernel : ktable[k] = f
                  THEN KernelTable(CHOOSE k \in Kernel : ktable[k] = f)
                  ELSE NoEntries]
  /\ used = Data \cup {ktable[i] : i \in DOMAIN ktable}

X86Init ==
  /\ vme_init
  /\ ptr = [s \in Spaces |-> Empty]
  /\ twice = FALSE /\ panic = FALSE
  /\ live = {}
  /\ space = View

PanicOnPage ==
  /\ panic' = TRUE
  /\ UNCHANGED <<ptr, pt, used, twice, live>>

(* The kernel's entries of the directory are copied, so its tables are     *)
(* shared.                                                                 *)
protect(s) ==
  /\ s \notin live
  /\ \/ NoPage /\ PanicOnPage
     \/ /\ ~NoPage
        /\ pt' = [pt EXCEPT ![pgalloc] =
                    [i \in DOMAIN NoEntries |-> IF i \in Kernel THEN pt[kpt][i] ELSE Empty]]
        /\ used' = used \cup {pgalloc}
        /\ ptr' = [ptr EXCEPT ![s] = Entry(pgalloc, TRUE, FALSE)]
        /\ live' = live \cup {s}
        /\ UNCHANGED <<twice, panic>>

TornDown_Bug(e) == e.p
(* Kernel tables are shared by all spaces; they lack PTE_U. *)
TornDown(e) == e.p /\ e.u

(* teardown frees the tables, then their directory.  A free page's         *)
(* contents are nobody's: pgallocz clears them before use.  The code       *)
(* leaves as->ptr as it is; a space is not used after it, until protect    *)
(* sets it again.                                                          *)
unprotect(s) ==
  LET dir   == ptr[s].to
      below == {i \in DOMAIN NoEntries : TornDown(pt[dir][i])}
      freed == {dir} \cup {pt[dir][i].to : i \in below}
  IN
  /\ s \in live
  /\ used' = used \ freed
  /\ twice' = (\/ twice \/ ~(freed \subseteq used)
               \/ \E i \in below : pt[dir][i].to = dir
               \/ \E i, j \in below : i # j /\ pt[dir][i].to = pt[dir][j].to)
  /\ pt' = [f \in Frame |-> IF f \in freed THEN NoEntries ELSE pt[f]]
  /\ ptr' = [ptr EXCEPT ![s] = Empty]
  /\ live' = live \ {s}
  /\ UNCHANGED panic

Refused_Bug(old, e) == FALSE
Refused(old, e) == old.p = e.p

(* Both kinds of map: an entry is set only if it was empty, and emptied    *)
(* only if it was set.                                                     *)
SetEntry(s, va, e) ==
  /\ s \in live
  /\ \/ Missing(s, va) /\ NoPage /\ PanicOnPage
     \/ LET at  == ptwalk(s, va)
            old == at.pt[at.table][indexof(va, 2)]
        IN
        /\ ~(Missing(s, va) /\ NoPage)
        /\ used' = at.used
        /\ \/ /\ Refused(old, e)
              /\ panic' = TRUE
              /\ pt' = at.pt
           \/ /\ ~Refused(old, e)
              /\ pt' = [at.pt EXCEPT ![at.table][indexof(va, 2)] = e]
              /\ UNCHANGED panic
        /\ UNCHANGED <<ptr, twice, live>>

map(s, va, pa, w) == SetEntry(s, va, Entry(pa, TRUE, w))
unmap(s, va)      == SetEntry(s, va, Empty)

X86Next ==
  /\ ~panic
  /\ \E s \in Spaces :
       \/ protect(s) \/ unprotect(s)
       \/ \E va \in UserVa : unmap(s, va) \/ \E pa \in Data, w \in BOOLEAN : map(s, va, pa, w)
  /\ space' = View'

X86VmeSpec == X86Init /\ [][X86Next]_x86vars

----------------------------------------------------------------------------
(* Properties *)

Abstract == INSTANCE AddrSpaces WITH
  Va <- UserVa, Pa <- Data

(* What user code of a space can reach, by the processor's walk of the     *)
(* tables, is what map was told and nothing else changes it: not the       *)
(* tables of another space, a teardown, nor a page used again (vme.c's     *)
(* protect, unprotect and map implement AddrSpaces).                       *)
X86Maps == Abstract!Spec

TablesOf(dir, u) ==
  {dir} \cup {pt[dir][i].to : i \in {j \in DOMAIN NoEntries : pt[dir][j].p /\ pt[dir][j].u = u}}

(* Every page that vme.c took is a table of exactly one live space or of   *)
(* the kernel: unprotect frees all tables of its space, once, and neither  *)
(* the user's pages nor the kernel's tables, which every space still has.  *)
TablesExact ==
  LET of == [s \in live \cup {NULL} |->
               IF s = NULL THEN TablesOf(kpt, FALSE) ELSE TablesOf(ptr[s].to, TRUE)]
  IN
  /\ ~twice
  /\ used = Data \cup UNION {of[s] : s \in DOMAIN of}
  /\ \A s, t \in DOMAIN of : of[s] \cap Data = {} /\ (s # t => of[s] \cap of[t] = {})
  /\ \A s \in live, va \in KernelVa : Translate(s, va) = Entry(va, FALSE, TRUE)
=============================================================================
