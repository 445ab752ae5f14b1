------------------------------ MODULE NativeVme -----------------------------
(***************************************************************************)
(* Address spaces on the host, src/abstract-machine/am/src/native/vme.c:   *)
(* a list of PageMaps per space, found by address in a hash table, and     *)
(* brought into a host process by mmap when the processor it plays         *)
(* switches to the space.                                                  *)
(*                                                                         *)
(* A PageMap is named by its address.  The PageMaps, is_mapped included,   *)
(* are in memory all processors share; what is mapped is each process's    *)
(* own.  Where the hash table is (hcreate_r's memory belongs to one        *)
(* process) is left out.                                                   *)
(***************************************************************************)
EXTENDS Integers, Null

CONSTANTS
  Cpu, VmHead,     \* processors; spaces
  Page,            \* addresses of user pages
  Phys, Prot       \* physical pages; access rights

PageMap == [pa : Phys, prot : Prot, next : Page \cup {NULL}, is_mapped : BOOLEAN]

ASSUME NativeVmeAssumption == NULL \notin VmHead \cup Page \cup PageMap

VARIABLES
  maps,      \* per space, its PageMaps by address: pa, prot, next and is_mapped, or NULL
  head,      \* per space, the first of its list
  protected, \* the spaces protect was called for
  vm_head,   \* per processor, the space it has switched to, or NULL
  mapped,    \* per processor, what is mapped in its process
  stuck,     \* processors that walk a list without an end
  again,     \* history: spaces where an address was mapped a second time
  apart      \* history: a space was used by two processors at a time

nativevars == <<maps, head, protected, vm_head, mapped, stuck, again, apart>>

Nothing == [v \in {} |-> NULL]

NativeInit ==
  /\ maps = [s \in VmHead |-> [v \in Page |-> NULL]]
  /\ head = [s \in VmHead |-> NULL]
  /\ protected = {}
  /\ vm_head = [c \in Cpu |-> NULL]
  /\ mapped = [c \in Cpu |-> Nothing]
  /\ stuck = {} /\ again = {} /\ apart = FALSE

(* list_foreach from a PageMap of m: it comes to the ones that are in      *)
(* every set next does not lead out of, and to an end if one has no next.  *)
Closed(m, S) == \A w \in S : m[w] # NULL => m[w].next \in S \cup {NULL}
From(m, v) == {u \in Page : \A S \in SUBSET Page : v \in S \cup {NULL} /\ Closed(m, S) => u \in S}
list_foreach(s) ==
  LET over == IF s = NULL THEN {} ELSE From(maps[s], head[s])
  IN  [ends |-> over = {} \/ \E v \in over : maps[s][v].next = NULL, over |-> over]

With(f, g) == [v \in DOMAIN f \cup DOMAIN g |-> IF v \in DOMAIN g THEN g[v] ELSE f[v]]
Access(s, v) == [pa |-> maps[s][v].pa, prot |-> maps[s][v].prot]

native_protect(s) ==
  /\ s \notin protected
  /\ protected' = protected \cup {s}
  /\ UNCHANGED <<maps, head, vm_head, mapped, stuck, again, apart>>

SetMapped(m, s, vs, b) ==
  IF s = NULL THEN m
  ELSE [m EXCEPT ![s] = [v \in Page |-> IF v \in vs THEN [@[v] EXCEPT !.is_mapped = b] ELSE @[v]]]

Unmapped_Bug(s, v) == FALSE
Unmapped(s, v) == maps[s][v].is_mapped

(* __am_switch: munmap what the old space's list says is mapped, then mmap *)
(* the new space's list.                                                   *)
am_switch(c, s) ==
  LET old  == list_foreach(vm_head[c])
      gone == {v \in old.over : Unmapped(vm_head[c], v)}
      left == [v \in DOMAIN mapped[c] \ gone |-> mapped[c][v]]
      new  == list_foreach(s)
  IN
  /\ c \notin stuck
  /\ s \in protected \cup {NULL} /\ s # vm_head[c]
  /\ IF ~old.ends
     THEN /\ maps' = SetMapped(maps, vm_head[c], gone, FALSE)
          /\ mapped' = [mapped EXCEPT ![c] = left]
     ELSE /\ maps' = SetMapped(SetMapped(maps, vm_head[c], gone, FALSE), s, new.over, TRUE)
          /\ mapped' = [mapped EXCEPT ![c] = With(left, [v \in new.over |-> Access(s, v)])]
  /\ IF old.ends /\ new.ends
     THEN vm_head' = [vm_head EXCEPT ![c] = s] /\ UNCHANGED stuck
     ELSE stuck' = stuck \cup {c} /\ UNCHANGED vm_head
  /\ apart' = (apart \/ \E d \in Cpu : s # NULL /\ vm_head[d] = s)
  /\ UNCHANGED <<head, protected, again>>

(* "enforce the map immediately" *)
Now(c, s) == s = vm_head[c]

(* map: the PageMap, new or found, goes to the head of the list. *)
native_map(c, s, v, pa, prot) ==
  /\ c \notin stuck /\ s \in protected
  /\ maps' = [maps EXCEPT ![s][v] =
                [pa |-> pa, prot |-> prot, next |-> head[s], is_mapped |-> Now(c, s)]]
  /\ head' = [head EXCEPT ![s] = v]
  /\ mapped' = IF Now(c, s)
               THEN [mapped EXCEPT ![c] = With(@, [u \in {v} |-> [pa |-> pa, prot |-> prot]])]
               ELSE mapped
  /\ again' = IF maps[s][v] # NULL THEN again \cup {s} ELSE again
  /\ apart' = (apart \/ \E d \in Cpu \ {c} : vm_head[d] = s)
  /\ UNCHANGED <<protected, vm_head, stuck>>

(* Followed until two processors use one space: nothing in the code keeps  *)
(* them from it, and nothing is promised then.                             *)
NativeNext ==
  /\ ~apart
  /\ \/ \E s \in VmHead : native_protect(s)
     \/ \E c \in Cpu, s \in VmHead \cup {NULL} : am_switch(c, s)
     \/ \E c \in Cpu, s \in VmHead, v \in Page, pa \in Phys, prot \in Prot :
          native_map(c, s, v, pa, prot)

NativeVmeSpec == NativeInit /\ [][NativeNext]_nativevars

----------------------------------------------------------------------------
(* Properties *)

(* As long as a space is used by one processor at a time, each process has *)
(* exactly the pages of the space its processor is in, with the last map   *)
(* of each: none is left from the space before, though is_mapped, which    *)
(* decides what is unmapped, is one flag for all processes.  Not followed  *)
(* is a processor that __am_switch does not return to: the list of a space *)
(* has a cycle just when an address was mapped twice, which is also how    *)
(* x86's map takes a page away.                                            *)
NativeShows ==
  /\ \A s \in VmHead : list_foreach(s).ends <=> s \notin again
  /\ ~apart => \A c \in Cpu \ stuck :
       LET s == vm_head[c] IN
       mapped[c] = IF s = NULL THEN Nothing
                   ELSE [v \in {u \in Page : maps[s][u] # NULL} |-> Access(s, v)]
=============================================================================
