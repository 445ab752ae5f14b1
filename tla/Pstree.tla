------------------------------- MODULE Pstree -------------------------------
(***************************************************************************)
(* The process tree printer, src/pstree/pstree.c: it counts the processes  *)
(* of /proc, allocates that many entries and a few more, scans /proc a     *)
(* second time to fill them, and prints the tree below process 1.  Other   *)
(* processes are created and end between any two of its steps.             *)
(* External: the kernel numbers processes upwards, readdir gives them in   *)
(* that order, the children of a process that ends go to process 1, and    *)
(* the open stat file of a process that is gone has nothing to read.       *)
(***************************************************************************)
EXTENDS Integers, Sequences, FiniteSets, SequencesExt, FiniteSetsExt

CONSTANTS
  Pid,        \* bound: the numbers the kernel has
  Alive,      \* the parent of each process there is at the start
  Spaced,     \* processes with a space in their name
  Spare       \* the 5 entries of pnum + 5 that are to spare

ASSUME PstreeAssumption ==
  /\ Pid \subseteq Nat \ {0} /\ Spare \in Nat
  /\ IsFiniteSet(DOMAIN Alive) /\ 1 \in DOMAIN Alive /\ DOMAIN Alive \subseteq Nat \ {0}
  /\ Alive \in [DOMAIN Alive -> Nat]

VARIABLES
  proc,       \* /proc: the parent of each process
  last,       \* the last number the kernel gave
  step,       \* "count", "load", "open", "scan", "print", "done", "abort" or "crash"
  at,         \* the last entry readdir gave in this scan
  pnum,
  num,        \* entries of this scan so far
  pro,        \* the array: slot -> [pid, ppid]
  shown,      \* what is printed: a sequence of <<depth, pid>>
  steady,     \* history: alive and not reparented since the start
  born        \* history: created since the count ended
pstreevars == <<proc, last, step, at, pnum, num, pro, shown, steady, born>>

PstreeInit ==
  /\ proc = Alive
  /\ last \in DOMAIN Alive /\ \A p \in DOMAIN Alive : p <= last
  /\ step = "count" /\ at = 0 /\ pnum = 0 /\ num = 0
  /\ pro = <<>> /\ shown = <<>>
  /\ steady = DOMAIN Alive
  /\ born = 0

----------------------------------------------------------------------------
(* The other processes. *)
Live == DOMAIN proc
Running == step \notin {"done", "abort", "crash"}

fork ==
  /\ Running
  /\ last' = last + 1 /\ last' \in Pid
  /\ \E parent \in Live :
       proc' = [p \in Live \cup {last'} |-> IF p = last' THEN parent ELSE proc[p]]
  /\ born' = IF step = "count" THEN born ELSE born + 1
  /\ UNCHANGED <<step, at, pnum, num, pro, shown, steady>>

exit ==
  /\ Running
  /\ \E p \in Live \ {1} :
       /\ proc' = [c \in Live \ {p} |-> IF proc[c] = p THEN 1 ELSE proc[c]]
       /\ steady' = {c \in steady \ {p} : proc[c] # p}
  /\ UNCHANGED <<last, step, at, pnum, num, pro, shown, born>>

----------------------------------------------------------------------------
(* get_pnum_load.  readdir: the next process, if there is one. *)
More == \E p \in Live : p > at
NextPid == Min({p \in Live : p > at})

count ==
  /\ step = "count"
  /\ IF More THEN /\ at' = NextPid /\ num' = num + 1
                  /\ UNCHANGED <<step, pnum>>
             ELSE /\ pnum' = num /\ num' = 0 /\ at' = 0
                  /\ step' = "load"
  /\ UNCHANGED <<proc, last, pro, shown, steady, born>>

Room_Bug == pnum

(* What malloc makes room for. *)
Room == pnum + Spare

load ==
  /\ step = "load"
  /\ IF More THEN at' = NextPid /\ step' = "open"
             ELSE step' = "print" /\ UNCHANGED at
  /\ UNCHANGED <<proc, last, pnum, num, pro, shown, steady, born>>

(* fopen: the process may be gone, and then the assert fails.              *)
open ==
  /\ step = "open"
  /\ step' = IF at \in Live THEN "scan" ELSE "abort"
  /\ UNCHANGED <<proc, last, at, pnum, num, pro, shown, steady, born>>

(* "%d %s %c %d": a name with a space ends the match before the parent,    *)
(* which stays 0, as malloc's fresh memory is.                             *)
Scanned == [pid |-> at, ppid |-> IF at \in Spaced THEN 0 ELSE proc[at]]

(* fscanf and rm_paren, which runs over the stack if there was no name.    *)
fscanf ==
  /\ step = "scan"
  /\ IF at \in Live
     THEN pro' = Append(pro, Scanned) /\ num' = num + 1 /\ step' = "load"
     ELSE step' = "crash" /\ UNCHANGED <<pro, num>>
  /\ UNCHANGED <<proc, last, at, pnum, shown, steady, born>>

process == [pid : Nat, ppid : Nat]

(* The first pnum entries, some of them perhaps still 0. *)
Entry(i) == IF i <= Len(pro) THEN pro[i] ELSE [pid |-> 0, ppid |-> 0]
Entries == [i \in 1 .. pnum |-> Entry(i)]

pro_sort(es) == SortSeq(es, LAMBDA e, f : e.pid < f.pid)

Children(es, id) == {j \in DOMAIN es : es[j].ppid = id}

(* The lines for id, one entry at a time; depth is at most pnum. *)
print_pro[es \in Seq(process), id \in Nat, depth \in Nat] ==
  LET Below == SetToSortSeq(Children(es, id), <)
      Sub(lines, j) == lines \o print_pro[es, es[j].pid, depth + 1]
      At(lines, e) == IF e.pid = id THEN FoldLeft(Sub, Append(lines, <<depth, id>>), Below) ELSE lines
  IN  FoldLeft(At, <<>>, es)

Tree(num_sort) == print_pro[IF num_sort THEN pro_sort(Entries) ELSE Entries, 1, 0]

print(num_sort) ==
  /\ step = "print" /\ step' = "done"
  /\ shown' = Tree(num_sort)
  /\ UNCHANGED <<proc, last, at, pnum, num, pro, steady, born>>

PstreeNext == fork \/ exit \/ count \/ load \/ open \/ fscanf \/ \E num_sort \in BOOLEAN : print(num_sort)

PstreeSpec == PstreeInit /\ [][PstreeNext]_pstreevars

----------------------------------------------------------------------------
(* A process whose ancestors too have all been there throughout, and one   *)
(* whose line of ancestors fscanf can follow.                              *)
Stayed[p \in DOMAIN Alive] == p \in steady /\ (p = 1 \/ Stayed[Alive[p]])
Rooted[p \in DOMAIN Alive] == p = 1 \/ (p \notin Spaced /\ Rooted[Alive[p]])

Depth[p \in DOMAIN Alive] == IF p = 1 THEN 0 ELSE 1 + Depth[Alive[p]]

(* The second scan does not write past the array, unless more processes    *)
(* than it has to spare were created after the count.                      *)
RoomSuffices == born <= Spare => Len(pro) <= Room

(* p stands once in the tree, below its parent and one level deeper.       *)
StandsOnce(p) ==
  \E i \in DOMAIN shown :
    /\ shown[i] = <<Depth[p], p>>
    /\ \A j \in DOMAIN shown : shown[j][2] = p => j = i
    /\ p # 1 => /\ \E j \in 1 .. i - 1 : shown[j][2] = Alive[p]
                /\ \A j \in 1 .. i - 1 : \A k \in j + 1 .. i - 1 :
                     shown[j][2] = Alive[p] => shown[k][1] >= Depth[p]

(* If no process ends just as it is being read, a tree is printed, and in  *)
(* it each process that stayed stands once and in its place, whatever      *)
(* others come and go; except that a process with a space in its name is   *)
(* missing, with all below it.  The array has room for the second scan.    *)
TreePrinted ==
  /\ RoomSuffices
  /\ step = "done" =>
       \A p \in {q \in DOMAIN Alive : Stayed[q]} :
         IF Rooted[p] THEN StandsOnce(p) ELSE \A i \in DOMAIN shown : shown[i][2] # p
=============================================================================
