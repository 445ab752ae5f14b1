------------------------------- MODULE Sperf -------------------------------
(***************************************************************************)
(* The system call profiler, src/sperf/sperf.c: a child becomes strace and *)
(* writes a line for each call into a pipe; the parent reads the lines,    *)
(* adds up the time of each call and, once a second and at the end, sorts  *)
(* its table in place and prints the top of it.                            *)
(* A line is [name, us]: the name NULL stands for a line without "(" or    *)
(* with a name too long, us = 0 for a line without a time in <>.           *)
(***************************************************************************)
EXTENDS Integers, Sequences, FiniteSets, SequencesExt, Functions, Null

CONSTANTS
  Name, Us,       \* the calls and the times they take
  CALL_SZ,
  TOP,            \* the 5 of the top five
  MaxCalls,       \* bound: lines strace writes
  Path            \* the number of directories in PATH

VARIABLES
  child,    \* "exec", "strace" or "gone"
  token,    \* the directory of PATH that is tried next
  pipe,     \* the lines not yet read
  wrote,    \* history: all lines written
  Calls,    \* slot -> [name, us]
  printed,  \* the last report: a sequence of [name, ratio] (NULL: none)
  parent    \* "getline", "done" or "abort"
sperfvars == <<child, token, pipe, wrote, Calls, printed, parent>>

Free == [name |-> NULL, us |-> 0]

SperfInit ==
  /\ child = "exec" /\ token = 1
  /\ pipe = <<>> /\ wrote = <<>>
  /\ Calls = [i \in 1 .. CALL_SZ |-> Free]
  /\ printed = NULL /\ parent = "getline"

(* The child tries strace in each directory, and gives up after the last.  *)
execve ==
  /\ child = "exec"
  /\ \/ child' = "strace" /\ UNCHANGED token
     \/ /\ token' = token + 1
        /\ child' = IF token = Path THEN "gone" ELSE "exec"
  /\ UNCHANGED <<pipe, wrote, Calls, printed, parent>>

Ignored == {[name |-> NULL, us |-> 1], [name |-> CHOOSE n \in Name : TRUE, us |-> 0]}

(* External: what strace writes while the traced program runs. *)
strace ==
  /\ child = "strace"
  /\ \/ /\ Len(wrote) < MaxCalls
        /\ \E l \in [name : Name, us : Us] \cup Ignored :
             pipe' = Append(pipe, l) /\ wrote' = Append(wrote, l)
        /\ UNCHANGED child
     \/ child' = "gone" /\ UNCHANGED <<pipe, wrote>>
  /\ UNCHANGED <<token, Calls, printed, parent>>

----------------------------------------------------------------------------
(* The first slot that is free or has the name (0: neither). *)
Slot(t, name) ==
  LET S == {i \in DOMAIN t : t[i].name \in {NULL, name}}
  IN  IF S = {} THEN 0 ELSE CHOOSE i \in S : \A j \in S : i <= j

call_add(name, us) ==
  LET i == Slot(Calls, name)
  IN  [Calls EXCEPT ![i] = IF @.name = NULL THEN [name |-> name, us |-> us]
                                            ELSE [@ EXCEPT !.us = @ + us]]

Before_Bug(t, i, j) == t[i].us > t[j].us
Before(t, i, j) == t[i].us < t[j].us

(* The loops over i and j. *)
Pairs == SetToSortSeq({p \in (1 .. CALL_SZ) \X (1 .. CALL_SZ) : p[1] < p[2]},
                      LAMBDA p, q : p[1] < q[1] \/ (p[1] = q[1] /\ p[2] < q[2]))

(* Exchanges, for each i, with every later j that is larger. *)
call_sort(t) ==
  LET Swap(u, p) == IF Before(u, p[1], p[2])
                    THEN [u EXCEPT ![p[1]] = u[p[2]], ![p[2]] = u[p[1]]] ELSE u
  IN  FoldLeft(Swap, t, Pairs)

Total(t) == FoldFunction(LAMBDA e, s : s + e.us, 0, t)

call_print_top5(t) ==
  LET s == call_sort(t)
      upto == CHOOSE k \in 0 .. TOP : /\ \A i \in 1 .. k : s[i].name # NULL
                                      /\ k < TOP => s[k + 1].name = NULL
  IN  /\ Calls' = s
      /\ printed' = [i \in 1 .. upto |->
                       [name |-> s[i].name, ratio |-> (s[i].us * 100) \div Total(s)]]

(* getline: a line, or the end of the file once strace is gone and the     *)
(* pipe empty.  The clock decides whether a report is due.                 *)
getline ==
  /\ parent = "getline"
  /\ \/ /\ pipe # <<>>
        /\ LET l == Head(pipe)
           IN  \/ (l.name = NULL \/ l.us = 0) /\ UNCHANGED <<Calls, printed, parent>>
               \/ /\ l.name # NULL /\ l.us # 0
                  /\ Slot(Calls, l.name) = 0
                  /\ parent' = "abort" /\ UNCHANGED <<Calls, printed>>
               \/ /\ l.name # NULL /\ l.us # 0
                  /\ Slot(Calls, l.name) # 0
                  /\ \/ Calls' = call_add(l.name, l.us) /\ UNCHANGED printed
                     \/ call_print_top5(call_add(l.name, l.us))
                  /\ UNCHANGED parent
        /\ pipe' = Tail(pipe)
     \/ /\ pipe = <<>> /\ child = "gone"
        /\ call_print_top5(Calls)
        /\ parent' = "done"
        /\ UNCHANGED pipe
  /\ UNCHANGED <<child, token, wrote>>

SperfNext == execve \/ strace \/ getline

----------------------------------------------------------------------------
Timed(n) == SelectSeq(wrote, LAMBDA l : l.name = n)
Spent(n) == FoldLeft(LAMBDA s, l : s + l.us, 0, Timed(n))

(* The last report lists the calls that took the most time of all that     *)
(* strace wrote, in order and with their share of it, and as many as there *)
(* are up to five; sorting the table after each report, in the middle of   *)
(* the stream, has not made it lose or double an entry.  It gives up only  *)
(* at a call for which the table, with CALL_SZ others in it, has no room.  *)
TableExact ==
  /\ parent = "abort" =>
       Cardinality({l.name : l \in {wrote[i] : i \in 1 .. Len(wrote) - Len(pipe)} \ Ignored}) > CALL_SZ
  /\ parent = "done" =>
    LET Known == {n \in Name : Spent(n) > 0}
        all == FoldLeft(LAMBDA s, l : IF l.name = NULL THEN s ELSE s + l.us, 0, wrote)
    IN  /\ Len(printed) = IF Cardinality(Known) < TOP THEN Cardinality(Known) ELSE TOP
        /\ \A i \in DOMAIN printed :
             /\ printed[i].name \in Known
             /\ printed[i].ratio = (Spent(printed[i].name) * 100) \div all
             /\ \A n \in Known \ {printed[j].name : j \in 1 .. i} :
                  Spent(n) <= Spent(printed[i].name)
        /\ IsInjective([i \in DOMAIN printed |-> printed[i].name])
=============================================================================
