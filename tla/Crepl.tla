------------------------------- MODULE Crepl -------------------------------
(***************************************************************************)
(* The C read-eval-print loop, src/crepl/crepl.c.  A session keeps its     *)
(* lines in a file of its own, but all sessions build and load the same    *)
(* /tmp/libcrepl.so.  The compiler and the loader are external: gcc        *)
(* refuses a file that defines a name twice and then leaves the library as *)
(* it was; dlopen of a library that is still open gives the open one.      *)
(* A definition is [name, id, uses]: the name it defines, which line it    *)
(* came from, and the functions it calls.                                  *)
(***************************************************************************)
EXTENDS Integers, Sequences, FiniteSets, SequencesExt, Null

CONSTANTS
  Session,      \* numbers from 1
  Func,         \* the functions users define
  MaxLines      \* bound: lines typed in a session

(* No function has the name that crepl makes up for expressions.  What     *)
(* session 0 built was left by an earlier run.                             *)
ASSUME CreplAssumption ==
  /\ Session \subseteq Nat \ {0}
  /\ "__expr_wrapper_" \notin Func
  /\ MaxLines \in Nat

VARIABLES
  pc,         \* where a session stands
  line,       \* the line it works on: [name, id, uses] (NULL: none)
  nexp,
  file,       \* the session's file: the definitions appended so far
  lib,        \* libcrepl.so: a set of definitions (NULL: no such file)
  handle,     \* the library a session has open (NULL: none)
  opens,      \* how often it has opened it and not closed it
  answer,     \* [asked, got]: the last expression answered
  typed,      \* history: lines typed so far
  foreign     \* history: has loaded a library that another session built
creplvars == <<pc, line, nexp, file, lib, handle, opens, answer, typed, foreign>>

(* What an earlier session may have left in /tmp. *)
Leftover == {[name |-> <<"__expr_wrapper_", 0>>, id |-> <<0, 0>>, uses |-> {}]}

CreplInit ==
  /\ pc = [s \in Session |-> "prompt"]
  /\ line = [s \in Session |-> NULL]
  /\ nexp = [s \in Session |-> 0]
  /\ file = [s \in Session |-> <<>>]
  /\ lib \in {NULL, Leftover}
  /\ handle = [s \in Session |-> NULL]
  /\ opens = [s \in Session |-> 0]
  /\ answer = [s \in Session |-> NULL]
  /\ typed = [s \in Session |-> 0]
  /\ foreign = [s \in Session |-> FALSE]

Goto(s, l) == pc' = [pc EXCEPT ![s] = l]
Names(defs) == {d.name : d \in defs}

Wrapper_Bug(n) == <<"__expr_wrapper_", 0>>
Wrapper(n) == <<"__expr_wrapper_", n>>

(* main: fgets, is_func, and the names expr_handler makes up; or the end. *)
fgets(s) ==
  /\ pc[s] = "prompt"
  /\ \/ /\ typed[s] < MaxLines
        /\ LET id == <<s, typed[s]>>
           IN  \/ \E f \in Func : line' = [line EXCEPT ![s] = [name |-> <<f, 0>>, id |-> id, uses |-> {}]]
                                  /\ UNCHANGED nexp
               \/ \E u \in SUBSET (Func \X {0}) :
                    /\ line' = [line EXCEPT ![s] = [name |-> Wrapper(nexp[s]), id |-> id, uses |-> u]]
                    /\ nexp' = [nexp EXCEPT ![s] = @ + 1]
        /\ typed' = [typed EXCEPT ![s] = @ + 1]
        /\ Goto(s, "valid")
     \/ Goto(s, "end") /\ UNCHANGED <<line, nexp, typed>>
  /\ UNCHANGED <<file, lib, handle, opens, answer, foreign>>

(* is_valid: gcc on the line alone. *)
is_valid(s) ==
  /\ pc[s] = "valid"
  /\ Goto(s, "prompt") \/ Goto(s, "append")
  /\ UNCHANGED <<line, nexp, file, lib, handle, opens, answer, typed, foreign>>

append(s) ==
  /\ pc[s] = "append"
  /\ file' = [file EXCEPT ![s] = Append(@, line[s])]
  /\ Goto(s, "gcc")
  /\ UNCHANGED <<line, nexp, lib, handle, opens, answer, typed, foreign>>

Compiles(f) == IsInjective([i \in DOMAIN f |-> f[i].name])

IsExpr(s) == line[s].name[1] \notin Func

(* The rest of func_handler: gcc on the whole file, its status not looked  *)
(* at.  A function line is done then.                                      *)
gcc(s) ==
  /\ pc[s] = "gcc"
  /\ IF Compiles(file[s])
     THEN lib' = ToSet(file[s])
     ELSE UNCHANGED lib
  /\ Goto(s, IF IsExpr(s) THEN "dlopen" ELSE "prompt")
  /\ UNCHANGED <<line, nexp, file, handle, opens, answer, typed, foreign>>

(* A library that is open already is opened once more, as it was. *)
dlopen(s) ==
  /\ pc[s] = "dlopen"
  /\ LET h == IF handle[s] # NULL THEN handle[s] ELSE lib
     IN  /\ handle' = [handle EXCEPT ![s] = h]
         /\ opens' = [opens EXCEPT ![s] = IF h = NULL THEN @ ELSE @ + 1]
         /\ foreign' = [foreign EXCEPT ![s] = @ \/ (h # NULL /\ \E d \in h : d.id[1] # s)]
         /\ Goto(s, IF h = NULL THEN "prompt" ELSE "dlsym")
  /\ UNCHANGED <<line, nexp, file, lib, answer, typed>>

(* Without the wrapper the handle stays open.  With it the call is made    *)
(* and the handle closed, which unloads the library if it was opened once; *)
(* a function that is nowhere ends the process.                            *)
dlsym(s) ==
  /\ pc[s] = "dlsym"
  /\ \/ /\ line[s].name \notin Names(handle[s])
        /\ Goto(s, "prompt")
        /\ UNCHANGED <<handle, opens, answer>>
     \/ \E d \in handle[s] :
          /\ d.name = line[s].name
          /\ IF d.uses \subseteq Names(handle[s])
             THEN /\ answer' = [answer EXCEPT ![s] = [asked |-> line[s].id, got |-> d.id]]
                  /\ opens' = [opens EXCEPT ![s] = @ - 1]
                  /\ handle' = [handle EXCEPT ![s] = IF opens[s] = 1 THEN NULL ELSE @]
                  /\ Goto(s, "prompt")
             ELSE Goto(s, "end") /\ UNCHANGED <<handle, opens, answer>>
  /\ UNCHANGED <<line, nexp, file, lib, typed, foreign>>

CreplNext ==
  \E s \in Session :
    fgets(s) \/ is_valid(s) \/ append(s) \/ gcc(s) \/ dlopen(s) \/ dlsym(s)

CreplSpec == CreplInit /\ [][CreplNext]_creplvars

----------------------------------------------------------------------------
(* A number printed is the value of the expression just typed, never of an *)
(* earlier one or of another session's, in a session that has not loaded   *)
(* another's library.  A line gcc refuses, a function defined twice (which *)
(* leaves an old library in place) and a handle left open do not change    *)
(* it; one library of another session does, for good.                      *)
AnswersOwn ==
  \A s \in Session :
    answer[s] # NULL /\ ~foreign[s] => answer[s].got = answer[s].asked
=============================================================================
