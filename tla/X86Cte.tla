------------------------------- MODULE X86Cte -------------------------------
(***************************************************************************)
(* Traps and context switches of the x86 machine: am/src/x86/qemu/cte.c,   *)
(* trap64.S, and ucontext of vme.c.  The gates are trap gates, so that an  *)
(* interrupt may come before the stub's cli and nest.  A frame records the *)
(* cause of a trap and the code it came from, and what __am_irq_handle     *)
(* adds to it; a thread's context is the last frame on its kernel stack.   *)
(* External: the program's handler.  It may return the context of any      *)
(* thread that no other processor runs or is still on the stack of.        *)
(***************************************************************************)
EXTENDS Integers, Sequences, SequencesExt, Null

CONSTANTS
  Core,         \* the processors, also the names of their first threads
  KThread,      \* kernel threads, made by kcontext
  UThread,      \* user threads, made by ucontext, each with its own space
  Irq,          \* the causes of traps tried
  MaxNest,      \* bound: frames on a kernel stack
  Work          \* bound: the steps of a thread are counted modulo this

Thread == Core \cup KThread \cup UThread

ASSUME CteAssumption ==
  /\ (Core \cup KThread) \cap UThread = {} /\ NULL \notin Thread
  /\ Work \in Nat \ {0}

VARIABLES
  at,       \* what a processor runs: "user", "kernel", "stub", "handler" or "iret"
  runs,     \* its thread; in "iret" the one whose context was returned
  stack,    \* the thread whose kernel stack it is on
  reg,      \* its registers: how far the code it runs has come
  cr3,      \* the thread whose address space it is in ("kpt": none)
  rsp0,     \* tss.rsp0: the thread whose stack traps from user mode go to
  event,    \* what the handler was called with
  kstack,   \* a thread's kernel stack: the frames on it
  did       \* history: how far a thread has really come
ctevars == <<at, runs, stack, reg, cr3, rsp0, event, kstack, did>>

TrapFrame(irq, mode, work) ==
  [irq |-> irq, mode |-> mode, work |-> work, cr3 |-> NULL, rsp0 |-> NULL]

kcontext(t) == TrapFrame("none", "kernel", 0)
ucontext(t) == [TrapFrame("none", "user", 0) EXCEPT !.cr3 = t, !.rsp0 = t]

CteInit ==
  /\ at = [c \in Core |-> "kernel"]
  /\ runs = [c \in Core |-> c]
  /\ stack = [c \in Core |-> c]
  /\ reg = [c \in Core |-> 0]
  /\ cr3 = [c \in Core |-> "kpt"]
  /\ rsp0 = [c \in Core |-> NULL]
  /\ event = [c \in Core |-> NULL]
  /\ kstack = [t \in Thread |-> IF t \in Core THEN <<>>
                                ELSE IF t \in KThread THEN <<kcontext(t)>>
                                ELSE <<ucontext(t)>>]
  /\ did = [t \in Thread |-> 0]

work(c) ==
  /\ at[c] \in {"user", "kernel"}
  /\ reg' = [reg EXCEPT ![c] = (@ + 1) % Work]
  /\ did' = [did EXCEPT ![runs[c]] = (@ + 1) % Work]
  /\ UNCHANGED <<at, runs, stack, cr3, rsp0, event, kstack>>

(* What can trap where: interrupts also in the stub, before its cli. *)
Irqs(mode) == CASE mode = "user" -> {"timer", "syscall", "pagefault"}
                [] mode = "kernel" -> {"timer", "yield"}
                [] OTHER -> {"timer"}

(* The processor enters the gate: from user mode on the stack of rsp0.     *)
gate(c, irq) ==
  /\ at[c] \in {"user", "kernel", "stub"} /\ irq \in Irqs(at[c])
  /\ LET s == IF at[c] = "user" THEN rsp0[c] ELSE stack[c]
         below == IF at[c] = "user" THEN <<>> ELSE kstack[s]
     IN  /\ Len(below) < MaxNest
         /\ stack' = [stack EXCEPT ![c] = s]
         /\ kstack' = [kstack EXCEPT ![s] = Append(below, TrapFrame(irq, at[c], reg[c]))]
  /\ at' = [at EXCEPT ![c] = "stub"]
  /\ UNCHANGED <<runs, reg, cr3, rsp0, event, did>>

EventOf(irq) ==
  CASE irq = "timer"     -> "IRQ_TIMER"
    [] irq = "syscall"   -> "SYSCALL"
    [] irq = "yield"     -> "YIELD"
    [] irq = "pagefault" -> "PAGEFAULT"
    [] OTHER             -> "ERROR"

SavedRsp0_Bug(c) == NULL
SavedRsp0(c) == rsp0[c]

(* cli, the pushes, and __am_irq_handle up to the call of the handler. *)
irq_handle(c) ==
  LET k == kstack[stack[c]] IN
  /\ at[c] = "stub"
  /\ kstack' = [kstack EXCEPT ![stack[c]][Len(k)] =
                  [@ EXCEPT !.cr3 = cr3[c], !.rsp0 = SavedRsp0(c)]]
  /\ event' = [event EXCEPT ![c] = EventOf(Last(k).irq)]
  /\ at' = [at EXCEPT ![c] = "handler"]
  /\ UNCHANGED <<runs, stack, reg, cr3, rsp0, did>>

(* user_handler returns a context: the same one, or another thread's. *)
user_handler(c, t) ==
  /\ at[c] = "handler"
  /\ \A d \in Core \ {c} : t # runs[d] /\ t # stack[d]
  /\ kstack[t] # <<>>
  /\ runs' = [runs EXCEPT ![c] = t]
  /\ at' = [at EXCEPT ![c] = "iret"]
  /\ UNCHANGED <<stack, reg, cr3, rsp0, event, kstack, did>>

(* The rest of __am_irq_handle, and __am_iret.  A context that has not     *)
(* been saved yet and has no space of its own leaves cr3 and rsp0 alone.   *)
iret(c) ==
  LET t == runs[c]
      f == Last(kstack[t])
  IN
  /\ at[c] = "iret"
  /\ cr3' = IF f.cr3 # NULL THEN [cr3 EXCEPT ![c] = f.cr3] ELSE cr3
  /\ rsp0' = IF f.cr3 # NULL THEN [rsp0 EXCEPT ![c] = f.rsp0] ELSE rsp0
  /\ kstack' = [kstack EXCEPT ![t] = Front(@)]
  /\ stack' = [stack EXCEPT ![c] = t]
  /\ reg' = [reg EXCEPT ![c] = f.work]
  /\ at' = [at EXCEPT ![c] = f.mode]
  /\ event' = [event EXCEPT ![c] = NULL]
  /\ UNCHANGED <<runs, did>>

CteNext ==
  \E c \in Core :
    \/ work(c) \/ irq_handle(c) \/ iret(c)
    \/ \E irq \in Irq : gate(c, irq)
    \/ \E t \in Thread : user_handler(c, t)

CteSpec == CteInit /\ [][CteNext]_ctevars

----------------------------------------------------------------------------
(* Whichever processors a thread has been on, and however deep traps were  *)
(* nested when it was switched away: a running thread goes on from where   *)
(* it was, a user thread in its own address space and with its own stack   *)
(* for the next trap; and the event the handler is called with is the one  *)
(* that stopped its thread there.                                          *)
RunsAsSaved ==
  \A c \in Core :
    /\ at[c] \in {"user", "kernel"} => reg[c] = did[runs[c]]
    /\ at[c] = "user" => cr3[c] = runs[c] /\ rsp0[c] = runs[c] /\ kstack[runs[c]] = <<>>
    /\ at[c] = "handler" => event[c] = EventOf(Last(kstack[runs[c]]).irq)
    /\ at[c] \in {"stub", "handler"} => stack[c] = runs[c]
=============================================================================
