----------------------------- MODULE NativeCte -----------------------------
(***************************************************************************)
(* Traps and context switches of the native machine: am/src/native/cte.c   *)
(* and ucontext of vme.c.  A processor is a Linux process; a trap is a     *)
(* signal.  sig_handler leaves the event in the one ev of its processor    *)
(* and sets the process up to continue in irq_handle, with interrupts      *)
(* masked; a context is resumed by a fault on a magic address, which is    *)
(* one more signal.  An interrupt in library code is dropped.              *)
(* External: the program's handler, as in X86Cte, and Linux, which holds a *)
(* masked signal back.                                                     *)
(***************************************************************************)
EXTENDS Integers, Sequences, SequencesExt, Null

CONSTANTS
  Process,      \* the processors, also the names of their first threads
  KernelThread, UserThread,
  Signo,       \* the causes of traps tried
  Steps         \* bound: the steps of a thread are counted modulo this

Threads == Process \cup KernelThread \cup UserThread

ASSUME NcAssumption ==
  /\ (Process \cup KernelThread) \cap UserThread = {} /\ NULL \notin Threads
  /\ Steps \in Nat \ {0}

VARIABLES
  where,     \* "user", "kernel", "lib", "irq", "leave" or "dead"
  thread,    \* the thread a processor runs; in "leave" the one returned
  onstack,   \* the thread whose stack it is on
  regs,      \* how far the code it runs has come
  masked,    \* SIGVTALRM and SIGUSR1 are blocked
  ev, vm_of, ksp,     \* of thiscpu: ev, vm_head and ksp
  frames,    \* the contexts on a thread's kernel stack
  done       \* history: how far a thread has really come
ncvars == <<where, thread, onstack, regs, masked, ev, vm_of, ksp, frames, done>>

Ctx(sig, mode, work, mask) ==
  [sig |-> sig, mode |-> mode, work |-> work, masked |-> mask, vm_head |-> NULL, ksp |-> NULL]

kcontext_native == Ctx("none", "kernel", 0, FALSE)
ucontext_native(t) == [Ctx("none", "user", 0, FALSE) EXCEPT !.vm_head = t, !.ksp = t]

(* init_platform and cte_init leave interrupts masked. *)
NcInit ==
  /\ where = [c \in Process |-> "kernel"]
  /\ thread = [c \in Process |-> c]
  /\ onstack = [c \in Process |-> c]
  /\ regs = [c \in Process |-> 0]
  /\ masked = [c \in Process |-> TRUE]
  /\ ev = [c \in Process |-> "NULL"]
  /\ vm_of = [c \in Process |-> NULL]
  /\ ksp = [c \in Process |-> NULL]
  /\ frames = [t \in Threads |-> IF t \in Process THEN <<>>
                                 ELSE IF t \in KernelThread THEN <<kcontext_native>>
                                 ELSE <<ucontext_native(t)>>]
  /\ done = [t \in Threads |-> 0]

step(c) ==
  /\ where[c] \in {"user", "kernel"}
  /\ regs' = [regs EXCEPT ![c] = (@ + 1) % Steps]
  /\ done' = [done EXCEPT ![thread[c]] = (@ + 1) % Steps]
  /\ UNCHANGED <<where, thread, onstack, masked, ev, vm_of, ksp, frames>>

(* A call of a library function, and its return. *)
library(c) ==
  /\ \/ where[c] = "kernel" /\ where' = [where EXCEPT ![c] = "lib"]
     \/ where[c] = "lib" /\ where' = [where EXCEPT ![c] = "kernel"]
  /\ UNCHANGED <<thread, onstack, regs, masked, ev, vm_of, ksp, frames, done>>

iset(c) ==
  /\ where[c] = "kernel"
  /\ masked' = [masked EXCEPT ![c] = ~@]
  /\ UNCHANGED <<where, thread, onstack, regs, ev, vm_of, ksp, frames, done>>

----------------------------------------------------------------------------
Interrupt == {"SIGUSR1", "SIGVTALRM"}

(* What can come where: SIGUSR2 is raised by yield, "trap" and "fault" are *)
(* SIGSEGV on the trap page and on an address of user space.               *)
Possible(c) ==
  (IF masked[c] THEN {} ELSE Interrupt)
    \cup (IF where[c] = "user" THEN {"trap", "fault"}
          ELSE IF where[c] = "kernel" THEN {"SIGUSR2", "fault"} ELSE {})

in_userspace(c) == vm_of[c] # NULL /\ where[c] = "user"

(* A fault is a page fault when an address space is in use, whatever code  *)
(* made it.                                                                *)
EventFrom(sig, space) ==
  CASE sig = "SIGUSR1"   -> "IRQ_IODEV"
    [] sig = "SIGUSR2"   -> "YIELD"
    [] sig = "SIGVTALRM" -> "IRQ_TIMER"
    [] sig = "trap"      -> "SYSCALL"
    [] sig = "fault" /\ space -> "PAGEFAULT"
    [] OTHER             -> "ERROR"

Disabled_Bug(c) == masked[c]
Disabled(c) == TRUE

(* sig_handler and setup_stack: the context goes on the kernel stack of    *)
(* the thread when it was in user space, and on the stack in use if not.   *)
sig_handler(c, sig) ==
  /\ where[c] # "dead" /\ sig \in Possible(c)
  /\ ev' = [ev EXCEPT ![c] = EventFrom(sig, vm_of[c] # NULL)]
  /\ IF sig \in Interrupt /\ where[c] = "lib"
     THEN UNCHANGED <<where, onstack, frames, masked>>
     ELSE LET s == IF in_userspace(c) THEN ksp[c] ELSE onstack[c]
              below == IF in_userspace(c) THEN <<>> ELSE frames[s]
          IN  /\ frames' = [frames EXCEPT ![s] =
                              Append(below, Ctx(sig, where[c], regs[c], masked[c]))]
              /\ onstack' = [onstack EXCEPT ![c] = s]
              /\ masked' = [masked EXCEPT ![c] = Disabled(c)]
              /\ where' = [where EXCEPT ![c] = "irq"]
  /\ UNCHANGED <<thread, regs, vm_of, ksp, done>>

(* irq_handle up to the magic call, __am_switch included. *)
irq_handle_native(c, t) ==
  LET s == onstack[c]
      saved == [frames EXCEPT ![s][Len(frames[s])] = [@ EXCEPT !.vm_head = vm_of[c], !.ksp = ksp[c]]]
  IN
  /\ where[c] = "irq"
  /\ IF ev[c] = "ERROR"
     THEN /\ t = thread[c] /\ where' = [where EXCEPT ![c] = "dead"]
          /\ UNCHANGED <<frames, thread, vm_of>>
     ELSE /\ \A d \in Process \ {c} : t # thread[d] /\ t # onstack[d]
          /\ frames[t] # <<>>
          /\ frames' = saved
          /\ thread' = [thread EXCEPT ![c] = t]
          /\ vm_of' = [vm_of EXCEPT ![c] = Last(saved[t]).vm_head]
          /\ where' = [where EXCEPT ![c] = "leave"]
  /\ UNCHANGED <<onstack, regs, masked, ev, ksp, done>>

(* The magic call: sig_handler clears ev, and iret puts the context back.  *)
iret_native(c) ==
  LET f == Last(frames[thread[c]]) IN
  /\ where[c] = "leave"
  /\ ev' = [ev EXCEPT ![c] = "ERROR"]
  /\ frames' = [frames EXCEPT ![thread[c]] = Front(@)]
  /\ onstack' = [onstack EXCEPT ![c] = thread[c]]
  /\ regs' = [regs EXCEPT ![c] = f.work]
  /\ masked' = [masked EXCEPT ![c] = f.masked]
  /\ ksp' = [ksp EXCEPT ![c] = f.ksp]
  /\ where' = [where EXCEPT ![c] = f.mode]
  /\ UNCHANGED <<thread, vm_of, done>>

NcNext ==
  \E c \in Process :
    \/ step(c) \/ library(c) \/ iset(c) \/ iret_native(c)
    \/ \E sig \in Signo : sig_handler(c, sig)
    \/ \E t \in Threads : irq_handle_native(c, t)

NcSpec == NcInit /\ [][NcNext]_ncvars

----------------------------------------------------------------------------
(* The event irq_handle gives the handler is the one of the trap that      *)
(* stopped the thread, though ev is one word, written by every signal (the *)
(* dropped interrupts and the magic call too) and read after the signal    *)
(* handler has returned; and a thread goes on from where it was, a user    *)
(* thread in its own space and with its own kernel stack.                  *)
EventMatches ==
  \A c \in Process :
    /\ where[c] = "irq" =>
         LET f == Last(frames[onstack[c]])
         IN  onstack[c] = thread[c] /\ ev[c] = EventFrom(f.sig, f.mode = "user")
    /\ where[c] \in {"user", "kernel", "lib"} => regs[c] = done[thread[c]]
    /\ where[c] = "user" => vm_of[c] = thread[c] /\ ksp[c] = thread[c] /\ frames[thread[c]] = <<>>
=============================================================================
