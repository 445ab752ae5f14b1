------------------------------ MODULE X86Boot ------------------------------
(***************************************************************************)
(* Starting and stopping the processors of the x86 machine:                *)
(* am/src/x86/qemu/mpe.c, trm.c, ioe.c (__am_lapic_bootap), boot/main.c.   *)
(* Processor 0 starts the others one after the other.  They all run the    *)
(* same boot sector, on the same boot stack, until each switches to its    *)
(* own; the boot record's is_ap tells them that the kernel is loaded.      *)
(* halt resets the others into a loop before it turns the machine off.     *)
(* External: INIT stops a processor until a STARTUP, which makes it run    *)
(* from the boot record; any other STARTUP is ignored.                     *)
(***************************************************************************)
EXTENDS Integers, FiniteSets

CONSTANT ncpu      \* __am_ncpu, as __am_lapic_init counts them

ASSUME NcpuAssumption == ncpu \in Nat \ {0}

Processor == 0 .. ncpu - 1

VARIABLES
  cpu,        \* where each processor is
  booting,    \* the processor that one is sending to (for the two loops)
  jmp_code,   \* of the boot record: "none", "boot" (jmp 0x7c00) or "self" (jmp .)
  is_ap,
  ap_ready,
  loads,      \* how often the kernel has been loaded from the disk
  power,
  halting     \* history: the processors that have called halt
bootvars == <<cpu, booting, jmp_code, is_ap, ap_ready, loads, power, halting>>

BootInit ==
  /\ cpu = [c \in Processor |-> IF c = 0 THEN "boot" ELSE "sipi"]
  /\ booting = [c \in Processor |-> 0]
  /\ jmp_code = "none" /\ is_ap = 0 /\ ap_ready = 0
  /\ loads = 0 /\ power = "on" /\ halting = {}

Go(c, l) == cpu' = [cpu EXCEPT ![c] = l]

(* The boot sector and load_kernel, which the boot processor has load the  *)
(* kernel.                                                                 *)
load_kernel(c) ==
  /\ cpu[c] = "boot"
  /\ loads' = IF is_ap = 0 THEN loads + 1 ELSE loads
  /\ Go(c, "start_c")
  /\ UNCHANGED <<booting, jmp_code, is_ap, ap_ready, power, halting>>

(* _start_c: is_ap is read again.  The stack is the processor's own after. *)
start_c(c) ==
  /\ cpu[c] = "start_c"
  /\ Go(c, IF is_ap = 1 THEN "othercpu" ELSE "main")
  /\ UNCHANGED <<booting, jmp_code, is_ap, ap_ready, loads, power, halting>>

(* main may do without the others, and end. *)
mpe_init(c) ==
  /\ cpu[c] = "main"
  /\ jmp_code' = "boot"
  /\ booting' = [booting EXCEPT ![c] = 1]
  /\ Go(c, "start")
  /\ UNCHANGED <<is_ap, ap_ready, loads, power, halting>>

(* One turn of mpe_init's loop, or its end. *)
start(c) ==
  /\ cpu[c] = "start"
  /\ IF booting[c] < ncpu
     THEN is_ap' = 1 /\ Go(c, "init")
     ELSE Go(c, "user") /\ UNCHANGED is_ap
  /\ UNCHANGED <<booting, jmp_code, ap_ready, loads, power, halting>>

(* __am_lapic_bootap: an INIT, and two STARTUPs. *)
init(c) ==
  /\ cpu[c] \in {"init", "stopinit"}
  /\ cpu' = [cpu EXCEPT ![booting[c]] = "sipi",
                        ![c] = IF @ = "init" THEN "startup1" ELSE "stop1"]
  /\ UNCHANGED <<booting, jmp_code, is_ap, ap_ready, loads, power, halting>>

(* What the sender of a STARTUP goes on to: it sends each twice. *)
Sent == [startup1 |-> "startup2", startup2 |-> "wait", stop1 |-> "stop2", stop2 |-> "stop"]

startup(c) ==
  /\ cpu[c] \in DOMAIN Sent
  /\ cpu' = [d \in Processor |->
               IF d = c THEN Sent[cpu[c]]
               ELSE IF d = booting[c] /\ cpu[d] = "sipi" THEN "jmp" ELSE cpu[d]]
  /\ booting' = IF cpu[c] = "stop2" THEN [booting EXCEPT ![c] = @ + 1] ELSE booting
  /\ UNCHANGED <<jmp_code, is_ap, ap_ready, loads, power, halting>>

Ready_Bug == TRUE
Ready == ap_ready = 1

(* while (xchg(&ap_ready, 0) != 1), the turn that ends it. *)
wait(c) ==
  /\ cpu[c] = "wait"
  /\ Ready
  /\ ap_ready' = 0
  /\ booting' = [booting EXCEPT ![c] = @ + 1]
  /\ Go(c, "start")
  /\ UNCHANGED <<jmp_code, is_ap, loads, power, halting>>

jmp(c) ==
  /\ cpu[c] = "jmp"
  /\ Go(c, IF jmp_code = "boot" THEN "boot" ELSE "loop")
  /\ UNCHANGED <<booting, jmp_code, is_ap, ap_ready, loads, power, halting>>

Signal_Bug == 0
Signal == 1

(* __am_percpu_init and the exchange; user_entry is next. *)
othercpu_entry(c) ==
  /\ cpu[c] = "othercpu"
  /\ ap_ready' = Signal
  /\ Go(c, "user")
  /\ UNCHANGED <<booting, jmp_code, is_ap, loads, power, halting>>

----------------------------------------------------------------------------
Jump_Bug == jmp_code
Jump == "self"

(* halt, and __am_stop_the_world up to its loop. *)
halt(c) ==
  /\ cpu[c] \in {"main", "user"}
  /\ halting' = halting \cup {c}
  /\ jmp_code' = Jump
  /\ booting' = [booting EXCEPT ![c] = 0]
  /\ Go(c, "stop")
  /\ UNCHANGED <<is_ap, ap_ready, loads, power>>

(* Its loop over the others; then the message, and the power off. *)
stop(c) ==
  /\ cpu[c] = "stop"
  /\ \/ /\ booting[c] = c
        /\ booting' = [booting EXCEPT ![c] = @ + 1]
        /\ UNCHANGED <<cpu, power>>
     \/ /\ booting[c] = ncpu
        /\ power' = "off"
        /\ Go(c, "hlt")
        /\ UNCHANGED booting
     \/ /\ booting[c] \notin {c, ncpu}
        /\ Go(c, "stopinit")
        /\ UNCHANGED <<booting, power>>
  /\ UNCHANGED <<jmp_code, is_ap, ap_ready, loads, halting>>

BootStep(c) ==
  \/ load_kernel(c) \/ start_c(c) \/ mpe_init(c) \/ start(c) \/ init(c) \/ startup(c)
  \/ wait(c) \/ jmp(c) \/ othercpu_entry(c) \/ stop(c)

BootNext == power = "on" /\ \E c \in Processor : BootStep(c) \/ halt(c)

BootSpec == BootInit /\ [][BootNext]_bootvars

----------------------------------------------------------------------------
Early == {c \in Processor : cpu[c] \in {"boot", "start_c"}}

(* The processors go through the boot sector one at a time (they share its *)
(* stack), the kernel is loaded once, and only by processor 0: also when   *)
(* one that is up already halts the machine while others are starting.     *)
OneAtATime ==
  /\ Cardinality(Early) <= 1
  /\ loads <= 1
  /\ \A c \in Processor \ {0} : cpu[c] # "main"

(* After mpe_init is called, and unless somebody halts the machine, all    *)
(* processors get to user_entry: no signal is lost or counted for two.     *)
(* Each processor is assumed to go on when it can, not to call halt.       *)
AllStart ==
  cpu[0] = "start" ~> halting # {} \/ \A c \in Processor : cpu[c] = "user"

Stopped == {c \in Processor : cpu[c] \in {"sipi", "jmp", "loop"}}

(* A halt turns the machine off, with none of the other processors still   *)
(* running the program.  Of two that halt at once nothing is said: each    *)
(* sends the other an INIT, and which of them goes on is up to the time    *)
(* INITs take, which is external (here they take none).                    *)
WorldStops ==
  \A c \in Processor :
    c \in halting ~> \/ power = "off" /\ Processor \ {c} \subseteq Stopped
                     \/ Cardinality(halting) > 1
=============================================================================
