--------------------------- MODULE MachineProofs ----------------------------
(***************************************************************************)
(* Theorems about the start of the x86 processors (X86Boot), the disk (Sd) *)
(* and the native machine's keyboard and audio (NativeIoe).                *)
(***************************************************************************)
EXTENDS X86Boot, Sd, NativeIoe, FiniteSetTheorems, SequenceTheorems, TLAPS

----------------------------------------------------------------------------
(* X86Boot *)

Place == {"sipi", "jmp", "boot", "start_c", "othercpu", "user", "main", "start", "init",
          "startup1", "startup2", "wait", "stop", "stopinit", "stop1", "stop2", "hlt", "loop"}

BootType ==
  /\ cpu \in [Processor -> Place]
  /\ booting \in [Processor -> Nat]
  /\ jmp_code \in {"none", "boot", "self"}
  /\ is_ap \in {0, 1} /\ ap_ready \in {0, 1}
  /\ loads \in Nat

(* Before mpe_init: processor 0 alone. *)
Alone ==
  /\ is_ap = 0 /\ ap_ready = 0
  /\ cpu[0] \in {"boot", "start_c", "main"}
  /\ loads = IF cpu[0] = "boot" THEN 0 ELSE 1
  /\ \A c \in Processor \ {0} : cpu[c] = "sipi"

(* Where the processor is that processor 0 starts, by where that one is:   *)
(* it has its STARTUP from "startup2" on and is up once ap_ready is set.   *)
Coming(b) ==
  /\ cpu[0] \in {"init", "startup1", "startup2", "wait"} => b < ncpu /\ is_ap = 1
  /\ cpu[0] \in {"start", "init", "startup1"} => ap_ready = 0 /\ (b < ncpu => cpu[b] = "sipi")
  /\ cpu[0] \in {"startup2", "wait"} =>
       cpu[b] \in IF ap_ready = 1 THEN {"user"} ELSE {"jmp", "boot", "start_c", "othercpu"}
  /\ cpu[0] = "user" => b >= ncpu

(* During mpe_init and after it, until somebody halts: the processors      *)
(* below booting[0] are up, the ones above it have not been started.       *)
InTurn ==
  /\ cpu[0] \in {"start", "init", "startup1", "startup2", "wait", "user"}
  /\ loads = 1
  /\ booting[0] > 0
  /\ \A c \in Processor \ {0} :
       /\ c < booting[0] => cpu[c] = "user"
       /\ c > booting[0] => cpu[c] = "sipi"
  /\ Coming(booting[0])

(* Once jmp_code is "self" nobody enters the boot sector any more; at most *)
(* one processor is still in it, with the kernel loaded.                   *)
Ending ==
  /\ loads = 1
  /\ \A c \in Early : c # 0 /\ is_ap = 1
  /\ \A c, d \in Early : c = d
  /\ \A c \in Processor : cpu[c] # "main"

BootInv ==
  /\ BootType
  /\ jmp_code = "none" => Alone
  /\ jmp_code = "boot" => InTurn
  /\ jmp_code = "self" => Ending

LEMMA BootInitInv == BootInit => BootInv
  BY NcpuAssumption DEF BootInit, BootInv, BootType, Place, Alone, Processor

LEMMA BootTypeNext ==
  ASSUME BootType, NEW c \in Processor, BootStep(c) \/ halt(c)
  PROVE  BootType'
<1> USE DEF BootType, Place, Go
<1>1. CASE load_kernel(c)
  BY <1>1 DEF load_kernel
<1>2. CASE start_c(c)
  BY <1>2 DEF start_c
<1>3. CASE mpe_init(c)
  BY <1>3 DEF mpe_init
<1>4. CASE start(c)
  BY <1>4 DEF start
<1>5. CASE init(c)
  BY <1>5 DEF init
<1>6. CASE startup(c)
  BY <1>6 DEF startup, Sent
<1>7. CASE wait(c)
  BY <1>7 DEF wait
<1>8. CASE jmp(c)
  BY <1>8 DEF jmp
<1>9. CASE othercpu_entry(c)
  BY <1>9 DEF othercpu_entry, Signal
<1>10. CASE stop(c)
  BY <1>10 DEF stop
<1>11. CASE halt(c)
  BY <1>11 DEF halt, Jump
<1> QED
  BY <1>1, <1>2, <1>3, <1>4, <1>5, <1>6, <1>7, <1>8, <1>9, <1>10, <1>11 DEF BootStep

(* Processor 0 loads the kernel and calls main, which calls mpe_init or    *)
(* halts.                                                                  *)
LEMMA AloneNext ==
  ASSUME BootInv, BootType', jmp_code = "none",
         NEW c \in Processor, BootStep(c) \/ halt(c)
  PROVE  BootInv'
<1> USE NcpuAssumption DEF BootInv, BootType, Place, Go, Alone, Processor
<1>0. c = 0 /\ cpu[0] \in {"boot", "start_c", "main"}
  BY DEF BootStep, load_kernel, start_c, mpe_init, start, init, startup, Sent, wait, jmp,
         othercpu_entry, stop, halt
<1>1. CASE load_kernel(c)
  BY <1>0, <1>1 DEF load_kernel
<1>2. CASE start_c(c)
  BY <1>0, <1>2 DEF start_c
<1>3. CASE mpe_init(c)
  BY <1>0, <1>3 DEF mpe_init, InTurn, Coming
<1>4. CASE halt(c)
  BY <1>0, <1>4 DEF halt, Jump, Ending, Early
<1> QED
  BY <1>0, <1>1, <1>2, <1>3, <1>4
  DEF BootStep, start, init, startup, Sent, wait, jmp, othercpu_entry, stop

(* The processors start one after the other, each when the one before has  *)
(* signalled; the first halt ends this.                                    *)
LEMMA InTurnNext ==
  ASSUME BootInv, BootType', jmp_code = "boot",
         NEW c \in Processor, BootStep(c) \/ halt(c)
  PROVE  BootInv'
<1> USE DEF BootInv
<1>t. /\ ncpu \in Nat \ {0} /\ 0 \in Processor /\ Processor \subseteq Nat
      /\ cpu \in [Processor -> Place] /\ booting \in [Processor -> Nat]
      /\ booting[0] \in Nat /\ booting[0] > 0
      /\ InTurn /\ Coming(booting[0])
  BY NcpuAssumption DEF BootType, InTurn, Processor
<1>b. ASSUME NEW d \in Processor \ {0}, cpu[d] \notin {"sipi", "user"}
      PROVE  /\ d = booting[0] /\ ap_ready = 0 /\ is_ap = 1
             /\ cpu[0] \in {"startup2", "wait"}
             /\ cpu[d] \in {"jmp", "boot", "start_c", "othercpu"}
  <2>1. d = booting[0] /\ d < ncpu
    BY <1>t, <1>b DEF InTurn, Processor
  <2> QED
    BY <1>t, <1>b, <2>1 DEF InTurn, Coming, BootType
<1>a. ASSUME cpu[c] \in {"jmp", "boot", "start_c", "othercpu"}
      PROVE  /\ c = booting[0] /\ c \in Processor \ {0} /\ ap_ready = 0 /\ is_ap = 1
             /\ cpu[0] \in {"startup2", "wait"}
  <2>1. c # 0
    BY <1>t, <1>a DEF InTurn
  <2> QED
    BY <1>a, <1>b, <2>1
<1>z. ASSUME cpu[c] \notin {"sipi", "user", "jmp", "boot", "start_c", "othercpu"}
      PROVE  c = 0 /\ cpu[0] \in {"start", "init", "startup1", "startup2", "wait"}
  <2>1. c = 0
    BY <1>b, <1>z
  <2> QED
    BY <1>t, <2>1, <1>z DEF InTurn
<1>1. CASE load_kernel(c)
  BY <1>t, <1>a, <1>1 DEF load_kernel, Go, InTurn, Coming, BootType
<1>2. CASE start_c(c)
  BY <1>t, <1>a, <1>2 DEF start_c, Go, InTurn, Coming, BootType
<1>3. CASE start(c)
  <2>1. c = 0 /\ cpu[0] = "start" /\ ap_ready = 0
    BY <1>t, <1>z, <1>3 DEF start, Coming
  <2>2. CASE booting[0] < ncpu
    <3>1. is_ap' = 1 /\ cpu' = [cpu EXCEPT ![0] = "init"]
      BY <2>1, <2>2, <1>3 DEF start, Go
    <3> QED
      BY <1>t, <2>1, <2>2, <3>1, <1>3 DEF start, InTurn, Coming
  <2>3. CASE ~(booting[0] < ncpu)
    <3>1. cpu' = [cpu EXCEPT ![0] = "user"]
      BY <2>1, <2>3, <1>3 DEF start, Go
    <3> QED
      BY <1>t, <2>1, <2>3, <3>1, <1>3 DEF start, InTurn, Coming
  <2> QED
    BY <2>2, <2>3
<1>4. CASE init(c)
  <2>1. c = 0 /\ cpu[0] = "init" /\ booting[0] \in Processor \ {0}
    <3>1. c = 0 /\ cpu[0] = "init"
      BY <1>z, <1>4 DEF init
    <3> QED
      BY <1>t, <3>1 DEF Coming, Processor
  <2>2. cpu' = [cpu EXCEPT ![0] = "startup1"]
    BY <1>t, <2>1, <1>4 DEF init, InTurn, Coming
  <2> QED
    BY <1>t, <2>1, <2>2, <1>4 DEF init, InTurn, Coming, BootType
<1>5. CASE startup(c)
  <2>1. c = 0 /\ cpu[0] \in {"startup1", "startup2"} /\ booting[0] \in Processor \ {0}
    <3>1. cpu[c] \in {"startup1", "startup2", "stop1", "stop2"}
      BY <1>5 DEF startup, Sent
    <3>2. c = 0 /\ cpu[0] \in {"startup1", "startup2"}
      BY <1>z, <3>1
    <3> QED
      BY <1>t, <3>2 DEF Coming, Processor
  <2>2. CASE cpu[0] = "startup1"
    <3>1. cpu' = [d \in Processor |-> IF d = 0 THEN "startup2"
                                     ELSE IF d = booting[0] /\ cpu[d] = "sipi" THEN "jmp"
                                     ELSE cpu[d]]
      BY <2>1, <2>2, <1>5 DEF startup, Sent
    <3> QED
      BY <1>t, <2>1, <2>2, <3>1, <1>5 DEF startup, InTurn, Coming, BootType
  <2>3. CASE cpu[0] = "startup2"
    <3>1. cpu' = [d \in Processor |-> IF d = 0 THEN "wait"
                                     ELSE IF d = booting[0] /\ cpu[d] = "sipi" THEN "jmp"
                                     ELSE cpu[d]]
      BY <2>1, <2>3, <1>5 DEF startup, Sent
    <3> QED
      BY <1>t, <2>1, <2>3, <3>1, <1>5 DEF startup, InTurn, Coming, BootType
  <2> QED
    BY <2>1, <2>2, <2>3
<1>6. CASE wait(c)
  BY <1>t, <1>z, <1>6 DEF wait, Go, Ready, InTurn, Coming, BootType, Processor
<1>7. CASE jmp(c)
  BY <1>t, <1>a, <1>7 DEF jmp, Go, InTurn, Coming, BootType
<1>8. CASE othercpu_entry(c)
  BY <1>t, <1>a, <1>8 DEF othercpu_entry, Go, Signal, InTurn, Coming, BootType
<1>9. CASE halt(c)
  <2>1. jmp_code' = "self" /\ cpu' = [cpu EXCEPT ![c] = "stop"] /\ UNCHANGED <<loads, is_ap>>
    BY <1>9 DEF halt, Jump, Go
  <2>2. \A d \in Processor : cpu[d] # "main"
    BY <1>t, <1>b DEF InTurn
  <2>3. \A d \in Early : d # 0 /\ is_ap = 1 /\ d = booting[0]
    BY <1>t, <1>b DEF InTurn, Early
  <2>4. Early' \subseteq Early
    BY <1>t, <2>1 DEF Early
  <2> QED
    BY <1>t, <2>1, <2>2, <2>3, <2>4 DEF Ending, InTurn
<1>10. ~mpe_init(c) /\ ~stop(c)
  BY <1>t, <1>b DEF mpe_init, stop, InTurn
<1> QED
  BY <1>1, <1>2, <1>3, <1>4, <1>5, <1>6, <1>7, <1>8, <1>9, <1>10 DEF BootStep

(* After a halt no processor enters the boot sector. *)
LEMMA EndingNext ==
  ASSUME BootInv, BootType', jmp_code = "self",
         NEW c \in Processor, BootStep(c) \/ halt(c)
  PROVE  BootInv'
<1> USE DEF BootInv, BootType, Go, Ending, Early
<1>1. CASE load_kernel(c)
  BY <1>1 DEF load_kernel
<1>2. CASE start_c(c)
  BY <1>2 DEF start_c
<1>3. CASE start(c)
  BY <1>3 DEF start
<1>4. CASE init(c)
  BY <1>4 DEF init
<1>5. CASE startup(c)
  BY <1>5 DEF startup, Sent
<1>6. CASE wait(c)
  BY <1>6 DEF wait
<1>7. CASE jmp(c)
  BY <1>7 DEF jmp
<1>8. CASE othercpu_entry(c)
  BY <1>8 DEF othercpu_entry
<1>9. CASE stop(c)
  BY <1>9 DEF stop
<1>10. CASE halt(c)
  BY <1>10 DEF halt, Jump
<1>11. ~mpe_init(c)
  BY DEF mpe_init
<1> QED
  BY <1>1, <1>2, <1>3, <1>4, <1>5, <1>6, <1>7, <1>8, <1>9, <1>10, <1>11 DEF BootStep

LEMMA BootInvOneAtATime == BootInv => OneAtATime
<1> SUFFICES ASSUME BootInv PROVE OneAtATime
  OBVIOUS
<1>1. \A c, d \in Early : c = d
  BY NcpuAssumption DEF BootInv, BootType, Alone, InTurn, Coming, Ending, Early, Processor
<1>2. Cardinality(Early) <= 1
  <2>1. CASE Early = {}
    BY <2>1, FS_EmptySet
  <2>2. ASSUME NEW c \in Early PROVE Cardinality(Early) <= 1
    <3>1. Early = {c}
      BY <1>1
    <3> QED
      BY <3>1, FS_Singleton
  <2> QED
    BY <2>1, <2>2
<1>3. loads <= 1 /\ \A c \in Processor \ {0} : cpu[c] # "main"
  BY NcpuAssumption DEF BootInv, BootType, Alone, InTurn, Coming, Ending, Processor
<1> QED
  BY <1>2, <1>3 DEF OneAtATime

(* However many processors there are and whoever halts when: they go       *)
(* through the boot sector and its one stack one at a time, processor 0    *)
(* alone loads the kernel, once, and runs main (mpe_init, othercpu_entry,  *)
(* halt).                                                                  *)
THEOREM BootOneAtATime == BootSpec => []OneAtATime
<1>1. BootInv /\ [BootNext]_bootvars => BootInv'
  <2> SUFFICES ASSUME BootInv, [BootNext]_bootvars PROVE BootInv'
    OBVIOUS
  <2>1. ASSUME NEW c \in Processor, BootStep(c) \/ halt(c) PROVE BootInv'
    <3>1. BootType'
      BY <2>1, BootTypeNext DEF BootInv
    <3> QED
      BY <2>1, <3>1, AloneNext, InTurnNext, EndingNext DEF BootInv, BootType
  <2>2. CASE UNCHANGED bootvars
    BY <2>2 DEF bootvars, BootInv, BootType, Alone, InTurn, Coming, Ending, Early
  <2> QED
    BY <2>1, <2>2 DEF BootNext
<1> QED
  BY <1>1, BootInitInv, BootInvOneAtATime, PTL DEF BootSpec

----------------------------------------------------------------------------
(* NativeIoe: the ring of key codes *)

Slot(i) == IF i < KEY_QUEUE_LEN THEN i ELSE i - KEY_QUEUE_LEN
Encoded(e) == IF e[2] THEN e[1] + KEYDOWN_MASK ELSE e[1]

KeyType ==
  /\ key_f \in 0 .. KEY_QUEUE_LEN - 1 /\ key_r \in 0 .. KEY_QUEUE_LEN - 1
  /\ key_queue \in [0 .. KEY_QUEUE_LEN - 1 -> Nat]
  /\ due \in Seq(Scancode \X BOOLEAN)

(* The ring holds the codes of the events that are due, from key_f on. *)
RingInv ==
  /\ Len(due) < KEY_QUEUE_LEN
  /\ key_r = Slot(key_f + Len(due))
  /\ \A i \in 0 .. Len(due) - 1 : key_queue[Slot(key_f + i)] = Encoded(due[1 + i])
  /\ kbd # NULL => kbd.got = kbd.due

KeyInv == KeyType /\ RingInv

LEMMA SlotNext ==
  ASSUME NEW i \in 0 .. KEY_QUEUE_LEN - 1
  PROVE  (i + 1) % KEY_QUEUE_LEN = Slot(i + 1) /\ Slot(i + 1) \in 0 .. KEY_QUEUE_LEN - 1
<1>1. CASE i + 1 < KEY_QUEUE_LEN
  BY <1>1, KeyAssumption DEF Slot
<1>2. CASE i + 1 = KEY_QUEUE_LEN
  BY <1>2, KeyAssumption DEF Slot
<1> QED
  BY <1>1, <1>2, KeyAssumption

(* Two places of the ring less than a round apart are different. *)
LEMMA SlotsDiffer ==
  ASSUME NEW f \in 0 .. KEY_QUEUE_LEN - 1, NEW w \in 0 .. KEY_QUEUE_LEN - 1, NEW i \in 0 .. w - 1
  PROVE  Slot(f + i) # Slot(f + w) /\ Slot(f + i) \in 0 .. KEY_QUEUE_LEN - 1
<1>1. PICK n \in Nat : n = KEY_QUEUE_LEN
  BY KeyAssumption
<1>2. f \in Nat /\ w \in Nat /\ i \in Nat /\ f < n /\ w < n /\ i < w
  BY <1>1
<1> QED
  BY <1>1, <1>2 DEF Slot

(* The place after w + 1 steps is the one after that of w steps. *)
LEMMA SlotAfter ==
  ASSUME NEW f \in 0 .. KEY_QUEUE_LEN - 1, NEW w \in 0 .. KEY_QUEUE_LEN - 1
  PROVE  /\ w + 1 = KEY_QUEUE_LEN => Slot(Slot(f + w) + 1) = Slot(f + 0)
         /\ w + 1 # KEY_QUEUE_LEN => Slot(Slot(f + w) + 1) = Slot(f + (w + 1))
         /\ Slot(f + 0) = f
<1>1. PICK n \in Nat : n = KEY_QUEUE_LEN
  BY KeyAssumption
<1>2. f \in Nat /\ w \in Nat /\ f < n /\ w < n
  BY <1>1
<1> QED
  BY <1>1, <1>2 DEF Slot

LEMMA KeyInitInv == IoeInit => KeyInv
  BY KeyAssumption DEF IoeInit, KeyInv, KeyType, RingInv, Slot

LEMMA EventThreadInv ==
  ASSUME KeyInv, NEW key \in Scancode, NEW keydown \in BOOLEAN, event_thread(key, keydown)
  PROVE  KeyInv'
<1> DEFINE e == <<key, keydown>>
           w == Len(due)
<1>1. /\ key_f \in 0 .. KEY_QUEUE_LEN - 1 /\ key_r \in 0 .. KEY_QUEUE_LEN - 1
      /\ key_queue \in [0 .. KEY_QUEUE_LEN - 1 -> Nat]
      /\ due \in Seq(Scancode \X BOOLEAN)
      /\ w \in 0 .. KEY_QUEUE_LEN - 1 /\ key_r = Slot(key_f + w)
  BY KeyAssumption DEF KeyInv, KeyType, RingInv
<1>2. KEY_QUEUE_LEN \in Nat \ {0} /\ Encoded(e) \in Nat /\ e \in Scancode \X BOOLEAN
  BY KeyAssumption DEF Encoded
<1>3. /\ key_queue' = [key_queue EXCEPT ![key_r] = Encoded(e)]
      /\ key_r' = (key_r + 1) % KEY_QUEUE_LEN
      /\ due' = IF w + 1 = KEY_QUEUE_LEN THEN <<>> ELSE Append(due, e)
      /\ UNCHANGED <<key_f, kbd>>
  BY DEF event_thread, Encoded
<1>4. key_r' = Slot(key_r + 1) /\ key_r' \in 0 .. KEY_QUEUE_LEN - 1
  BY <1>1, <1>3, SlotNext
<1>5. due' \in Seq(Scancode \X BOOLEAN)
  BY <1>1, <1>2, <1>3
<1>6. KeyType'
  BY <1>1, <1>2, <1>3, <1>4, <1>5 DEF KeyType
<1>7. kbd' # NULL => kbd'.got = kbd'.due
  BY <1>3 DEF KeyInv, RingInv
<1>8. CASE w + 1 = KEY_QUEUE_LEN
  <2>1. due' = <<>> /\ Len(due') = 0
    BY <1>3, <1>8
  <2>2. key_r' = Slot(key_f' + 0)
    BY <1>1, <1>3, <1>4, <1>8, SlotAfter
  <2> QED
    BY <1>2, <1>6, <1>7, <2>1, <2>2 DEF KeyInv, RingInv, Slot
<1>9. CASE w + 1 # KEY_QUEUE_LEN
  <2> HIDE DEF e
  <2>1. /\ Len(due') = w + 1 /\ due'[w + 1] = e
        /\ \A i \in 1 .. w : due'[i] = due[i]
    BY <1>1, <1>2, <1>3, <1>9, AppendProperties
  <2>2. Len(due') < KEY_QUEUE_LEN
    BY <1>1, <1>2, <1>9, <2>1
  <2>3. key_r' = Slot(key_f' + Len(due'))
    BY <1>1, <1>3, <1>4, <1>9, <2>1, SlotAfter
  <2>4. ASSUME NEW i \in 0 .. Len(due') - 1
        PROVE  key_queue'[Slot(key_f' + i)] = Encoded(due'[1 + i])
    <3>1. CASE i = w
      BY <3>1, <1>1, <1>3, <2>1
    <3>2. CASE i # w
      <4>1. i \in 0 .. w - 1 /\ 1 + i \in 1 .. w
        BY <3>2, <1>1, <2>1
      <4>2. Slot(key_f + i) # key_r /\ Slot(key_f + i) \in 0 .. KEY_QUEUE_LEN - 1
        BY <1>1, <4>1, SlotsDiffer
      <4>3. key_queue[Slot(key_f + i)] = Encoded(due[1 + i])
        BY <4>1 DEF KeyInv, RingInv
      <4> QED
        BY <4>1, <4>2, <4>3, <1>1, <1>3, <2>1
    <3> QED
      BY <3>1, <3>2
  <2> QED
    BY <1>6, <1>7, <2>2, <2>3, <2>4 DEF KeyInv, RingInv, Slot
<1> QED
  BY <1>8, <1>9

(* A code says which key it is of, and whether the key went down. *)
LEMMA Decoded ==
  ASSUME NEW e \in Scancode \X BOOLEAN
  PROVE  <<Encoded(e) % KEYDOWN_MASK, Encoded(e) >= KEYDOWN_MASK>> = e
<1> DEFINE c == Encoded(e)
<1>1. PICK k \in Scancode, d \in BOOLEAN : e = <<k, d>>
  OBVIOUS
<1>2. k \in 1 .. KEYDOWN_MASK - 1 /\ e[1] = k /\ e[2] = d
  BY <1>1, KeyAssumption
<1> HIDE DEF c
<1>3. CASE d = TRUE
  <2>1. c = k + KEYDOWN_MASK
    BY <1>2, <1>3 DEF Encoded, c
  <2>2. c % KEYDOWN_MASK = k /\ c >= KEYDOWN_MASK
    BY <2>1, <1>2, KeyAssumption
  <2>3. (c >= KEYDOWN_MASK) = TRUE
    BY <2>2, Zenon
  <2> QED
    BY <2>2, <2>3, <1>1, <1>3, Zenon DEF c
<1>4. CASE d = FALSE
  <2>1. c = k
    BY <1>2, <1>4 DEF Encoded, c
  <2>2. c % KEYDOWN_MASK = k /\ ~(c >= KEYDOWN_MASK)
    BY <2>1, <1>2, KeyAssumption
  <2>3. (c >= KEYDOWN_MASK) = FALSE
    BY <2>1, <2>2, <1>2, KeyAssumption
  <2> QED
    BY <2>2, <2>3, <1>1, <1>4, Zenon DEF c
<1> QED
  BY <1>3, <1>4

LEMMA InputKeybrdInv ==
  ASSUME KeyInv, input_keybrd
  PROVE  KeyInv'
<1>1. /\ key_f \in 0 .. KEY_QUEUE_LEN - 1 /\ key_r \in 0 .. KEY_QUEUE_LEN - 1
      /\ key_queue \in [0 .. KEY_QUEUE_LEN - 1 -> Nat]
      /\ due \in Seq(Scancode \X BOOLEAN) /\ Len(due) \in Nat
      /\ Len(due) < KEY_QUEUE_LEN /\ key_r = Slot(key_f + Len(due))
      /\ \A i \in 0 .. Len(due) - 1 : key_queue[Slot(key_f + i)] = Encoded(due[1 + i])
      /\ KEY_QUEUE_LEN \in Nat \ {0}
  BY KeyAssumption DEF KeyInv, KeyType, RingInv
<1>2. UNCHANGED <<key_queue, key_r>>
  BY DEF input_keybrd
<1>3. CASE key_f = key_r
  <2>1. due = <<>>
    <3>1. Len(due) = 0
      BY <1>1, <1>3 DEF Slot
    <3> QED
      BY <1>1, <3>1, EmptySeq
  <2>2. UNCHANGED <<key_f, due>> /\ kbd' = [got |-> AM_KEY_NONE, due |-> AM_KEY_NONE]
    BY <1>3, <2>1 DEF input_keybrd
  <2>3. kbd'.got = kbd'.due
    BY <2>2
  <2> QED
    BY <1>1, <1>2, <2>2, <2>3 DEF KeyInv, KeyType, RingInv, Slot
<1>4. CASE key_f # key_r
  <2> DEFINE g == <<Code % KEYDOWN_MASK, Code >= KEYDOWN_MASK>>
  <2>1. Len(due) > 0 /\ due # <<>>
    BY <1>1, <1>4 DEF Slot
  <2>2. /\ due' = Tail(due) /\ key_f' = (key_f + 1) % KEY_QUEUE_LEN
        /\ kbd' = [got |-> g, due |-> Head(due)]
    BY <1>4, <2>1 DEF input_keybrd
  <2>3. g = Head(due)
    <3>1. Head(due) \in Scancode \X BOOLEAN /\ Head(due) = due[1]
      BY <1>1, <2>1
    <3>2. key_queue[Slot(key_f + 0)] = Encoded(due[1 + 0])
      <4>1. \A i \in 0 .. Len(due) - 1 : key_queue[Slot(key_f + i)] = Encoded(due[1 + i])
        BY <1>1
      <4>2. 0 \in 0 .. Len(due) - 1
        BY <1>1, <2>1
      <4> QED
        BY <4>1, <4>2, Zenon
    <3>3. Code = Encoded(Head(due))
      <4>1. Slot(key_f + 0) = key_f
        BY <1>1 DEF Slot
      <4> QED
        BY <3>1, <3>2, <4>1 DEF Code
    <3> QED
      BY <3>1, <3>3, Decoded, Zenon
  <2> HIDE DEF g
  <2>4. /\ due' \in Seq(Scancode \X BOOLEAN) /\ Len(due') = Len(due) - 1
        /\ \A i \in 1 .. Len(due) - 1 : due'[i] = due[i + 1]
    BY <1>1, <2>1, <2>2, HeadTailProperties
  <2>5. key_f' = Slot(key_f + 1) /\ key_f' \in 0 .. KEY_QUEUE_LEN - 1
    BY <1>1, <2>2, SlotNext
  <2>6. key_r = Slot(key_f' + Len(due'))
    BY <1>1, <2>1, <2>4, <2>5 DEF Slot
  <2>7. ASSUME NEW i \in 0 .. Len(due') - 1
        PROVE  key_queue[Slot(key_f' + i)] = Encoded(due'[1 + i])
    <3>1. i + 1 \in 0 .. Len(due) - 1 /\ 1 + i \in 1 .. Len(due) - 1
      BY <1>1, <2>4
    <3>2. Slot(key_f' + i) = Slot(key_f + (i + 1))
      BY <1>1, <2>5, <3>1 DEF Slot
    <3>3. key_queue[Slot(key_f + (i + 1))] = Encoded(due[1 + (i + 1)])
      BY <1>1, <3>1
    <3>4. due'[1 + i] = due[1 + (i + 1)]
      <4>1. (1 + i) + 1 = 1 + (i + 1)
        BY <3>1
      <4> QED
        BY <2>4, <3>1, <4>1
    <3> QED
      BY <3>2, <3>3, <3>4
  <2>8. kbd'.got = kbd'.due
    BY <2>2, <2>3
  <2>9. KeyType'
    BY <1>1, <1>2, <2>4, <2>5 DEF KeyType
  <2>10. RingInv'
    <3>1. Len(due') < KEY_QUEUE_LEN
      BY <1>1, <2>4
    <3> QED
      BY <1>2, <2>6, <2>7, <2>8, <3>1 DEF RingInv, Slot
  <2> QED
    BY <2>9, <2>10 DEF KeyInv
<1> QED
  BY <1>3, <1>4

LEMMA KeyInvKept == KeyInv => KeysKept
<1> SUFFICES ASSUME KeyInv PROVE Len(due) = (key_r - key_f) % KEY_QUEUE_LEN
  BY DEF KeysKept, KeyInv, RingInv
<1>1. PICK w \in Nat : w = Len(due) /\ w < KEY_QUEUE_LEN /\ key_r = Slot(key_f + w)
  BY DEF KeyInv, KeyType, RingInv
<1>2. key_f \in 0 .. KEY_QUEUE_LEN - 1
  BY DEF KeyInv, KeyType
<1>3. CASE key_f + w < KEY_QUEUE_LEN
  BY <1>1, <1>2, <1>3, KeyAssumption DEF Slot
<1>4. CASE ~(key_f + w < KEY_QUEUE_LEN)
  <2>1. key_r - key_f = w - KEY_QUEUE_LEN
    BY <1>1, <1>2, <1>4, KeyAssumption DEF Slot
  <2> QED
    BY <1>1, <2>1, KeyAssumption
<1> QED
  BY <1>3, <1>4

(* For a ring of any length and any codes: the program takes the key       *)
(* events as they were struck, in their order and each once, except those  *)
(* that an event which finds one place left makes the ring forget with     *)
(* itself (event_thread, __am_input_keybrd).                               *)
THEOREM RingKeepsKeys == IoeSpec => []KeysKept
<1>1. KeyInv /\ [KeyNext \/ AudioNext]_ioevars => KeyInv'
  <2> SUFFICES ASSUME KeyInv, [KeyNext \/ AudioNext]_ioevars PROVE KeyInv'
    OBVIOUS
  <2>1. CASE KeyNext
    BY <2>1, EventThreadInv, InputKeybrdInv DEF KeyNext
  <2>2. CASE UNCHANGED keyvars
    BY <2>2 DEF keyvars, KeyInv, KeyType, RingInv, Slot
  <2>3. AudioNext \/ UNCHANGED ioevars => UNCHANGED keyvars
    BY DEF AudioNext, audio_ctrl, audio_write, write, write_count, write_end, audio_play,
           play_nread, read_samples, play_count, ioevars, keyvars
  <2> QED
    BY <2>1, <2>2, <2>3
<1> QED
  BY <1>1, KeyInitInv, KeyInvKept, PTL DEF IoeSpec

----------------------------------------------------------------------------
(* NativeIoe: the pipe of samples *)

AudioType ==
  /\ samples \in Seq(Nat) /\ count \in Int /\ wrote \in Nat
  /\ writer \in Writer \cup {NULL} /\ player \in Player \cup {NULL}
  /\ played \in Seq(Nat \cup {NULL}) /\ playing \in BOOLEAN
  /\ lost \in BOOLEAN /\ partial \in BOOLEAN /\ grown \in BOOLEAN

(* Bytes in the pipe that count does not have yet; bytes handed over that  *)
(* are not in the pipe yet; bytes the callback has read, and has to read.  *)
Pending == IF writer = NULL \/ writer.n = NULL THEN 0 ELSE writer.n
Unsent ==
  IF writer # NULL /\ writer.n \in {NULL, 0} /\ writer.nwrite = 0 THEN Len(writer.buf) ELSE 0
Held == IF player = NULL \/ Between THEN 0 ELSE player.b
Owed == IF player = NULL \/ Between THEN 0 ELSE player.nread - player.b

(* What the callback found, and what it is going to take. *)
NreadInv ==
  player # NULL => /\ player.len > 0
                   /\ ~grown => IF Between THEN count < player.len ELSE player.nread <= player.len

(* The callback reads all it wants at once. *)
PlayerInv ==
  player # NULL /\ ~Between =>
    /\ player.nread >= 0 /\ player.b \in {0, player.nread} /\ Len(player.stream) = player.nread
    /\ player.b = 0 => \A i \in 1 .. player.nread : player.stream[i] = NULL

(* What count says, and what the callback is owed, is in the pipe. *)
CountInv ==
  /\ count = Len(samples) + Held - Pending
  /\ Pending + Owed <= Len(samples)
  /\ PlayerInv

(* A write takes the whole buffer, which has the bytes that come next, or  *)
(* nothing.                                                                *)
WriterInv ==
  writer # NULL =>
    /\ Len(writer.buf) > 0
    /\ \/ writer.n \in {NULL, 0} /\ writer.nwrite \in {0, Len(writer.buf)}
       \/ writer.n = Len(writer.buf) /\ writer.nwrite = 0
    /\ \A i \in 1 .. Len(writer.buf) : writer.buf[i] = wrote - Len(writer.buf) + i

(* All bytes are somewhere, in their order. *)
Sample(x, i) == x = i \/ (grown /\ x = NULL)
BytesInv ==
  /\ WriterInv
  /\ Len(played) + Held + Len(samples) = wrote - Unsent
  /\ \A i \in 1 .. Len(played) : Sample(played[i], i)
  /\ \A i \in 1 .. Held : Sample(player.stream[i], Len(played) + i)
  /\ \A i \in 1 .. Len(samples) : samples[i] = Len(played) + Held + i

AudioInv ==
  /\ AudioType /\ NreadInv
  /\ ~lost => CountInv
  /\ ~lost /\ ~partial => BytesInv

LEMMA ConcatSubSeq ==
  ASSUME NEW S, NEW s \in Seq(S), NEW b \in Seq(S), NEW n \in 1 .. Len(b)
  PROVE  /\ s \o SubSeq(b, 1, n) \in Seq(S) /\ Len(s \o SubSeq(b, 1, n)) = Len(s) + n
         /\ \A i \in 1 .. Len(s) : (s \o SubSeq(b, 1, n))[i] = s[i]
         /\ \A i \in 1 .. n : (s \o SubSeq(b, 1, n))[Len(s) + i] = b[i]
<1> n \in Nat
  OBVIOUS
<1>0. /\ SubSeq(b, 1, n) \in Seq(S) /\ Len(SubSeq(b, 1, n)) = n
      /\ \A i \in 1 .. n : SubSeq(b, 1, n)[i] = b[i]
  OBVIOUS
<1>1. PICK t \in Seq(S) : t = SubSeq(b, 1, n) /\ Len(t) = n /\ \A i \in 1 .. n : t[i] = b[i]
  BY <1>0, Zenon
<1>2. s \o t \in Seq(S) /\ Len(s \o t) = Len(s) + n
  BY <1>1
<1>3. \A i \in 1 .. Len(s) : (s \o t)[i] = s[i]
  BY <1>1
<1>4. \A i \in 1 .. n : (s \o t)[Len(s) + i] = b[i]
  BY <1>1
<1> QED
  BY <1>1, <1>2, <1>3, <1>4, Zenon

LEMMA SubSeqRest ==
  ASSUME NEW S, NEW s \in Seq(S), NEW n \in 0 .. Len(s)
  PROVE  /\ SubSeq(s, n + 1, Len(s)) \in Seq(S) /\ Len(SubSeq(s, n + 1, Len(s))) = Len(s) - n
         /\ \A i \in 1 .. Len(s) - n : SubSeq(s, n + 1, Len(s))[i] = s[n + i]
<1> DEFINE t == SubSeq(s, n + 1, Len(s))
<1>1. Len(s) \in Nat /\ n \in Nat /\ \A i \in n + 1 .. Len(s) : s[i] \in S
  OBVIOUS
<1>2. /\ t \in Seq(S) /\ Len(t) = IF n + 1 <= Len(s) THEN Len(s) - (n + 1) + 1 ELSE 0
      /\ \A i \in 1 .. Len(s) - (n + 1) + 1 : t[i] = s[(n + 1) + i - 1]
  BY <1>1, SubSeqProperties
<1>3. Len(t) = Len(s) - n
  BY <1>1, <1>2
<1>4. ASSUME NEW i \in 1 .. Len(s) - n PROVE t[i] = s[n + i]
  <2>1. i \in 1 .. Len(s) - (n + 1) + 1 /\ (n + 1) + i - 1 = n + i
    BY <1>1
  <2> QED
    BY <1>2, <2>1
<1> QED
  BY <1>2, <1>3, <1>4

LEMMA AudioInitInv == IoeInit => AudioInv
<1> SUFFICES ASSUME IoeInit PROVE AudioInv
  OBVIOUS
<1>1. /\ samples = <<>> /\ count = 0 /\ writer = NULL /\ player = NULL /\ playing = FALSE
      /\ wrote = 0 /\ played = <<>> /\ lost = FALSE /\ partial = FALSE /\ grown = FALSE
  BY DEF IoeInit
<1>2. AudioType
  <2>1. samples \in Seq(Nat) /\ played \in Seq(Nat \cup {NULL}) /\ count \in Int /\ wrote \in Nat
    BY <1>1
  <2> QED
    BY <1>1, <2>1, Zenon DEF AudioType
<1>3. Pending = 0 /\ Unsent = 0 /\ Held = 0 /\ Owed = 0
  BY <1>1 DEF Pending, Unsent, Held, Owed
<1>4. WriterInv /\ PlayerInv /\ NreadInv
  BY <1>1 DEF WriterInv, PlayerInv, NreadInv
<1>5. CountInv /\ BytesInv
  BY <1>1, <1>3, <1>4 DEF CountInv, BytesInv
<1> QED
  BY <1>2, <1>4, <1>5 DEF AudioInv

(* What the lengths and counts are, whatever is lost. *)
LEMMA AudioNumbers ==
  ASSUME AudioType
  PROVE  /\ Len(samples) \in Nat /\ Len(played) \in Nat /\ wrote \in Nat /\ count \in Int
         /\ Pending \in Nat /\ Unsent \in Nat /\ Held \in Nat /\ Owed \in Int
<1>1. Len(samples) \in Nat /\ Len(played) \in Nat /\ wrote \in Nat /\ count \in Int
  BY DEF AudioType
<1>2. Pending \in Nat /\ Unsent \in Nat
  BY DEF AudioType, Pending, Unsent, Writer
<1>3. Held \in Nat /\ Owed \in Int
  BY DEF AudioType, Held, Owed, Player, Between
<1> QED
  BY <1>1, <1>2, <1>3

(* A change of the writer alone that neither sends nor counts a byte.      *)
LEMMA WriterStep ==
  ASSUME AudioInv, writer' \in Writer \cup {NULL}, wrote' = wrote,
         UNCHANGED <<samples, count, player, played, playing, lost, partial, grown>>,
         Pending' = Pending, Unsent' = Unsent \/ lost \/ partial,
         WriterInv' \/ lost \/ partial
  PROVE  AudioInv'
<1>1. AudioType' /\ NreadInv'
  BY DEF AudioInv, AudioType, NreadInv, Between
<1>2. Held' = Held /\ Owed' = Owed
  BY DEF Held, Owed, Between
<1>3. ~lost => CountInv'
  BY <1>2 DEF AudioInv, CountInv, PlayerInv, Between
<1>4. ~lost /\ ~partial => BytesInv'
  BY <1>2 DEF AudioInv, BytesInv, Sample
<1> QED
  BY <1>1, <1>3, <1>4 DEF AudioInv

LEMMA AudioCtrlInv ==
  ASSUME AudioInv, audio_ctrl
  PROVE  AudioInv'
<1>1. /\ count' = 0 /\ lost' = (lost \/ count # 0) /\ playing' \in {playing, TRUE}
      /\ UNCHANGED <<samples, writer, player, wrote, played, partial, grown>>
  BY DEF audio_ctrl
<1>2. AudioType'
  <2>1. playing' \in BOOLEAN /\ lost' \in BOOLEAN
    BY <1>1, Zenon DEF AudioInv, AudioType
  <2> QED
    BY <1>1, <2>1 DEF AudioInv, AudioType
<1>3. NreadInv'
  <2>1. player # NULL => player.len \in Nat /\ player.len > 0
    BY DEF AudioInv, AudioType, NreadInv, Player
  <2> QED
    BY <1>1, <2>1 DEF AudioInv, NreadInv, Between
<1>4. CASE lost'
  BY <1>2, <1>3, <1>4 DEF AudioInv
<1>5. CASE ~lost'
  <2>1. ~lost /\ count' = count
    BY <1>1, <1>5 DEF AudioInv, AudioType
  <2> QED
    BY <1>1, <1>2, <1>3, <2>1 DEF AudioInv, CountInv, BytesInv, PlayerInv, WriterInv, Sample,
       Pending, Unsent, Held, Owed, Between
<1> QED
  BY <1>4, <1>5

LEMMA AudioWriteInv ==
  ASSUME AudioInv, NEW len \in 1 .. MaxBytes, audio_write(len)
  PROVE  AudioInv'
<1> DEFINE w == [buf |-> [i \in 1 .. len |-> wrote + i], nwrite |-> 0, n |-> NULL, loaded |-> NULL]
<1>1. AudioType /\ writer = NULL /\ len \in Nat \ {0} /\ wrote \in Nat
  BY AudioAssumption DEF AudioInv, AudioType, audio_write
<1>2. /\ writer' = w /\ wrote' = wrote + len
      /\ UNCHANGED <<samples, count, playing, player, played, lost, partial, grown>>
  BY DEF audio_write
<1>3. w.buf \in Seq(Nat) /\ Len(w.buf) = len /\ \A i \in 1 .. len : w.buf[i] = wrote + i
  BY <1>1
<1>4. w \in Writer /\ w # NULL
  BY SMTT(30), <1>3, AudioAssumption DEF Writer
<1>5. w.n = NULL /\ w.nwrite = 0
  OBVIOUS
<1> HIDE DEF w
<1>6. AudioType' /\ NreadInv'
  BY <1>1, <1>2, <1>4 DEF AudioInv, AudioType, NreadInv, Between
<1>7. Pending = 0 /\ Unsent = 0 /\ Pending' = 0 /\ Unsent' = len /\ Held' = Held /\ Owed' = Owed
  BY <1>1, <1>2, <1>3, <1>4, <1>5 DEF Pending, Unsent, Held, Owed, Between
<1>8. ~lost => CountInv'
  BY <1>2, <1>7 DEF AudioInv, CountInv, PlayerInv, Between
<1>9. ~lost /\ ~partial => BytesInv'
  <2>1. WriterInv'
    BY <1>1, <1>2, <1>3, <1>4, <1>5 DEF WriterInv
  <2>2. Len(played) \in Nat /\ Len(samples) \in Nat /\ Held \in Nat
    BY <1>1, AudioNumbers
  <2> QED
    BY <1>1, <1>2, <1>7, <2>1, <2>2 DEF AudioInv, BytesInv, Sample
<1> QED
  BY <1>2, <1>6, <1>8, <1>9 DEF AudioInv

LEMMA WriteInv ==
  ASSUME AudioInv, NEW n \in 0 .. MaxBytes, write(n)
  PROVE  AudioInv'
<1>1. /\ AudioType /\ writer # NULL /\ writer \in Writer /\ n \in Nat
      /\ writer.n = NULL /\ writer.nwrite < Len(writer.buf) /\ n <= Len(writer.buf)
  BY AudioAssumption DEF AudioInv, AudioType, write
<1>2. /\ samples' = samples \o SubSeq(writer.buf, 1, n)
      /\ writer' = [writer EXCEPT !.n = n]
      /\ partial' = (partial \/ n \in 1 .. Len(writer.buf) - 1)
      /\ UNCHANGED <<count, playing, player, wrote, played, lost, grown>>
  BY DEF write
<1>3. /\ writer' \in Writer /\ writer' # NULL /\ writer'.n = n
      /\ writer'.nwrite = writer.nwrite /\ writer'.buf = writer.buf
  BY <1>1, <1>2, AudioAssumption DEF Writer
<1>4. /\ writer.buf \in Seq(Nat) /\ samples \in Seq(Nat) /\ writer.nwrite \in Nat
      /\ Len(writer.buf) \in Nat /\ Len(samples) \in Nat
  BY <1>1 DEF Writer, AudioType
<1>5. CASE n = 0
  <2>1. samples' = samples /\ partial' = partial
    <3>1. SubSeq(writer.buf, 1, n) = <<>>
      BY <1>4, <1>5
    <3>2. samples' = samples
      BY <1>2, <1>4, <3>1, ConcatEmptySeq
    <3>3. n \notin 1 .. Len(writer.buf) - 1
      BY <1>4, <1>5
    <3> QED
      BY <1>1, <1>2, <3>2, <3>3 DEF AudioType
  <2>2. Pending' = Pending /\ Unsent' = Unsent
    BY <1>1, <1>3, <1>5 DEF Pending, Unsent
  <2>3. WriterInv' \/ lost \/ partial
    BY <1>1, <1>2, <1>3, <1>4, <1>5 DEF AudioInv, BytesInv, WriterInv
  <2> QED
    BY <1>2, <1>3, <2>1, <2>2, <2>3, WriterStep
<1>6. CASE n # 0
  <2>1. n \in 1 .. Len(writer.buf) /\ n >= 1
    BY <1>1, <1>4, <1>6
  <2>0. samples \in Seq(Nat) /\ writer.buf \in Seq(Nat) /\ samples' = samples \o SubSeq(writer.buf, 1, n)
    BY <1>2, <1>4
  <2>2. samples' \in Seq(Nat) /\ Len(samples') = Len(samples) + n
    BY <2>0, <2>1, ConcatSubSeq
  <2>3. \A i \in 1 .. Len(samples) : samples'[i] = samples[i]
    BY <2>0, <2>1, ConcatSubSeq
  <2>4. \A i \in 1 .. n : samples'[Len(samples) + i] = writer.buf[i]
    BY <2>0, <2>1, ConcatSubSeq
  <2>5. partial' \in BOOLEAN /\ (~partial' => ~partial /\ n = Len(writer.buf))
    <3>1. partial' \in BOOLEAN
      BY <1>1, <1>2, Zenon DEF AudioType
    <3>2. ~partial' => ~partial /\ n \notin 1 .. Len(writer.buf) - 1
      BY <1>2, Zenon
    <3> QED
      BY <1>4, <2>1, <3>1, <3>2
  <2>6. AudioType'
    BY <1>1, <1>2, <1>3, <2>2, <2>5 DEF AudioType
  <2>7. NreadInv'
    BY <1>2 DEF AudioInv, NreadInv, Between
  <2>8. /\ Pending = 0 /\ Pending' = n /\ Unsent' = 0 /\ Held' = Held /\ Owed' = Owed
        /\ Held \in Nat /\ Owed \in Int /\ Len(played) \in Nat /\ wrote \in Nat /\ count \in Int
    <3>1. Pending = 0 /\ Pending' = n /\ Held' = Held /\ Owed' = Owed
      BY <1>1, <1>2, <1>3, AudioAssumption DEF Pending, Held, Owed, Between
    <3>2. Unsent' = 0
      BY <1>1, <1>3, <1>6, AudioAssumption DEF Unsent
    <3> QED
      BY <1>1, <3>1, <3>2, AudioNumbers
  <2>9. ~lost => CountInv'
    <3>1. ~lost => count = Len(samples) + Held - Pending /\ Pending + Owed <= Len(samples) /\ PlayerInv
      BY DEF AudioInv, CountInv
    <3>2. ~lost => count' = Len(samples') + Held' - Pending' /\ Pending' + Owed' <= Len(samples')
      BY <1>1, <1>2, <1>4, <2>2, <2>8, <3>1
    <3>3. ~lost => PlayerInv'
      BY <1>2, <3>1 DEF PlayerInv, Between
    <3> QED
      BY <3>2, <3>3 DEF CountInv
  <2>10. ASSUME ~lost, ~partial' PROVE BytesInv'
    <3>1. ~partial /\ n = Len(writer.buf) /\ BytesInv
      BY <2>5, <2>10 DEF AudioInv
    <3>2. writer.nwrite = 0 /\ \A i \in 1 .. n : writer.buf[i] = wrote - n + i
      BY <1>1, <1>4, <2>1, <3>1 DEF BytesInv, WriterInv
    <3>3. Unsent = n
      BY <1>1, <3>1, <3>2 DEF Unsent
    <3>4. WriterInv'
      BY <1>1, <1>2, <1>3, <1>4, <2>1, <3>1, <3>2 DEF WriterInv
    <3>5. Len(played) + Held + Len(samples) = wrote - n
      BY <3>1, <3>3 DEF BytesInv
    <3>6. \A i \in 1 .. Len(samples') : samples'[i] = Len(played) + Held + i
      <4> SUFFICES ASSUME NEW i \in 1 .. Len(samples') PROVE samples'[i] = Len(played) + Held + i
        OBVIOUS
      <4>1. CASE i <= Len(samples)
        <5>1. i \in 1 .. Len(samples)
          BY <1>4, <2>2, <4>1
        <5> QED
          BY <2>3, <3>1, <5>1 DEF BytesInv
      <4>2. CASE ~(i <= Len(samples))
        <5>1. PICK j \in 1 .. n : i = Len(samples) + j
          <6>1. i - Len(samples) \in 1 .. n /\ i = Len(samples) + (i - Len(samples))
            BY <1>1, <1>4, <2>2, <4>2
          <6> QED
            BY <6>1
        <5>2. samples'[i] = wrote - n + j
          BY <2>4, <3>2, <5>1
        <5>3. /\ n \in Int /\ i \in Int /\ j \in Int /\ Len(samples) \in Int /\ Len(played) \in Int /\ Held \in Int
              /\ wrote \in Int
          BY <1>1, <1>4, <2>8
        <5>4. wrote - n + j = Len(played) + Held + i
          BY <3>5, <5>1, <5>3
        <5> QED
          BY <5>2, <5>4
      <4> QED
        BY <4>1, <4>2
    <3>7. Len(played) + Held + Len(samples') = wrote - 0
      <4>1. /\ n \in Int /\ Len(samples) \in Int /\ Len(played) \in Int /\ Held \in Int /\ wrote \in Int
            /\ Len(samples') = Len(samples) + n
        BY <1>1, <1>4, <2>2, <2>8
      <4> QED
        BY <3>5, <4>1
    <3> QED
      BY <1>2, <2>8, <3>1, <3>4, <3>6, <3>7 DEF BytesInv, Sample
  <2> QED
    BY <1>2, <2>6, <2>7, <2>9, <2>10 DEF AudioInv
<1> QED
  BY <1>5, <1>6

LEMMA WriteCountInv ==
  ASSUME AudioInv, write_count
  PROVE  AudioInv'
<1>1. /\ AudioType /\ writer # NULL /\ writer \in Writer /\ writer.n # NULL
      /\ UNCHANGED <<samples, playing, player, wrote, played, partial>>
  BY DEF AudioInv, AudioType, write_count
<1>2. /\ writer.n \in Nat /\ writer.nwrite \in Nat /\ writer.loaded \in Int \cup {NULL}
      /\ Len(writer.buf) \in Nat
  BY <1>1 DEF Writer
<1>3. CASE writer.loaded = NULL
  <2>1. writer' = [writer EXCEPT !.loaded = count] /\ UNCHANGED <<count, lost, grown>>
    BY <1>3 DEF write_count
  <2>2. /\ writer' \in Writer /\ writer' # NULL /\ writer'.n = writer.n
        /\ writer'.nwrite = writer.nwrite /\ writer'.buf = writer.buf
    BY <1>1, <1>2, <2>1, AudioAssumption DEF Writer, AudioType
  <2>3. Pending' = Pending /\ Unsent' = Unsent
    BY <1>1, <2>2 DEF Pending, Unsent
  <2>4. WriterInv' \/ lost \/ partial
    BY <1>1, <2>2 DEF AudioInv, BytesInv, WriterInv
  <2> QED
    BY <1>1, <2>1, <2>2, <2>3, <2>4, WriterStep
<1>4. CASE writer.loaded # NULL
  <2>1. /\ count' = writer.loaded + writer.n
        /\ lost' = (lost \/ count # writer.loaded)
        /\ grown' = (grown \/ Between)
        /\ writer' = [writer EXCEPT !.nwrite = writer.nwrite + writer.n, !.n = NULL, !.loaded = NULL]
    BY <1>4 DEF write_count
  <2>2. /\ writer' \in Writer /\ writer' # NULL /\ writer'.n = NULL
        /\ writer'.nwrite = writer.nwrite + writer.n /\ writer'.buf = writer.buf
    <3>1. writer' = [buf |-> writer.buf, nwrite |-> writer.nwrite + writer.n, n |-> NULL, loaded |-> NULL]
      BY <1>1, <2>1 DEF Writer
    <3>2. writer' \in Writer
      BY <1>1, <1>2, <3>1 DEF Writer
    <3> QED
      BY <3>1, <3>2, AudioAssumption
  <2>3. grown' \in BOOLEAN /\ lost' \in BOOLEAN /\ (grown => grown') /\ (Between => grown')
    BY <1>1, <2>1, Zenon DEF AudioType
  <2>4. AudioType'
    BY <1>1, <1>2, <1>4, <2>1, <2>2, <2>3 DEF AudioType
  <2>5. NreadInv'
    BY <1>1, <2>3 DEF AudioInv, NreadInv, Between
  <2>6. Pending = writer.n /\ Pending' = 0 /\ Held' = Held /\ Owed' = Owed
    BY <1>1, <2>2 DEF Pending, Held, Owed, Between
  <2>7. Len(samples) \in Nat /\ Held \in Nat /\ Owed \in Int /\ count \in Int /\ Pending \in Nat
    BY <1>1, AudioNumbers
  <2>8. ASSUME ~lost' PROVE CountInv'
    <3>1. ~lost /\ count = writer.loaded
      BY <2>1, <2>8, Zenon
    <3>2. count = Len(samples) + Held - Pending /\ Pending + Owed <= Len(samples) /\ PlayerInv
      BY <3>1 DEF AudioInv, CountInv
    <3>3. count' = Len(samples') + Held' - Pending' /\ Pending' + Owed' <= Len(samples')
      BY <1>1, <1>2, <2>1, <2>6, <2>7, <3>1, <3>2
    <3>4. PlayerInv'
      BY <1>1, <3>2 DEF PlayerInv, Between
    <3> QED
      BY <3>3, <3>4 DEF CountInv
  <2>9. ASSUME ~lost', ~partial' PROVE BytesInv'
    <3>1. BytesInv
      BY <1>1, <2>1, <2>9, Zenon DEF AudioInv
    <3>2. WriterInv'
      BY <1>1, <1>2, <2>2, <3>1 DEF BytesInv, WriterInv
    <3>3. Unsent' = Unsent
      BY <1>1, <1>2, <2>2, <3>1 DEF BytesInv, WriterInv, Unsent
    <3> QED
      BY <1>1, <2>3, <2>6, <3>1, <3>2, <3>3 DEF BytesInv, Sample
  <2> QED
    BY <2>4, <2>5, <2>8, <2>9 DEF AudioInv
<1> QED
  BY <1>3, <1>4

LEMMA WriteEndInv ==
  ASSUME AudioInv, write_end
  PROVE  AudioInv'
<1>1. /\ AudioType /\ writer # NULL /\ writer \in Writer /\ writer.n = NULL
      /\ writer.nwrite >= Len(writer.buf) /\ writer' = NULL
      /\ UNCHANGED <<samples, count, playing, player, wrote, played, lost, partial, grown>>
  BY DEF AudioInv, AudioType, write_end
<1>2. Pending' = Pending
  BY <1>1 DEF Pending
<1>3. WriterInv'
  BY <1>1 DEF WriterInv
<1>4. Unsent' = Unsent \/ lost \/ partial
  <2>1. WriterInv => writer.nwrite # 0
    BY <1>1 DEF WriterInv, Writer
  <2> QED
    BY <1>1, <2>1 DEF AudioInv, BytesInv, Unsent
<1> QED
  BY <1>1, <1>2, <1>3, <1>4, WriterStep

LEMMA AudioPlayInv ==
  ASSUME AudioInv, NEW len \in 1 .. MaxBytes, audio_play(len)
  PROVE  AudioInv'
<1> DEFINE nread == IF count < len THEN NULL ELSE len
           r == Callback(len, nread)
<1>1. /\ AudioType /\ player = NULL /\ player' = r /\ len \in Nat /\ len > 0 /\ count \in Int
      /\ UNCHANGED <<samples, count, playing, writer, wrote, played, lost, partial, grown>>
  BY AudioAssumption DEF AudioInv, AudioType, audio_play, Few
<1>2. CASE count < len
  <2> DEFINE p == [len |-> len, nread |-> NULL, b |-> 0, loaded |-> NULL, stream |-> <<>>]
  <2>1. player' = p
    BY <1>1, <1>2 DEF Callback
  <2>2. player' \in Player /\ player' # NULL /\ Between' /\ player'.len = len
    <3>1. <<>> \in Seq(Nat \cup {NULL})
      OBVIOUS
    <3>2. p \in Player
      BY <1>1, <3>1 DEF Player
    <3>3. p # NULL
      BY <3>2, AudioAssumption
    <3>4. p.nread = NULL /\ p.len = len
      OBVIOUS
    <3> QED
      BY <2>1, <3>2, <3>3, <3>4 DEF Between
  <2>3. AudioType' /\ NreadInv'
    BY <1>1, <1>2, <2>2 DEF AudioType, NreadInv
  <2>4. Pending' = Pending /\ Unsent' = Unsent /\ Held' = 0 /\ Owed' = 0 /\ Held = 0 /\ Owed = 0
    BY <1>1, <2>2 DEF Pending, Unsent, Held, Owed
  <2>5. ~lost => CountInv'
    BY <1>1, <2>2, <2>4 DEF AudioInv, CountInv, PlayerInv
  <2>6. ~lost /\ ~partial => BytesInv'
    BY <1>1, <2>4 DEF AudioInv, BytesInv, WriterInv, Sample
  <2> QED
    BY <1>1, <2>3, <2>5, <2>6 DEF AudioInv
<1>3. CASE ~(count < len)
  <2>1. player' = [len |-> len, nread |-> len, b |-> 0, loaded |-> NULL,
                   stream |-> [i \in 1 .. len |-> NULL]]
    BY <1>1, <1>3, AudioAssumption DEF Callback
  <2>2. [i \in 1 .. len |-> NULL] \in Seq(Nat \cup {NULL}) /\ Len([i \in 1 .. len |-> NULL]) = len
    BY <1>1
  <2>3. /\ player' \in Player /\ player' # NULL /\ ~Between' /\ player'.len = len
        /\ player'.nread = len /\ player'.b = 0 /\ Len(player'.stream) = len
        /\ \A i \in 1 .. len : player'.stream[i] = NULL
    BY <1>1, <2>1, <2>2, AudioAssumption DEF Player, Between
  <2>4. AudioType' /\ NreadInv'
    BY <1>1, <2>3 DEF AudioType, NreadInv
  <2>5. Pending' = Pending /\ Unsent' = Unsent /\ Held' = 0 /\ Owed' = len /\ Held = 0 /\ Owed = 0
    BY <1>1, <2>3 DEF Pending, Unsent, Held, Owed
  <2>6. ~lost => CountInv'
    <3>1. Pending \in Nat /\ Len(samples) \in Nat
      BY <1>1, AudioNumbers
    <3>2. ~lost => count = Len(samples) + 0 - Pending
      BY <2>5 DEF AudioInv, CountInv
    <3>3. ~lost => count' = Len(samples') + Held' - Pending' /\ Pending' + Owed' <= Len(samples')
      BY <1>1, <1>3, <2>5, <3>1, <3>2
    <3> QED
      BY <1>1, <2>3, <3>3 DEF CountInv, PlayerInv
  <2>7. ~lost /\ ~partial => BytesInv'
    BY <1>1, <2>5 DEF AudioInv, BytesInv, WriterInv, Sample
  <2> QED
    BY <1>1, <2>4, <2>6, <2>7 DEF AudioInv
<1> QED
  BY <1>2, <1>3

LEMMA PlayNreadInv ==
  ASSUME AudioInv, play_nread
  PROVE  AudioInv'
<1> DEFINE len == player.len
           r == [len |-> len, nread |-> count, b |-> 0, loaded |-> NULL,
                 stream |-> [i \in 1 .. count |-> NULL]]
<1>1. /\ AudioType /\ Between /\ player \in Player /\ player # NULL /\ count \in Int /\ len \in Nat
      /\ UNCHANGED <<samples, count, playing, writer, wrote, played, lost, partial, grown>>
  BY DEF AudioInv, AudioType, play_nread, Player, Between
<1>2. player' = r
  BY <1>1, AudioAssumption DEF play_nread, Callback
<1>3. /\ r.stream \in Seq(Nat \cup {NULL}) /\ (count \in Nat => Len(r.stream) = count)
      /\ \A i \in 1 .. count : r.stream[i] = NULL
  <2>1. CASE count \in Nat
    BY <2>1
  <2>2. CASE count \notin Nat
    <3>1. 1 .. count = 1 .. 0
      BY <1>1, <2>2
    <3>2. r.stream = [i \in 1 .. 0 |-> NULL]
      BY <3>1
    <3>3. [i \in 1 .. 0 |-> NULL] \in Seq(Nat \cup {NULL})
      OBVIOUS
    <3> QED
      BY <2>2, <3>2, <3>3
  <2> QED
    BY <2>1, <2>2
<1>4. /\ player' \in Player /\ player' # NULL /\ ~Between' /\ player'.len = len
      /\ player'.nread = count /\ player'.b = 0
      /\ count \in Nat => Len(player'.stream) = count
      /\ \A i \in 1 .. count : player'.stream[i] = NULL
  <2>1. r \in Player
    BY <1>1, <1>3 DEF Player
  <2>2. r # NULL /\ count # NULL
    BY <1>1, <2>1, AudioAssumption
  <2>3. r.len = len /\ r.nread = count /\ r.b = 0
    OBVIOUS
  <2> HIDE DEF r
  <2> QED
    BY <1>2, <1>3, <2>1, <2>2, <2>3 DEF Between
<1> HIDE DEF r
<1>5. AudioType'
  BY <1>1, <1>4 DEF AudioType
<1>6. NreadInv'
  BY <1>1, <1>4 DEF AudioInv, NreadInv
<1>7. Pending' = Pending /\ Unsent' = Unsent /\ Held' = 0 /\ Owed' = count /\ Held = 0 /\ Owed = 0
  BY <1>1, <1>4 DEF Pending, Unsent, Held, Owed
<1>8. ~lost => CountInv'
  <2>1. Pending \in Nat /\ Len(samples) \in Nat
    BY <1>1, AudioNumbers
  <2>2. ~lost => count = Len(samples) + 0 - Pending /\ Pending + 0 <= Len(samples)
    BY <1>7 DEF AudioInv, CountInv
  <2>3. ~lost => count \in Nat /\ count = Len(samples) + 0 - Pending /\ Pending + count <= Len(samples)
    BY <1>1, <2>1, <2>2
  <2> QED
    BY <1>1, <1>4, <1>7, <2>3 DEF CountInv, PlayerInv
<1>9. ~lost /\ ~partial => BytesInv'
  BY <1>1, <1>7 DEF AudioInv, BytesInv, WriterInv, Sample
<1> QED
  BY <1>1, <1>5, <1>6, <1>8, <1>9 DEF AudioInv

LEMMA ReadSamplesInv ==
  ASSUME AudioInv, read_samples
  PROVE  AudioInv'
<1> DEFINE n == IF Len(samples) < player.nread THEN Len(samples) ELSE player.nread
           t == [i \in 1 .. Len(player.stream) |->
                   IF i <= n /\ i <= player.len THEN samples[i] ELSE player.stream[i]]
<1>1. /\ AudioType /\ player # NULL /\ player \in Player /\ player.nread # NULL
      /\ player.b < player.nread /\ samples # <<>>
      /\ samples' = SubSeq(samples, n + 1, Len(samples))
      /\ UNCHANGED <<count, playing, writer, wrote, played, lost, partial, grown>>
  BY DEF AudioInv, AudioType, read_samples
<1>2. /\ samples \in Seq(Nat) /\ Len(samples) \in Nat /\ Len(samples) > 0
      /\ player.b \in Nat /\ player.nread \in Nat /\ player.len \in Nat
      /\ player.stream \in Seq(Nat \cup {NULL})
      /\ DOMAIN player.stream = 1 .. Len(player.stream) /\ Len(player.stream) \in Nat
  BY <1>1 DEF Player, AudioType
<1>3. n \in 1 .. Len(samples)
  BY SMTT(30), <1>1, <1>2
<1>4. player' = [len |-> player.len, nread |-> player.nread, b |-> player.b + n,
                 loaded |-> player.loaded, stream |-> t]
  <2>1. player' = [player EXCEPT !.b = player.b + n, !.stream = t]
    BY <1>2 DEF read_samples
  <2> QED
    BY <1>1, <2>1 DEF Player
<1>5. t \in Seq(Nat \cup {NULL}) /\ Len(t) = Len(player.stream)
  BY <1>2, <1>3
<1>6. \A i \in 1 .. Len(player.stream) :
        t[i] = IF i <= n /\ i <= player.len THEN samples[i] ELSE player.stream[i]
  OBVIOUS
<1> HIDE DEF t
<1>7. /\ player' \in Player /\ player' # NULL /\ player'.b = player.b + n /\ player'.len = player.len
      /\ player'.nread = player.nread /\ player'.stream = t
  BY <1>1, <1>2, <1>3, <1>4, <1>5, AudioAssumption DEF Player
<1>8. /\ samples' \in Seq(Nat) /\ Len(samples') = Len(samples) - n
      /\ \A i \in 1 .. Len(samples) - n : samples'[i] = samples[n + i]
  <2> HIDE DEF n
  <2>1. samples \in Seq(Nat) /\ n \in 0 .. Len(samples) /\ samples' = SubSeq(samples, n + 1, Len(samples))
    BY <1>1, <1>2, <1>3
  <2>2. samples' \in Seq(Nat) /\ Len(samples') = Len(samples) - n
    BY <2>1, SubSeqRest
  <2>3. \A i \in 1 .. Len(samples) - n : samples'[i] = samples[n + i]
    BY <2>1, SubSeqRest
  <2> QED
    BY <2>2, <2>3
<1>9. AudioType'
  BY <1>1, <1>7, <1>8 DEF AudioType
<1>10. ~Between /\ ~Between'
  BY <1>1, <1>7 DEF Between
<1>11. NreadInv'
  BY <1>1, <1>7, <1>10 DEF AudioInv, NreadInv
<1>12. Pending' = Pending /\ Unsent' = Unsent /\ Held = player.b
  BY <1>1, <1>10 DEF Pending, Unsent, Held
<1>13. ASSUME ~lost
       PROVE  /\ player.b = 0 /\ Len(player.stream) = n /\ n = player.nread
              /\ \A i \in 1 .. n : player.stream[i] = NULL
              /\ Held = 0 /\ Held' = n /\ Owed = n /\ Owed' = 0
  <2>1. CountInv
    BY <1>13 DEF AudioInv
  <2>2. player.b = 0 /\ Len(player.stream) = player.nread
    BY <1>1, <1>2, <1>10, <2>1 DEF CountInv, PlayerInv
  <2>3. Owed = player.nread /\ Pending \in Nat
    BY <1>1, <1>2, <1>10, <2>2, AudioNumbers DEF Owed
  <2>4. player.nread <= Len(samples)
    BY <1>2, <2>1, <2>3 DEF CountInv
  <2>5. n = player.nread
    BY <1>2, <2>4
  <2>6. Held' = n /\ Owed' = 0
    BY <1>2, <1>7, <1>10, <2>2, <2>5 DEF Held, Owed
  <2> QED
    <3>1. \A i \in 1 .. player.nread : player.stream[i] = NULL
      BY <1>1, <1>10, <2>1, <2>2 DEF CountInv, PlayerInv
    <3> QED
      BY <1>12, <2>2, <2>3, <2>5, <2>6, <3>1
<1> HIDE DEF n
<1>14. /\ Pending \in Int /\ Unsent \in Int /\ wrote \in Int /\ count \in Int /\ n \in Int
       /\ Len(samples) \in Int /\ Len(played) \in Int /\ Len(samples') = Len(samples) - n
  BY <1>1, <1>2, <1>3, <1>8, AudioNumbers
<1>15. ASSUME ~lost PROVE CountInv'
  <2>1. count = Len(samples) + 0 - Pending /\ Pending + n <= Len(samples)
    BY <1>13, <1>15 DEF AudioInv, CountInv
  <2>2. count = Len(samples') + n - Pending /\ Pending + 0 <= Len(samples')
    BY <1>14, <2>1
  <2>3. PlayerInv'
    BY <1>2, <1>3, <1>5, <1>7, <1>13, <1>14, <1>15 DEF PlayerInv
  <2> QED
    BY <1>1, <1>12, <1>13, <1>15, <2>2, <2>3 DEF CountInv
<1>16. ASSUME ~lost, ~partial PROVE BytesInv'
  <2>1. BytesInv /\ NreadInv
    BY <1>16 DEF AudioInv
  <2>2. WriterInv'
    BY <1>1, <2>1 DEF BytesInv, WriterInv
  <2>3. Len(played) + n + Len(samples') = wrote - Unsent
    <3>1. Len(played) + 0 + Len(samples) = wrote - Unsent
      BY <1>13, <1>16, <2>1 DEF BytesInv
    <3> QED
      BY <1>14, <3>1
  <2>4. \A i \in 1 .. Len(samples) : samples[i] = Len(played) + 0 + i
    BY <1>13, <1>16, <2>1 DEF BytesInv
  <2>5. ASSUME NEW i \in 1 .. n PROVE Sample(t[i], Len(played) + i)
    <3>1. i \in 1 .. Len(samples) /\ i \in 1 .. Len(player.stream) /\ i <= n
      BY <1>2, <1>3, <1>13, <1>16
    <3>2. CASE i <= player.len
      BY <1>6, <1>14, <2>4, <3>1, <3>2 DEF Sample
    <3>3. CASE ~(i <= player.len)
      <4>1. grown
        BY <1>1, <1>2, <1>10, <1>13, <1>16, <2>1, <3>1, <3>3 DEF NreadInv
      <4>2. t[i] = NULL
        BY <1>6, <1>13, <1>16, <3>1, <3>3
      <4> QED
        BY <4>1, <4>2 DEF Sample
    <3> QED
      BY <3>2, <3>3
  <2>6. ASSUME NEW i \in 1 .. Len(samples) - n PROVE samples'[i] = Len(played) + n + i
    <3>1. n + i \in 1 .. Len(samples) /\ samples'[i] = samples[n + i]
      BY <1>3, <1>8, <1>14
    <3>2. samples[n + i] = Len(played) + 0 + (n + i)
      BY <2>4, <3>1
    <3> QED
      BY <1>14, <3>1, <3>2
  <2> QED
    BY <1>1, <1>7, <1>8, <1>12, <1>13, <1>16, <2>1, <2>2, <2>3, <2>5, <2>6 DEF BytesInv, Sample
<1> QED
  BY <1>1, <1>9, <1>11, <1>15, <1>16 DEF AudioInv

LEMMA PlayCountInv ==
  ASSUME AudioInv, play_count
  PROVE  AudioInv'
<1>1. /\ AudioType /\ player # NULL /\ player \in Player /\ player.nread # NULL
      /\ player.b >= player.nread
      /\ UNCHANGED <<samples, playing, writer, wrote, partial, grown>>
  BY DEF AudioInv, AudioType, play_count
<1>2. /\ player.b \in Nat /\ player.nread \in Int /\ player.stream \in Seq(Nat \cup {NULL})
      /\ player.loaded \in Int \cup {NULL} /\ Len(player.stream) \in Nat
      /\ Len(samples) \in Nat /\ Len(played) \in Nat /\ wrote \in Nat /\ count \in Int
      /\ Pending \in Nat /\ Unsent \in Nat
  BY <1>1, AudioNumbers DEF Player
<1>3. CASE player.loaded = NULL
  <2>1. player' = [player EXCEPT !.loaded = count] /\ UNCHANGED <<count, played, lost>>
    BY <1>3 DEF play_count
  <2>2. /\ player' \in Player /\ player' # NULL /\ player'.b = player.b /\ player'.len = player.len
        /\ player'.nread = player.nread /\ player'.stream = player.stream
    BY <1>1, <1>2, <2>1, AudioAssumption DEF Player
  <2>3. ~Between /\ ~Between'
    BY <1>1, <2>2 DEF Between
  <2>4. AudioType' /\ NreadInv'
    BY <1>1, <2>1, <2>2, <2>3 DEF AudioInv, AudioType, NreadInv
  <2>5. Pending' = Pending /\ Unsent' = Unsent /\ Held' = Held /\ Owed' = Owed
    BY <1>1, <2>2, <2>3 DEF Pending, Unsent, Held, Owed
  <2>6. ~lost => CountInv'
    BY <1>1, <2>1, <2>2, <2>3, <2>5 DEF AudioInv, CountInv, PlayerInv
  <2>7. ~lost /\ ~partial => BytesInv'
    BY <1>1, <2>1, <2>2, <2>5 DEF AudioInv, BytesInv, WriterInv, Sample
  <2> QED
    BY <1>1, <2>1, <2>4, <2>6, <2>7 DEF AudioInv
<1>4. CASE player.loaded # NULL
  <2>1. /\ count' = player.loaded - player.nread
        /\ lost' = (lost \/ count # player.loaded)
        /\ played' = played \o player.stream
        /\ player' = NULL
    BY <1>4 DEF play_count
  <2>2. played \in Seq(Nat \cup {NULL}) /\ lost' \in BOOLEAN
    BY <1>1, <2>1, Zenon DEF AudioType
  <2>3. played' \in Seq(Nat \cup {NULL}) /\ Len(played') = Len(played) + Len(player.stream)
    BY <1>2, <2>1, <2>2
  <2>4. \A i \in 1 .. Len(played) : played'[i] = played[i]
    BY <1>2, <2>1, <2>2
  <2>5. \A i \in 1 .. Len(player.stream) : played'[Len(played) + i] = player.stream[i]
    BY <1>2, <2>1, <2>2
  <2>6. AudioType' /\ NreadInv'
    BY <1>1, <1>2, <1>4, <2>1, <2>2, <2>3 DEF AudioType, NreadInv
  <2>7. ~Between /\ Pending' = Pending /\ Unsent' = Unsent /\ Held' = 0 /\ Owed' = 0 /\ Held = player.b
    BY <1>1, <2>1 DEF Between, Pending, Unsent, Held, Owed
  <2>8. ASSUME ~lost
        PROVE  /\ player.b = player.nread /\ Len(player.stream) = player.nread
               /\ player.nread \in Nat /\ Owed = 0
    <3>1. PlayerInv
      BY <2>8 DEF AudioInv, CountInv
    <3> QED
      BY <1>1, <1>2, <2>7, <3>1 DEF PlayerInv, Owed
  <2>9. ASSUME ~lost' PROVE CountInv'
    <3>1. ~lost /\ count = player.loaded
      BY <2>1, <2>9, Zenon
    <3>2. /\ count = Len(samples) + player.nread - Pending /\ Pending + 0 <= Len(samples)
          /\ player.nread \in Nat
      BY <2>7, <2>8, <3>1 DEF AudioInv, CountInv
    <3>3. count' = Len(samples) + 0 - Pending
      BY <1>2, <2>1, <3>1, <3>2
    <3> QED
      BY <1>1, <2>1, <2>7, <3>2, <3>3 DEF CountInv, PlayerInv
  <2>10. ASSUME ~lost', ~partial' PROVE BytesInv'
    <3>1. BytesInv /\ ~lost
      BY <1>1, <2>1, <2>10, Zenon DEF AudioInv
    <3>2. /\ Held = player.nread /\ Len(player.stream) = player.nread /\ player.nread \in Nat
      BY <2>7, <2>8, <3>1
    <3>3. WriterInv'
      BY <1>1, <3>1 DEF BytesInv, WriterInv
    <3>4. Len(played') + 0 + Len(samples) = wrote - Unsent
      <4>1. Len(played) + player.nread + Len(samples) = wrote - Unsent
        BY <3>1, <3>2 DEF BytesInv
      <4>2. Len(played') = Len(played) + player.nread
        BY <2>3, <3>2
      <4> QED
        BY <1>2, <3>2, <4>1, <4>2
    <3>5. ASSUME NEW i \in 1 .. Len(played) + player.nread PROVE Sample(played'[i], i)
      <4>1. CASE i <= Len(played)
        <5>1. i \in 1 .. Len(played)
          BY <1>2, <3>2, <4>1
        <5> QED
          BY <2>4, <3>1, <5>1 DEF BytesInv
      <4>2. CASE ~(i <= Len(played))
        <5>1. PICK j \in 1 .. player.nread : i = Len(played) + j
          <6>1. i - Len(played) \in 1 .. player.nread /\ i = Len(played) + (i - Len(played))
            BY <1>2, <3>2, <4>2
          <6> QED
            BY <6>1
        <5>2. Sample(player.stream[j], Len(played) + j)
          BY <3>1, <3>2, <5>1 DEF BytesInv
        <5> QED
          BY <2>5, <3>2, <5>1, <5>2
      <4> QED
        BY <4>1, <4>2
    <3>6. \A i \in 1 .. Len(samples) : samples[i] = Len(played') + 0 + i
      <4>1. \A i \in 1 .. Len(samples) : samples[i] = Len(played) + player.nread + i
        BY <3>1, <3>2 DEF BytesInv
      <4> QED
        BY <1>2, <2>3, <3>2, <4>1
    <3> QED
      BY <1>1, <2>3, <2>7, <3>2, <3>3, <3>4, <3>5, <3>6 DEF BytesInv, Sample
  <2> QED
    BY <2>6, <2>9, <2>10 DEF AudioInv
<1> QED
  BY <1>3, <1>4

LEMMA AudioInvKept == AudioInv => AudioKept
<1> SUFFICES ASSUME AudioInv PROVE AudioKept
  OBVIOUS
<1>1. player # NULL /\ ~Between /\ ~grown => player.nread <= player.len
  BY DEF AudioInv, NreadInv
<1>2. AudioType
  BY DEF AudioInv
<1>3. /\ Len(samples) \in Nat /\ Len(played) \in Nat /\ wrote \in Nat /\ count \in Int
      /\ Pending \in Nat /\ Unsent \in Nat /\ Held \in Nat /\ Owed \in Int
  BY <1>2, AudioNumbers
<1>4. ASSUME ~lost
      PROVE  /\ player = NULL => count <= Len(samples)
             /\ player # NULL /\ ~Between => player.nread - player.b <= Len(samples)
  <2>1. count = Len(samples) + Held - Pending /\ Pending + Owed <= Len(samples)
    BY <1>4 DEF AudioInv, CountInv
  <2>2. player = NULL => count <= Len(samples)
    BY <1>3, <2>1 DEF Held
  <2>3. Owed <= Len(samples)
    BY <1>3, <2>1
  <2> QED
    BY <2>2, <2>3 DEF Owed
<1>5. ASSUME ~lost, ~partial
      PROVE  LET all == played \o InHand \o samples
             IN  /\ Len(all) <= wrote
                 /\ \A i \in 1 .. Len(all) : all[i] = i \/ (grown /\ all[i] = NULL)
  <2> DEFINE A == Nat \cup {NULL}
  <2>1. BytesInv /\ CountInv
    BY <1>5 DEF AudioInv
  <2>2. played \in Seq(A) /\ samples \in Seq(A)
    BY <1>2 DEF AudioType
  <2>3. InHand \in Seq(A) /\ Len(InHand) = Held
        /\ \A i \in 1 .. Held : Sample(InHand[i], Len(played) + i)
    <3>1. CASE player = NULL \/ Between
      BY <3>1 DEF InHand, Held
    <3>2. CASE ~(player = NULL \/ Between)
      <4>1. /\ player.stream \in Seq(A) /\ player.b \in Nat /\ player.b <= Len(player.stream)
        BY <1>2, <2>1, <3>2 DEF AudioType, Player, CountInv, PlayerInv
      <4>2. InHand = SubSeq(player.stream, 1, player.b) /\ Held = player.b
        BY <3>2 DEF InHand, Held
      <4>3. \A i \in 1 .. player.b : Sample(player.stream[i], Len(played) + i)
        BY <2>1, <4>2 DEF BytesInv
      <4> QED
        BY <4>1, <4>2, <4>3
    <3> QED
      BY <3>1, <3>2
  <2>4. /\ Len(played) + Held + Len(samples) <= wrote
        /\ \A i \in 1 .. Len(played) : Sample(played[i], i)
        /\ \A i \in 1 .. Len(samples) : samples[i] = Len(played) + Held + i
    BY <1>3, <2>1 DEF BytesInv
  <2> HIDE DEF A
  <2>5. PICK x \in Seq(A) : /\ x = played \o InHand /\ Len(x) = Len(played) + Held
                            /\ \A i \in 1 .. Len(x) : Sample(x[i], i)
    <3>1. played \o InHand \in Seq(A) /\ Len(played \o InHand) = Len(played) + Held
      BY <2>2, <2>3, ConcatProperties
    <3>2. ASSUME NEW i \in 1 .. Len(played) + Held PROVE Sample((played \o InHand)[i], i)
      <4>1. CASE i <= Len(played)
        <5>1. i \in 1 .. Len(played) /\ (played \o InHand)[i] = played[i]
          BY <1>3, <2>2, <2>3, <4>1
        <5> QED
          BY <2>4, <5>1
      <4>2. CASE ~(i <= Len(played))
        <5>1. PICK j \in 1 .. Held : i = Len(played) + j
          <6>1. i - Len(played) \in 1 .. Held /\ i = Len(played) + (i - Len(played))
            BY <1>3, <4>2
          <6> QED
            BY <6>1
        <5>2. (played \o InHand)[i] = InHand[j]
          BY <1>3, <2>2, <2>3, <5>1
        <5> QED
          BY <2>3, <5>1, <5>2
      <4> QED
        BY <4>1, <4>2
    <3> QED
      BY <3>1, <3>2
  <2>6. Len(x \o samples) = Len(x) + Len(samples)
    BY <2>2, <2>5, ConcatProperties
  <2>7. ASSUME NEW i \in 1 .. Len(x \o samples) PROVE Sample((x \o samples)[i], i)
    <3>1. CASE i <= Len(x)
      <4>1. i \in 1 .. Len(x) /\ (x \o samples)[i] = x[i]
        BY <1>3, <2>2, <2>5, <2>6, <3>1
      <4> QED
        BY <2>5, <4>1
    <3>2. CASE ~(i <= Len(x))
      <4>1. PICK j \in 1 .. Len(samples) : i = Len(x) + j
        <5>1. i - Len(x) \in 1 .. Len(samples) /\ i = Len(x) + (i - Len(x))
          BY <1>3, <2>5, <2>6, <3>2
        <5> QED
          BY <5>1
      <4>2. (x \o samples)[i] = samples[j]
        BY <1>3, <2>2, <2>5, <4>1
      <4> QED
        BY <2>4, <2>5, <4>1, <4>2 DEF Sample
    <3> QED
      BY <3>1, <3>2
  <2>8. Len(x \o samples) <= wrote
    BY <1>3, <2>4, <2>5, <2>6
  <2> QED
    BY <2>5, <2>7, <2>8 DEF Sample
<1> QED
  BY <1>1, <1>4, <1>5 DEF AudioKept

(* For a pipe of any size, buffers and callbacks of any lengths and every  *)
(* interleaving of the program with the callback: the callback writes past *)
(* its stream only if count is stored between its two loads of count;      *)
(* unless an update of count is lost, what count promises is in the pipe;  *)
(* and if no write is cut short besides, the samples played are those      *)
(* written, each in its place, but for those a callback took past the end  *)
(* of its stream (audio_write, audio_play, __am_audio_ctrl).               *)
THEOREM PipeKeepsSamples == IoeSpec => []AudioKept
<1>1. AudioInv /\ [KeyNext \/ AudioNext]_ioevars => AudioInv'
  <2> SUFFICES ASSUME AudioInv, [KeyNext \/ AudioNext]_ioevars PROVE AudioInv'
    OBVIOUS
  <2>1. CASE AudioNext
    BY <2>1, AudioCtrlInv, AudioWriteInv, WriteInv, WriteCountInv, WriteEndInv, AudioPlayInv,
       PlayNreadInv, ReadSamplesInv, PlayCountInv DEF AudioNext
  <2>2. CASE UNCHANGED audiovars
    BY <2>2 DEF audiovars, AudioInv, AudioType, NreadInv, CountInv, BytesInv, WriterInv, PlayerInv,
                Sample, Pending, Unsent, Held, Owed, Between
  <2>3. KeyNext \/ UNCHANGED ioevars => UNCHANGED audiovars
    BY DEF KeyNext, event_thread, input_keybrd, ioevars, audiovars
  <2> QED
    BY <2>1, <2>2, <2>3
<1> QED
  BY <1>1, AudioInitInv, AudioInvKept, PTL DEF IoeSpec

----------------------------------------------------------------------------
(* Sd *)

(* Where a request stands: at the byte that comes next, in the block of    *)
(* that byte, and what it writes lies in blocks that count as touched.     *)
Placed(r) ==
  /\ r.count > 0 /\ r.pos <= r.count /\ Len(r.data) = r.count
  /\ r.from + r.count <= blkcnt * blksz
  /\ r.pos < r.count => r.offset = r.from + r.pos /\ r.st = blksz * (r.offset \div blksz)
  /\ r.pc \in {"copy", "store"} => r.pos < r.count
  /\ r.pc = "store" => r.write
  /\ r.write => (r.from \div blksz) .. ((r.from + r.count - 1) \div blksz) \subseteq touched

(* What the image and the buffer are during a request that is alone: a     *)
(* write has stored its first pos bytes, and the image ends where they end *)
(* or where it ended before.                                               *)
Written(r) ==
  /\ Len(image) = IF r.pos > 0 /\ r.from + r.pos > Len(ref) THEN r.from + r.pos ELSE Len(ref)
  /\ r.pos > 0 => r.from <= Len(ref)
  /\ \A i \in 1 .. Len(image) :
       image[i] = IF i \in r.from + 1 .. r.from + r.pos THEN r.data[i - r.from] ELSE ref[i]
Given(r) ==
  /\ image = ref
  /\ \A i \in 1 .. r.pos : r.data[i] = ref[r.from + i]
Loaded(r) ==
  /\ r.st + blksz <= Len(image)
  /\ \A j \in 1 .. blksz : buf[j] = image[r.st + j]
Filled(r) ==
  LET o == r.offset - r.st
  IN  /\ Part(r) < blksz => r.st + blksz <= Len(image)
      /\ \A j \in 1 .. blksz :
           buf[j] = IF j \in o + 1 .. o + Part(r) THEN r.data[r.pos + j - o] ELSE image[r.st + j]
Doing(r) ==
  /\ IF r.write THEN Written(r) ELSE Given(r)
  /\ r.pc = "copy" => Loaded(r)
  /\ r.pc = "store" => Filled(r)

SdTypes ==
  /\ image \in Seq(Byte) /\ Len(Image) <= Len(image)
  /\ buf \in [1 .. blksz -> Byte]
  /\ request \in [Caller -> Request \cup {NULL}]
  /\ made \in Nat
Untouched == \A i \in 1 .. Len(Image) : (i - 1) \div blksz \notin touched => image[i] = Image[i]
GotRight == got # NULL => got.data = got.want
Sequential ==
  /\ ref \in Seq(Byte) /\ Len(Image) <= Len(ref)
  /\ \A p, q \in Caller : request[p] # NULL /\ request[q] # NULL => p = q
  /\ (\A p \in Caller : request[p] = NULL) => image = ref
  /\ \A p \in Caller : request[p] # NULL => Doing(request[p])

SdInv ==
  /\ SdTypes /\ Untouched /\ GotRight
  /\ \A p \in Caller : request[p] # NULL => Placed(request[p])
  /\ ~overlap => Sequential

(* Blocks: a byte lies in the block its number divided by the size names.  *)
LEMMA TimesOrder ==
  ASSUME NEW b \in Nat, NEW x \in Nat, NEW y \in Nat, x <= y
  PROVE  b * x <= b * y /\ b * x \in Nat
<1>1. PICK d \in Nat : y = x + d
  OBVIOUS
<1>2. b * y = b * x + b * d /\ b * d \in Nat /\ b * x \in Nat
  BY <1>1
<1> QED
  BY <1>2

LEMMA Block ==
  ASSUME NEW b \in Nat \ {0}, NEW i \in Nat
  PROVE  /\ i \div b \in Nat /\ b * (i \div b) \in Nat
         /\ b * (i \div b) <= i /\ i < b * (i \div b) + b
         /\ b * (i \div b) = i - (i % b)
<1>1. i \div b \in Nat /\ i % b \in 0 .. b - 1 /\ i = b * (i \div b) + (i % b)
  OBVIOUS
<1>2. PICK q \in Nat, m \in 0 .. b - 1 : q = i \div b /\ m = i % b
  BY <1>1
<1>3. b * q \in Nat
  OBVIOUS
<1> QED
  BY <1>1, <1>2, <1>3

LEMMA BlockOf ==
  ASSUME NEW b \in Nat \ {0}, NEW q \in Nat, NEW i \in Nat, b * q <= i, i < b * q + b
  PROVE  i \div b = q
<1>1. PICK k \in Nat : k = i \div b
  BY Block
<1>2. b * k <= i /\ i < b * k + b
  BY <1>1, Block
<1>3. b * (k + 1) = b * k + b /\ b * (q + 1) = b * q + b /\ b * k \in Nat /\ b * q \in Nat
  OBVIOUS
<1>4. ASSUME k < q PROVE FALSE
  <2>1. b * (k + 1) <= b * q
    BY <1>4, TimesOrder
  <2> QED
    BY <1>2, <1>3, <2>1
<1>5. ASSUME q < k PROVE FALSE
  <2>1. b * (q + 1) <= b * k
    BY <1>5, TimesOrder
  <2> QED
    BY <1>2, <1>3, <2>1
<1> QED
  BY <1>1, <1>4, <1>5

LEMMA BlockOrder ==
  ASSUME NEW b \in Nat \ {0}, NEW i \in Nat, NEW j \in Nat, i <= j
  PROVE  i \div b <= j \div b
<1>1. PICK k \in Nat, l \in Nat : k = i \div b /\ l = j \div b
  BY Block
<1>2. b * k <= i /\ i < b * k + b /\ b * l <= j /\ j < b * l + b
  BY <1>1, Block
<1>3. b * (l + 1) = b * l + b /\ b * k \in Nat /\ b * l \in Nat
  OBVIOUS
<1>4. ASSUME l < k PROVE FALSE
  <2>1. b * (l + 1) <= b * k
    BY <1>4, TimesOrder
  <2> QED
    BY <1>2, <1>3, <2>1
<1> QED
  BY <1>1, <1>4

LEMMA ImageLength == Image \in Seq(Byte) /\ Len(Image) \in Nat
<1>1. Image \in Seq(ToSet(Image))
  BY SdAssumption
<1> QED
  BY <1>1 DEF Byte

(* The blocks of the disk: the last one begins within the image.           *)
LEMMA LastBlock ==
  ASSUME NEW i \in Nat, i < blkcnt * blksz
  PROVE  blksz * (i \div blksz) <= Len(Image)
<1>1. PICK b \in Nat \ {0}, n \in Nat : b = blksz /\ n = Len(Image)
  BY SdAssumption, ImageLength
<1>2. PICK k \in Nat, l \in Nat : k = (n + b - 1) \div b /\ l = i \div b
  <2>1. n + b - 1 \in Nat
    OBVIOUS
  <2> QED
    BY <2>1, Block
<1>3. b * k <= n + b - 1 /\ b * l <= i /\ i < k * b
  <2>1. n + b - 1 \in Nat
    OBVIOUS
  <2>2. b * k <= n + b - 1
    BY <1>2, <2>1, Block
  <2>3. b * l <= i
    BY <1>2, Block
  <2>4. i < k * b
    BY <1>1, <1>2 DEF blkcnt
  <2> QED
    BY <2>2, <2>3, <2>4
<1>4. b * (l + 1) = b * l + b /\ b * k = k * b /\ b * k \in Nat /\ b * l \in Nat
  OBVIOUS
<1>5. ASSUME k <= l PROVE FALSE
  <2>1. b * k <= b * l
    BY <1>5, TimesOrder
  <2> QED
    BY <1>3, <1>4, <2>1
<1>6. b * (l + 1) <= b * k
  BY <1>5, TimesOrder
<1> QED
  BY <1>1, <1>2, <1>3, <1>4, <1>6

(* A request's turn: its part of the block, and where it goes on.          *)
LEMMA Turn ==
  ASSUME NEW r \in Request, Placed(r), r.pos < r.count
  PROVE  /\ r.offset \in Nat /\ r.st \in Nat /\ r.pos \in Nat /\ r.count \in Nat /\ r.from \in Nat
         /\ r.st <= r.offset /\ r.offset < r.st + blksz
         /\ Part(r) \in 1 .. blksz /\ r.offset - r.st + Part(r) <= blksz
         /\ r.pos + Part(r) <= r.count
         /\ Part(r) = blksz => r.offset = r.st
         /\ r.pos + Part(r) < r.count => r.offset + Part(r) = r.st + blksz
         /\ r.offset = r.from + r.pos
         /\ r.st <= Len(Image)
         /\ r.offset + Part(r) <= r.st + blksz
<1>1. PICK b \in Nat \ {0} : b = blksz
  BY SdAssumption
<1>2. /\ r.offset \in Nat /\ r.st \in Nat /\ r.pos \in Nat /\ r.count \in Nat /\ r.from \in Nat
      /\ r.offset = r.from + r.pos /\ r.st = b * (r.offset \div b)
      /\ r.from + r.count <= blkcnt * blksz
  BY <1>1 DEF Request, Placed
<1>3. r.st <= r.offset /\ r.offset < r.st + b
  BY <1>2, Block
<1>4. Part(r) = IF b - (r.offset - r.st) > r.count - r.pos THEN r.count - r.pos ELSE b - (r.offset - r.st)
  BY <1>1 DEF Part
<1>5. blkcnt * blksz \in Nat
  <2>1. Len(Image) + blksz - 1 \in Nat
    BY SdAssumption, ImageLength
  <2>2. blkcnt \in Nat
    BY <2>1, SdAssumption, Block DEF blkcnt
  <2> QED
    BY <2>2, SdAssumption
<1>6. r.offset < blkcnt * blksz
  BY <1>2, <1>5
<1>7. r.st <= Len(Image)
  BY <1>1, <1>2, <1>6, LastBlock
<1>8. /\ Part(r) \in 1 .. b /\ r.offset - r.st + Part(r) <= b
      /\ r.pos + Part(r) <= r.count
      /\ Part(r) = b => r.offset = r.st
      /\ r.pos + Part(r) < r.count => r.offset + Part(r) = r.st + b
      /\ r.offset + Part(r) <= r.st + b
  <2>1. PICK n : n = Part(r)
    OBVIOUS
  <2>2. PICK o \in 0 .. b - 1, m \in Nat \ {0} : o = r.offset - r.st /\ m = r.count - r.pos
    BY <1>2, <1>3
  <2>3. n = IF b - o > m THEN m ELSE b - o
    BY <1>4, <2>1, <2>2
  <2>4. n \in 1 .. b /\ o + n <= b /\ n <= m /\ (n = b => o = 0) /\ (n < m => o + n = b)
    BY <2>3
  <2> QED
    BY <1>2, <2>1, <2>2, <2>4
<1> QED
  BY <1>1, <1>2, <1>3, <1>7, <1>8

LEMMA AdvancePlaced ==
  ASSUME NEW r \in Request, Placed(r), r.pos < r.count
  PROVE  /\ Advance(r) \in Request /\ Placed(Advance(r))
         /\ Advance(r).pos = r.pos + Part(r) /\ Advance(r).from = r.from /\ Advance(r).data = r.data
         /\ Advance(r).write = r.write /\ Advance(r).count = r.count /\ Advance(r).pc = "loop"
<1>1. PICK b \in Nat \ {0} : b = blksz
  BY SdAssumption
<1>2. PICK n \in 1 .. b : n = Part(r)
  BY <1>1, Turn
<1>3. /\ r.offset \in Nat /\ r.st \in Nat /\ r.pos \in Nat /\ r.count \in Nat /\ r.from \in Nat
      /\ r.pos + n <= r.count /\ r.offset = r.from + r.pos
      /\ r.pos + n < r.count => r.offset + n = r.st + b
  BY <1>1, <1>2, Turn
<1>4. PICK a : a = Advance(r)
  OBVIOUS
<1>5. /\ a = [r EXCEPT !.pos = r.pos + n, !.offset = r.st + b, !.st = r.st + b, !.pc = "loop"]
  BY <1>1, <1>2, <1>4 DEF Advance
<1>6. /\ a \in Request /\ a.pos = r.pos + n /\ a.offset = r.st + b /\ a.st = r.st + b /\ a.pc = "loop"
      /\ a.from = r.from /\ a.data = r.data /\ a.write = r.write /\ a.count = r.count
  <2>1. PICK k, o : k = r.pos + n /\ o = r.st + b /\ k \in Nat /\ o \in Nat
    BY <1>3
  <2>2. a = [r EXCEPT !.pos = k, !.offset = o, !.st = o, !.pc = "loop"]
    BY <1>5, <2>1
  <2>3. /\ a \in Request /\ a.pos = k /\ a.offset = o /\ a.st = o /\ a.pc = "loop"
        /\ a.from = r.from /\ a.data = r.data /\ a.write = r.write /\ a.count = r.count
    BY <2>1, <2>2 DEF Request
  <2> QED
    BY <2>1, <2>3
<1>7. a.pos < a.count => a.offset = a.from + a.pos /\ a.st = b * (a.offset \div b)
  <2> SUFFICES ASSUME r.pos + n < r.count PROVE a.offset = a.from + a.pos /\ a.st = b * (a.offset \div b)
    BY <1>6
  <2>1. a.offset = a.from + a.pos
    BY <1>3, <1>6
  <2>2. PICK q \in Nat : q = r.offset \div b
    BY <1>3, Block
  <2>3. r.st = b * q
    BY <1>1, <2>2 DEF Placed
  <2>4. b * (q + 1) = b * q + b /\ b * q \in Nat
    OBVIOUS
  <2>5. a.st = b * (q + 1) /\ a.offset = a.st /\ a.offset \in Nat
    BY <1>3, <1>6, <2>3, <2>4
  <2>6. a.offset \div b = q + 1
    BY <2>5, BlockOf
  <2> QED
    BY <2>1, <2>5, <2>6
<1>8. Placed(a)
  BY <1>1, <1>3, <1>6, <1>7 DEF Placed
<1> QED
  BY <1>2, <1>4, <1>6, <1>8

(* A step of p's request that leaves the other callers' alone keeps the    *)
(* invariant if it keeps p's part of it.                                   *)
LEMMA SetFrame ==
  ASSUME SdInv, NEW p \in Caller, request[p] # NULL, NEW s \in Request \cup {NULL},
         request' = [request EXCEPT ![p] = s], UNCHANGED <<overlap, touched, made>>,
         image' \in Seq(Byte), Len(Image) <= Len(image'), buf' \in [1 .. blksz -> Byte],
         s # NULL => Placed(s), Untouched', GotRight',
         ~overlap => /\ ref' \in Seq(Byte) /\ Len(Image) <= Len(ref')
                     /\ s = NULL => image' = ref'
                     /\ s # NULL => Doing(s)'
  PROVE  SdInv'
<1>1. SdTypes /\ Untouched /\ GotRight /\ \A q \in Caller : request[q] # NULL => Placed(request[q])
  BY DEF SdInv
<1>2. request'[p] = s /\ \A q \in Caller : q # p => request'[q] = request[q]
  BY <1>1 DEF SdTypes
<1>3. SdTypes'
  BY <1>1 DEF SdTypes
<1>4. ASSUME NEW q \in Caller, request'[q] # NULL PROVE Placed(request[q])'
  <2>1. CASE q # p
    BY <1>1, <1>2, <1>4, <2>1 DEF Placed
  <2>2. CASE q = p
    BY <1>2, <1>4, <2>2 DEF Placed
  <2> QED
    BY <2>1, <2>2
<1>5. ASSUME ~overlap PROVE Sequential'
  <2>1. \A q \in Caller : q # p => request[q] = NULL
    BY <1>5 DEF SdInv, Sequential
  <2>2. \A q \in Caller : q # p => request'[q] = NULL
    BY <1>2, <2>1
  <2>3. ASSUME NEW q \in Caller, request'[q] # NULL PROVE Doing(request[q])'
    <3>1. q = p /\ request'[q] = s /\ s # NULL
      BY <1>2, <2>2, <2>3
    <3>2. Doing(s)'
      BY <1>5, <3>1
    <3> QED
      BY <3>1, <3>2 DEF Doing, Written, Given, Loaded, Filled, Part
  <2> QED
    BY <1>2, <1>5, <2>2, <2>3 DEF Sequential
<1> QED
  BY <1>3, <1>4, <1>5 DEF SdInv

LEMMA SdInitInv == SdInit => SdInv
<1> SUFFICES ASSUME SdInit PROVE SdInv
  OBVIOUS
<1>1. Image \in Seq(Byte) /\ Len(Image) \in Nat
  BY ImageLength
<1>2. NULL \in Byte /\ blksz \in Nat
  BY SdAssumption DEF Byte
<1>3. SdTypes
  BY <1>1, <1>2 DEF SdInit, SdTypes
<1>4. Sequential /\ Untouched /\ GotRight
  BY <1>1 DEF SdInit, Sequential, Untouched, GotRight
<1> QED
  BY <1>3, <1>4 DEF SdInit, SdInv

(* What a block write makes of an image that reaches up to the block.      *)
LEMMA StoredSeq ==
  ASSUME NEW img \in Seq(Byte), NEW data \in Seq(Byte), NEW from \in Nat, from <= Len(img)
  PROVE  /\ Stored(img, from, data) \in Seq(Byte)
         /\ Len(Stored(img, from, data)) = IF from + Len(data) > Len(img) THEN from + Len(data) ELSE Len(img)
         /\ \A i \in 1 .. Len(Stored(img, from, data)) :
              Stored(img, from, data)[i] = IF i \in from + 1 .. from + Len(data) THEN data[i - from] ELSE img[i]
<1>1. PICK n \in Nat, m \in Nat, k \in Nat :
        n = Len(img) /\ m = Len(data) /\ k = IF from + m > n THEN from + m ELSE n
  OBVIOUS
<1>2. PICK f : f = [i \in 1 .. k |-> IF i \in from + 1 .. from + m THEN data[i - from] ELSE img[i]]
  OBVIOUS
<1>3. Stored(img, from, data) = f
  BY <1>1, <1>2 DEF Stored
<1>4. ASSUME NEW i \in 1 .. k PROVE f[i] \in Byte
  <2>1. CASE i \in from + 1 .. from + m
    <3>1. i - from \in 1 .. Len(data)
      BY <1>1, <2>1
    <3> QED
      BY <1>2, <2>1, <3>1
  <2>2. CASE ~(i \in from + 1 .. from + m)
    <3>1. i \in 1 .. Len(img)
      BY <1>1, <2>2
    <3> QED
      BY <1>2, <2>2, <3>1
  <2> QED
    BY <2>1, <2>2
<1>5. f \in [1 .. k -> Byte]
  BY <1>2, <1>4
<1>6. f \in Seq(Byte) /\ Len(f) = k
  BY <1>5
<1> QED
  BY <1>1, <1>2, <1>3, <1>6

(* Steps about the disk as such, and a request that the missing disk       *)
(* refuses, leave all that the invariant names alone.                      *)
LEMMA SdQuiet ==
  ASSUME SdInv, UNCHANGED <<image, buf, request, ref, got, overlap, touched>>, made' \in Nat
  PROVE  SdInv'
  BY DEF SdInv, SdTypes, Untouched, GotRight, Placed, Sequential, Doing, Written, Given, Loaded, Filled, Part

(* sd_read and sd_write begin.                                             *)
LEMMA CallStep ==
  ASSUME SdInv, NEW p \in Caller, sd_read(p) \/ sd_write(p) PROVE SdInv'
<1>1. PICK wr \in BOOLEAN, offset \in 0 .. blkcnt * blksz - 1 :
        \E len \in 1 .. blkcnt * blksz - offset : Call(p, wr, offset, len)
  BY DEF sd_read, sd_write
<1>2. PICK len \in 1 .. blkcnt * blksz - offset : Call(p, wr, offset, len)
  BY <1>1
<1>3. SdTypes /\ Untouched /\ GotRight /\ \A q \in Caller : request[q] # NULL => Placed(request[q])
  BY DEF SdInv
<1>4. CASE UNCHANGED <<request, overlap, touched>>
  BY <1>2, <1>3, <1>4, SdQuiet DEF Call, SdTypes
<1>5. CASE disk = "present"
  <2> DEFINE bytes == [i \in 1 .. len |-> IF wr THEN <<"new", made, i>> ELSE NULL]
             r == [write |-> wr, offset |-> offset, count |-> len, pos |-> 0, pc |-> "loop",
                   from |-> offset, st |-> offset - (offset % blksz), data |-> bytes]
             new == (offset \div blksz) .. ((offset + len - 1) \div blksz)
  <2>1. /\ request[p] = NULL /\ request' = [request EXCEPT ![p] = r] /\ made' = made + 1
        /\ overlap' = (overlap \/ \E q \in Caller : request[q] # NULL)
        /\ touched' = IF wr THEN touched \cup new ELSE touched
        /\ UNCHANGED <<image, buf, ref, got>>
    BY <1>2, <1>5 DEF Call
  <2>2. blksz \in Nat \ {0} /\ blkcnt * blksz \in Int /\ offset \in Nat /\ len \in Nat \ {0} /\ made \in Nat
    <3>1. Len(Image) + blksz - 1 \in Nat
      BY SdAssumption, ImageLength
    <3>2. blkcnt \in Nat
      BY <3>1, SdAssumption, Block DEF blkcnt
    <3> QED
      BY <1>3, <3>2, SdAssumption DEF SdTypes
  <2>3. offset + len <= blkcnt * blksz
    BY <2>2
  <2>4. bytes \in Seq(Byte) /\ Len(bytes) = len
    <3>1. \A i \in 1 .. len : <<"new", made, i>> \in {"new"} \X Nat \X Nat
      BY <2>2
    <3>2. \A i \in 1 .. len : bytes[i] \in Byte
      BY <3>1 DEF Byte
    <3>3. bytes \in [1 .. len -> Byte]
      BY <3>2
    <3> HIDE DEF bytes
    <3> QED
      BY <2>2, <3>3
  <2>5. /\ offset - (offset % blksz) = blksz * (offset \div blksz)
        /\ offset - (offset % blksz) \in Nat
    BY <2>2, Block
  <2> HIDE DEF bytes
  <2>6. r \in Request /\ r # NULL
    BY SMTT(30), <2>2, <2>4, <2>5, SdAssumption DEF Request
  <2>7. /\ r.write = wr /\ r.offset = offset /\ r.count = len /\ r.pos = 0 /\ r.pc = "loop"
        /\ r.from = offset /\ r.st = blksz * (offset \div blksz) /\ r.data = bytes
    BY <2>5
  <2> HIDE DEF r
  <2>15. PICK s : s = r
    OBVIOUS
  <2>16. /\ s.write = wr /\ s.offset = offset /\ s.count = len /\ s.pos = 0 /\ s.pc = "loop"
         /\ s.from = offset /\ s.st = blksz * (offset \div blksz) /\ Len(s.data) = len
         /\ s \in Request /\ s # NULL /\ request' = [request EXCEPT ![p] = s]
    BY <2>1, <2>4, <2>6, <2>7, <2>15
  <2>8. Placed(s)'
    BY <2>1, <2>2, <2>3, <2>16 DEF Placed
  <2>9. request'[p] = s /\ \A q \in Caller : q # p => request'[q] = request[q]
    BY <1>3, <2>16 DEF SdTypes
  <2>10. SdTypes'
    BY <1>3, <2>1, <2>2, <2>16 DEF SdTypes
  <2>11. touched \subseteq touched'
    BY <2>1
  <2>12. Untouched' /\ GotRight'
    BY <1>3, <2>1, <2>11 DEF Untouched, GotRight
  <2>13. ASSUME NEW q \in Caller, request'[q] # NULL PROVE Placed(request[q])'
    <3>1. CASE q = p
      BY <2>8, <2>9, <3>1 DEF Placed
    <3>2. CASE q # p
      BY <1>3, <2>9, <2>11, <2>13, <3>2 DEF Placed
    <3> QED
      BY <3>1, <3>2
  <2>14. ASSUME ~overlap' PROVE Sequential'
    <3>1. ~overlap /\ \A q \in Caller : request[q] = NULL
      BY <2>1, <2>14
    <3>2. image = ref /\ ref \in Seq(Byte) /\ Len(Image) <= Len(ref)
      BY <3>1 DEF SdInv, Sequential
    <3>3. \A q \in Caller : q # p => request'[q] = NULL
      BY <2>9, <3>1
    <3>4. Doing(s)'
      <4>1. Given(s)'
        BY <2>1, <2>16, <3>2 DEF Given
      <4>2. Written(s)'
        BY <2>1, <2>2, <2>16, <3>2 DEF Written
      <4> QED
        BY <2>16, <4>1, <4>2 DEF Doing
    <3>5. ASSUME NEW q \in Caller, request'[q] # NULL PROVE Doing(request[q])'
      <4>1. q = p /\ request'[q] = s
        BY <2>9, <3>3, <3>5
      <4> QED
        BY <3>4, <4>1 DEF Doing, Written, Given, Loaded, Filled, Part
    <3> QED
      BY <2>1, <2>9, <2>16, <3>2, <3>3, <3>5 DEF Sequential
  <2> QED
    BY <2>10, <2>12, <2>13, <2>14 DEF SdInv
<1> QED
  BY <1>2, <1>4, <1>5 DEF Call

(* A block comes into the buffer.                                          *)
LEMMA ReadBlockStep ==
  ASSUME SdInv, NEW p \in Caller, blk_read(p) PROVE SdInv'
<1>1. SdTypes /\ Untouched /\ GotRight /\ \A q \in Caller : request[q] # NULL => Placed(request[q])
  BY DEF SdInv
<1>2. PICK r : r = request[p]
  OBVIOUS
<1>3. r # NULL /\ r.pc = "loop" /\ r.pos < r.count /\ UNCHANGED <<image, made, ref, got, overlap, touched>>
  BY <1>2 DEF blk_read
<1>4. r \in Request /\ Placed(r)
  BY <1>1, <1>2, <1>3 DEF SdTypes
<1>5. CASE UNCHANGED <<buf, request>>
  BY <1>1, <1>3, <1>5, SdQuiet DEF SdTypes
<1>6. CASE /\ r.st + blksz <= Len(image) /\ buf' = SubSeq(image, r.st + 1, r.st + blksz)
           /\ request' = [request EXCEPT ![p] = [r EXCEPT !.pc = "copy"]]
  <2>1. PICK s : s = [r EXCEPT !.pc = "copy"]
    OBVIOUS
  <2>2. /\ s \in Request /\ s.pc = "copy" /\ s.write = r.write /\ s.offset = r.offset /\ s.count = r.count
        /\ s.pos = r.pos /\ s.from = r.from /\ s.st = r.st /\ s.data = r.data
    BY <1>4, <2>1 DEF Request
  <2>3. s # NULL /\ Placed(s)
    BY <1>3, <1>4, <2>2, SdAssumption DEF Placed
  <2>4. PICK b \in Nat \ {0}, n \in Nat : b = blksz /\ n = r.st
    BY <1>4, SdAssumption DEF Request
  <2>5. image \in Seq(Byte) /\ n + b <= Len(image) /\ buf' = SubSeq(image, n + 1, n + b)
    BY <1>1, <1>6, <2>4 DEF SdTypes
  <2>6. buf' \in [1 .. b -> Byte] /\ \A j \in 1 .. b : buf'[j] = image[n + j]
    <3>1. Len(buf') = b /\ buf' \in Seq(Byte)
      BY <2>5
    <3>2. ASSUME NEW j \in 1 .. b PROVE buf'[j] = image[n + j]
      BY <2>5, <3>1
    <3> QED
      BY <3>1, <3>2
  <2>7. Untouched' /\ GotRight' /\ Len(Image) <= Len(image')
    BY <1>1, <1>3 DEF Untouched, GotRight, SdTypes
  <2>8. ASSUME ~overlap PROVE ref' \in Seq(Byte) /\ Len(Image) <= Len(ref') /\ Doing(s)'
    <3>1. Sequential /\ Doing(r)
      BY <1>2, <1>3, <2>8 DEF SdInv, Sequential
    <3>2. Loaded(s)'
      BY <1>3, <2>2, <2>4, <2>5, <2>6 DEF Loaded
    <3>3. IF s.write THEN Written(s)' ELSE Given(s)'
      BY <1>3, <2>2, <3>1 DEF Doing, Written, Given
    <3> QED
      BY <1>3, <2>2, <3>1, <3>2, <3>3 DEF Doing, Sequential
  <2>9. request' = [request EXCEPT ![p] = s]
    BY <1>6, <2>1
  <2>10. buf' \in [1 .. blksz -> Byte] /\ image' \in Seq(Byte)
    BY <1>3, <2>4, <2>5, <2>6
  <2> QED
    BY <1>2, <1>3, <2>2, <2>3, <2>7, <2>8, <2>9, <2>10, SetFrame
<1> QED
  BY <1>2, <1>5, <1>6 DEF blk_read, Set

(* A read takes its part of the buffer.                                    *)
LEMMA CopyOutStep ==
  ASSUME SdInv, NEW p \in Caller, copy_out(p) PROVE SdInv'
<1>1. SdTypes /\ Untouched /\ GotRight /\ \A q \in Caller : request[q] # NULL => Placed(request[q])
  BY DEF SdInv
<1>2. PICK r : r = request[p]
  OBVIOUS
<1>3. r # NULL /\ r.pc = "copy" /\ ~r.write /\ UNCHANGED <<image, disk, buf, made, ref, got, overlap, touched>>
  BY <1>2 DEF copy_out
<1>4. r \in Request /\ Placed(r) /\ r.pos < r.count
  BY <1>1, <1>2, <1>3 DEF SdTypes, Placed
<1>17. PICK b, n, o, m, f, st :
         b = blksz /\ n = Part(r) /\ o = r.offset - r.st /\ m = r.pos /\ f = r.from /\ st = r.st
  OBVIOUS
<1>5. /\ b = blksz /\ n = Part(r) /\ o = r.offset - r.st /\ m = r.pos /\ f = r.from /\ st = r.st
      /\ b \in Nat \ {0} /\ n \in 1 .. b /\ o \in Nat /\ m \in Nat /\ f \in Nat /\ st \in Nat
      /\ o + n <= b /\ m + n <= r.count /\ r.offset = f + m /\ f + m = st + o /\ n \in Nat
  <2>1. /\ r.offset \in Nat /\ r.st \in Nat /\ r.pos \in Nat /\ r.from \in Nat /\ r.st <= r.offset
        /\ Part(r) \in 1 .. blksz /\ r.offset - r.st + Part(r) <= blksz
        /\ r.pos + Part(r) <= r.count /\ r.offset = r.from + r.pos
    BY <1>4, Turn
  <2> QED
    BY <1>17, <2>1, SdAssumption
<1>6. PICK a : a = Advance(r)
  OBVIOUS
<1>7. /\ a \in Request /\ Placed(a) /\ a.pos = m + n /\ a.from = f /\ a.data = r.data
      /\ a.write = r.write /\ a.count = r.count /\ a.pc = "loop"
  BY <1>4, <1>5, <1>6, AdvancePlaced
<1>8. r.data \in Seq(Byte) /\ Len(r.data) = r.count /\ r.count \in Nat
  BY <1>4 DEF Request, Placed
<1>9. PICK d : d = [i \in 1 .. r.count |-> IF i \in m + 1 .. m + n THEN buf[o + i - m] ELSE r.data[i]]
  OBVIOUS
<1>10. d \in Seq(Byte) /\ Len(d) = r.count
  <2>1. ASSUME NEW i \in 1 .. r.count PROVE d[i] \in Byte
    <3>1. CASE i \in m + 1 .. m + n
      <4>1. o + i - m \in 1 .. blksz
        BY <1>5, <3>1
      <4> QED
        BY <1>1, <1>9, <3>1, <4>1 DEF SdTypes
    <3>2. CASE ~(i \in m + 1 .. m + n)
      BY <1>8, <1>9, <3>2
    <3> QED
      BY <3>1, <3>2
  <2>2. d \in [1 .. r.count -> Byte]
    BY <1>9, <2>1
  <2> QED
    BY <1>8, <2>2
<1>11. PICK s : s = [a EXCEPT !.data = d]
  OBVIOUS
<1>12. request' = [request EXCEPT ![p] = s]
  <2>1. request' = [request EXCEPT ![p] =
          [a EXCEPT !.data = [i \in 1 .. r.count |->
             IF i \in r.pos + 1 .. r.pos + Part(r) THEN buf[r.offset - r.st + i - r.pos] ELSE a.data[i]]]]
    BY <1>2, <1>6, <1>7 DEF copy_out, Set, Request
  <2> QED
    BY <1>5, <1>7, <1>9, <1>11, <2>1
<1>13. /\ s \in Request /\ s.pos = m + n /\ s.from = f /\ s.data = d /\ s.write = r.write /\ s.count = r.count
       /\ s.pc = "loop" /\ s.offset = a.offset /\ s.st = a.st
  BY <1>7, <1>10, <1>11 DEF Request
<1>14. s # NULL /\ Placed(s)
  BY <1>7, <1>10, <1>13, SdAssumption DEF Placed
<1>15. Untouched' /\ GotRight' /\ image' \in Seq(Byte) /\ Len(Image) <= Len(image') /\ buf' \in [1 .. blksz -> Byte]
  BY <1>1, <1>3 DEF Untouched, GotRight, SdTypes
<1>16. ASSUME ~overlap PROVE ref' \in Seq(Byte) /\ Len(Image) <= Len(ref') /\ Doing(s)'
  <2>1. Sequential /\ Given(r) /\ Loaded(r)
    BY <1>2, <1>3, <1>16 DEF SdInv, Sequential, Doing
  <2>2. ASSUME NEW i \in 1 .. m + n PROVE d[i] = ref[f + i]
    <3>1. i \in 1 .. r.count
      <4>1. PICK c \in Nat : c = r.count
        BY <1>8
      <4>2. m \in Nat /\ n \in Nat /\ m + n <= c
        BY <1>5, <4>1
      <4>3. i \in 1 .. c
        BY <4>2
      <4> QED
        BY <4>1, <4>3
    <3>2. CASE i \in m + 1 .. m + n
      <4>1. o + i - m \in 1 .. b /\ st + (o + i - m) = f + i
        BY <1>5, <3>2
      <4>2. buf[o + i - m] = image[st + (o + i - m)]
        BY <1>5, <2>1, <4>1 DEF Loaded
      <4> QED
        BY <1>9, <2>1, <3>1, <3>2, <4>1, <4>2 DEF Given
    <3>3. CASE ~(i \in m + 1 .. m + n)
      <4>1. i \in 1 .. m
        BY <1>5, <3>3
      <4> QED
        BY <1>5, <1>9, <2>1, <3>1, <3>3, <4>1 DEF Given
    <3> QED
      BY <3>2, <3>3
  <2>3. Given(s)'
    BY <1>3, <1>13, <2>1, <2>2 DEF Given
  <2> QED
    BY <1>3, <1>13, <2>1, <2>3 DEF Doing, Sequential
<1> QED
  BY <1>2, <1>3, <1>12, <1>13, <1>14, <1>15, <1>16, SetFrame

(* A write puts its part into the buffer, around which is the block as it  *)
(* was, if that is not all of it.                                          *)
LEMMA CopyInStep ==
  ASSUME SdInv, NEW p \in Caller, copy_in(p) PROVE SdInv'
<1>1. SdTypes /\ Untouched /\ GotRight /\ \A q \in Caller : request[q] # NULL => Placed(request[q])
  BY DEF SdInv
<1>2. PICK r : r = request[p]
  OBVIOUS
<1>3. /\ r # NULL /\ r.write /\ UNCHANGED <<image, disk, made, ref, got, overlap, touched>>
      /\ r.pc = "copy" \/ (r.pc = "loop" /\ r.pos < r.count /\ Part(r) = blksz)
  BY <1>2 DEF copy_in
<1>4. r \in Request /\ Placed(r) /\ r.pos < r.count
  BY <1>1, <1>2, <1>3 DEF SdTypes, Placed
<1>13. PICK b, n, o, m : b = blksz /\ n = Part(r) /\ o = r.offset - r.st /\ m = r.pos
  OBVIOUS
<1>5. /\ b = blksz /\ n = Part(r) /\ o = r.offset - r.st /\ m = r.pos
      /\ b \in Nat \ {0} /\ n \in 1 .. b /\ o \in Nat /\ m \in Nat /\ n \in Nat
      /\ o + n <= b /\ m + n <= r.count /\ (n = b => o = 0)
  <2>1. /\ r.offset \in Nat /\ r.st \in Nat /\ r.pos \in Nat /\ r.st <= r.offset
        /\ Part(r) \in 1 .. blksz /\ r.offset - r.st + Part(r) <= blksz
        /\ r.pos + Part(r) <= r.count /\ (Part(r) = blksz => r.offset = r.st)
    BY <1>4, Turn
  <2> QED
    BY SMTT(30), <1>13, <2>1, SdAssumption
<1>6. PICK s : s = [r EXCEPT !.pc = "store"]
  OBVIOUS
<1>7. /\ s \in Request /\ s.pc = "store" /\ s.write = r.write /\ s.offset = r.offset /\ s.count = r.count
      /\ s.pos = r.pos /\ s.from = r.from /\ s.st = r.st /\ s.data = r.data
  BY <1>4, <1>6 DEF Request
<1>8. s # NULL /\ Placed(s) /\ request' = [request EXCEPT ![p] = s]
  BY <1>2, <1>3, <1>4, <1>6, <1>7, SdAssumption DEF Placed, copy_in, Set
<1>9. buf' = [j \in 1 .. b |-> IF j \in o + 1 .. o + n THEN r.data[m + j - o] ELSE buf[j]]
  BY <1>2, <1>5 DEF copy_in
<1>10. buf' \in [1 .. blksz -> Byte]
  <2>1. r.data \in Seq(Byte) /\ Len(r.data) = r.count /\ r.count \in Nat
    BY <1>4 DEF Request, Placed
  <2>2. ASSUME NEW j \in 1 .. b PROVE (IF j \in o + 1 .. o + n THEN r.data[m + j - o] ELSE buf[j]) \in Byte
    <3>1. CASE j \in o + 1 .. o + n
      <4>1. m + j - o \in 1 .. Len(r.data)
        <5>1. PICK c \in Nat : c = r.count
          BY <2>1
        <5>2. m \in Nat /\ n \in Nat /\ o \in Nat /\ m + n <= c
          BY <1>5, <5>1
        <5>3. m + j - o \in 1 .. c
          BY <3>1, <5>2
        <5> QED
          BY <2>1, <5>1, <5>3
      <4> QED
        BY <2>1, <3>1, <4>1
    <3>2. CASE ~(j \in o + 1 .. o + n)
      BY <1>1, <1>5, <3>2 DEF SdTypes
    <3> QED
      BY <3>1, <3>2
  <2> QED
    BY <1>5, <1>9, <2>2
<1>11. Untouched' /\ GotRight' /\ image' \in Seq(Byte) /\ Len(Image) <= Len(image')
  BY <1>1, <1>3 DEF Untouched, GotRight, SdTypes
<1>12. ASSUME ~overlap PROVE ref' \in Seq(Byte) /\ Len(Image) <= Len(ref') /\ Doing(s)'
  <2>1. Sequential /\ Written(r) /\ (r.pc = "copy" => Loaded(r))
    BY <1>2, <1>3, <1>12 DEF SdInv, Sequential, Doing
  <2>2. Part(s) = n /\ s.offset - s.st = o /\ s.pos = m
    BY <1>5, <1>7 DEF Part
  <2>3. n < b => s.st + blksz <= Len(image)
    BY <1>3, <1>5, <1>7, <2>1 DEF Loaded
  <2>4. ASSUME NEW j \in 1 .. b
        PROVE  buf'[j] = IF j \in o + 1 .. o + n THEN s.data[m + j - o] ELSE image[s.st + j]
    <3>1. CASE j \in o + 1 .. o + n
      BY <1>7, <1>9, <3>1
    <3>2. CASE ~(j \in o + 1 .. o + n)
      <4>1. r.pc = "copy"
        BY <1>3, <1>5, <3>2
      <4>2. buf[j] = image[r.st + j]
        BY <1>5, <2>1, <4>1 DEF Loaded
      <4> QED
        BY <1>7, <1>9, <3>2, <4>2
    <3> QED
      BY <3>1, <3>2
  <2>5. Filled(s)'
    <3>1. Part(s)' = n
      BY <2>2 DEF Part
    <3> QED
      BY <1>3, <1>5, <2>2, <2>3, <2>4, <3>1 DEF Filled
  <2>6. Written(s)'
    BY <1>3, <1>7, <2>1 DEF Written
  <2> QED
    BY <1>3, <1>7, <2>1, <2>5, <2>6 DEF Doing, Sequential
<1> QED
  BY <1>2, <1>3, <1>7, <1>8, <1>10, <1>11, <1>12, SetFrame

(* A block goes to the disk: the part of it the write is about, and the    *)
(* rest as it was.                                                         *)
LEMMA WriteBlockStep ==
  ASSUME SdInv, NEW p \in Caller, blk_write(p) PROVE SdInv'
<1>1. SdTypes /\ Untouched /\ GotRight /\ \A q \in Caller : request[q] # NULL => Placed(request[q])
  BY DEF SdInv
<1>2. PICK r : r = request[p]
  OBVIOUS
<1>3. r # NULL /\ r.pc = "store" /\ UNCHANGED <<disk, buf, made, ref, got, overlap, touched>>
  BY <1>2 DEF blk_write
<1>4. r \in Request /\ Placed(r) /\ r.pos < r.count /\ r.write
  BY <1>1, <1>2, <1>3 DEF SdTypes, Placed
<1>5. PICK b, n, o, m, f, st, c, L :
        /\ b = blksz /\ n = Part(r) /\ o = r.offset - r.st /\ m = r.pos /\ f = r.from /\ st = r.st
        /\ c = r.count /\ L = Len(image)
  OBVIOUS
<1>6. /\ b \in Nat \ {0} /\ n \in 1 .. b /\ o \in Nat /\ m \in Nat /\ f \in Nat /\ st \in Nat /\ c \in Nat
      /\ o + n <= b /\ m + n <= c /\ f + m = st + o /\ n \in Nat /\ (n = b => o = 0) /\ L \in Nat
      /\ st <= L /\ (m + n < c => o + n = b) /\ r.offset = st + o /\ r.offset \in Nat
  <2>1. /\ r.offset \in Nat /\ r.st \in Nat /\ r.pos \in Nat /\ r.from \in Nat /\ r.st <= r.offset
        /\ Part(r) \in 1 .. blksz /\ r.offset - r.st + Part(r) <= blksz
        /\ r.pos + Part(r) <= r.count /\ r.offset = r.from + r.pos /\ (Part(r) = blksz => r.offset = r.st)
        /\ r.st <= Len(Image) /\ r.count \in Nat
        /\ r.pos + Part(r) < r.count => r.offset + Part(r) = r.st + blksz
    BY <1>4, Turn
  <2>2. Len(image) \in Nat /\ Len(Image) \in Nat /\ Len(Image) <= Len(image)
    BY <1>1, ImageLength DEF SdTypes
  <2>3. PICK x \in Nat : x = r.offset
    BY <2>1
  <2>4. PICK l \in Nat : l = Len(Image) /\ l <= L /\ L \in Nat
    BY <1>5, <2>2
  <2>5. /\ b \in Nat \ {0} /\ n \in 1 .. b /\ m \in Nat /\ f \in Nat /\ st \in Nat /\ c \in Nat
        /\ o = x - st /\ st <= x /\ o + n <= b /\ m + n <= c /\ x = f + m /\ (n = b => x = st)
        /\ st <= l /\ (m + n < c => x + n = st + b)
    BY <1>5, <2>1, <2>3, <2>4, SdAssumption
  <2>6. /\ b \in Nat \ {0} /\ n \in 1 .. b /\ o \in Nat /\ m \in Nat /\ f \in Nat /\ st \in Nat /\ c \in Nat
        /\ o + n <= b /\ m + n <= c /\ f + m = st + o /\ n \in Nat /\ (n = b => o = 0) /\ L \in Nat
        /\ st <= L /\ (m + n < c => o + n = b) /\ x = st + o
    BY ONLY <2>4, <2>5
  <2> QED
    BY <2>3, <2>6
<1>7. r.offset = st + o /\ r.offset \in Nat
  BY <1>6
<1>8. PICK s : s = Advance(r)
  OBVIOUS
<1>9. /\ s \in Request /\ Placed(s) /\ s.pos = m + n /\ s.from = f /\ s.data = r.data
      /\ s.write /\ s.count = c /\ s.pc = "loop" /\ s # NULL
  BY <1>4, <1>5, <1>8, AdvancePlaced, SdAssumption
<1>10. request' = [request EXCEPT ![p] = s] /\ image' = Stored(image, st, buf)
  BY <1>2, <1>5, <1>8 DEF blk_write, Set
<1>11. buf \in Seq(Byte) /\ Len(buf) = b
  BY <1>1, <1>5, <1>6 DEF SdTypes
<1>12. PICK M : M = IF st + b > L THEN st + b ELSE L
  OBVIOUS
<1>13. /\ image' \in Seq(Byte) /\ Len(image') = M /\ M \in Nat
       /\ \A i \in 1 .. M : image'[i] = IF i \in st + 1 .. st + b THEN buf[i - st] ELSE image[i]
  <2>1. image \in Seq(Byte)
    BY <1>1 DEF SdTypes
  <2>2. st \in Nat /\ st <= Len(image)
    BY <1>5, <1>6
  <2>3. /\ image' \in Seq(Byte)
        /\ Len(image') = IF st + Len(buf) > Len(image) THEN st + Len(buf) ELSE Len(image)
        /\ \A i \in 1 .. Len(image') :
             image'[i] = IF i \in st + 1 .. st + Len(buf) THEN buf[i - st] ELSE image[i]
    BY <1>10, <1>11, <2>1, <2>2, StoredSeq
  <2>4. Len(image) = L /\ L \in Nat /\ b \in Nat /\ st \in Nat /\ Len(buf) = b
    BY <1>5, <1>6, <1>11
  <2>5. Len(image') = M /\ M \in Nat
    BY ONLY <1>12, <2>3, <2>4
  <2> QED
    BY ONLY <2>3, <2>4, <2>5
<1>14. Len(Image) <= Len(image')
  BY <1>1, <1>5, <1>6, <1>12, <1>13, ImageLength DEF SdTypes
<1>15. Untouched'
  <2>1. PICK k \in Nat : k = r.offset \div b
    BY <1>6, <1>7, Block
  <2>2. st = b * k /\ k \in touched
    <3>1. f <= r.offset /\ r.offset <= f + c - 1
      BY <1>6, <1>7
    <3>2. f \div b <= k /\ k <= (f + c - 1) \div b /\ f \div b \in Int /\ (f + c - 1) \div b \in Int
      <4>1. f + c - 1 \in Nat
        BY <1>6
      <4> QED
        <5>1. PICK x, y : x = r.offset /\ y = f + c - 1
          OBVIOUS
        <5>2. b \in Nat \ {0} /\ x \in Nat /\ y \in Nat /\ f \in Nat /\ f <= x /\ x <= y
          BY <1>6, <1>7, <3>1, <4>1, <5>1
        <5>3. f \div b <= x \div b /\ x \div b <= y \div b
          BY ONLY <5>2, BlockOrder
        <5>4. f \div b \in Nat /\ y \div b \in Nat
          BY ONLY <5>2, Block
        <5> QED
          BY <2>1, <5>1, <5>3, <5>4
    <3>3. k \in (f \div b) .. ((f + c - 1) \div b)
      BY <3>2
    <3> QED
      BY <1>4, <1>5, <2>1, <3>3 DEF Placed
  <2>3. ASSUME NEW i \in 1 .. Len(Image), (i - 1) \div b \notin touched PROVE image'[i] = Image[i]
    <3>1. i \in 1 .. L /\ i \in 1 .. M /\ i - 1 \in Nat
      <4>1. Len(Image) <= L /\ L <= M
        BY <1>1, <1>5, <1>6, <1>12 DEF SdTypes
      <4> QED
        BY <1>6, <1>13, <4>1, ImageLength
    <3>2. ASSUME i \in st + 1 .. st + b PROVE FALSE
      <4>1. b * k <= i - 1 /\ i - 1 < b * k + b
        BY <1>6, <2>2, <3>1, <3>2
      <4>2. (i - 1) \div b = k
        BY <1>6, <3>1, <4>1, BlockOf
      <4> QED
        BY <2>2, <2>3, <4>2
    <3>3. image'[i] = image[i]
      BY <1>13, <3>1, <3>2
    <3> QED
      BY <1>1, <1>5, <2>3, <3>3 DEF Untouched
  <2> QED
    BY <1>3, <1>5, <2>3 DEF Untouched
<1>16. ASSUME ~overlap PROVE ref' \in Seq(Byte) /\ Len(Image) <= Len(ref') /\ Doing(s)'
  <2>1. Sequential /\ Written(r) /\ Filled(r)
    BY <1>2, <1>3, <1>4, <1>16 DEF SdInv, Sequential, Doing
  <2>2. PICK R \in Nat : R = Len(ref)
    BY <2>1 DEF Sequential
  <2>3. L = (IF m > 0 /\ f + m > R THEN f + m ELSE R) /\ (m > 0 => f <= R)
    BY <1>5, <2>1, <2>2 DEF Written
  <2>4. n < b => st + b <= L
    BY <1>5, <2>1 DEF Filled
  <2>5. M = IF m + n > 0 /\ f + (m + n) > R THEN f + (m + n) ELSE R
    BY <1>6, <1>12, <2>2, <2>3, <2>4
  <2>6. f <= R
    <3>1. Len(Image) <= R /\ st <= Len(Image) /\ Len(Image) \in Nat
      BY <1>4, <1>5, <2>1, <2>2, Turn, ImageLength DEF Sequential
    <3> QED
      BY <1>6, <2>2, <2>3, <2>4, <3>1
  <2>7. ASSUME NEW i \in 1 .. M
        PROVE  image'[i] = IF i \in f + 1 .. f + (m + n) THEN r.data[i - f] ELSE ref[i]
    <3>1. \A j \in 1 .. L : image[j] = IF j \in f + 1 .. f + m THEN r.data[j - f] ELSE ref[j]
      BY <1>5, <2>1 DEF Written
    <3>2. \A j \in 1 .. b : buf[j] = IF j \in o + 1 .. o + n THEN r.data[m + j - o] ELSE image[st + j]
      BY <1>5, <2>1 DEF Filled
    <3>3. CASE i \in st + o + 1 .. st + o + n
      <4>1. i \in st + 1 .. st + b /\ i - st \in 1 .. b /\ i - st \in o + 1 .. o + n
        BY <1>6, <1>13, <3>3
      <4>2. image'[i] = r.data[m + (i - st) - o]
        BY <1>13, <3>2, <4>1
      <4>3. m + (i - st) - o = i - f /\ i \in f + 1 .. f + (m + n)
        BY <1>6, <1>13, <3>3
      <4> QED
        BY <4>2, <4>3
    <3>4. CASE ~(i \in st + o + 1 .. st + o + n)
      <4>1. i \in 1 .. L
        BY <1>6, <1>12, <1>13, <2>4, <3>4
      <4>2. image'[i] = image[i]
        <5>1. CASE i \in st + 1 .. st + b
          <6>1. i - st \in 1 .. b /\ i - st \notin o + 1 .. o + n /\ st + (i - st) = i
            BY <1>6, <1>13, <3>4, <5>1
          <6> QED
            BY <1>13, <3>2, <5>1, <6>1
        <5>2. CASE ~(i \in st + 1 .. st + b)
          BY <1>13, <5>2
        <5> QED
          BY <5>1, <5>2
      <4>3. i \in f + 1 .. f + m <=> i \in f + 1 .. f + (m + n)
        BY <1>6, <1>13, <3>4
      <4> QED
        BY <3>1, <4>1, <4>2, <4>3
    <3> QED
      BY <3>3, <3>4
  <2>8. Written(s)'
    BY <1>3, <1>9, <1>13, <2>2, <2>5, <2>6, <2>7 DEF Written
  <2> QED
    BY <1>3, <1>9, <2>1, <2>8 DEF Doing, Sequential
<1>17. GotRight' /\ buf' \in [1 .. blksz -> Byte]
  BY <1>1, <1>3 DEF GotRight, SdTypes
<1> QED
  BY <1>2, <1>3, <1>9, <1>10, <1>13, <1>14, <1>15, <1>16, <1>17, SetFrame

(* A request ends: a write has done all it should, a read has what there   *)
(* is.                                                                     *)
LEMMA ReturnStep ==
  ASSUME SdInv, NEW p \in Caller, return(p) PROVE SdInv'
<1>1. SdTypes /\ Untouched /\ GotRight /\ \A q \in Caller : request[q] # NULL => Placed(request[q])
  BY DEF SdInv
<1>2. PICK r : r = request[p]
  OBVIOUS
<1>3. r # NULL /\ r.pos >= r.count /\ UNCHANGED <<image, disk, buf, made, overlap, touched>>
  BY <1>2 DEF return
<1>4. r \in Request /\ Placed(r)
  BY <1>1, <1>2, <1>3 DEF SdTypes
<1>5. /\ r.count \in Nat \ {0} /\ r.pos = r.count /\ r.from \in Nat
      /\ r.data \in Seq(Byte) /\ Len(r.data) = r.count
  BY <1>3, <1>4 DEF Request, Placed
<1>6. Untouched' /\ image' \in Seq(Byte) /\ Len(Image) <= Len(image') /\ buf' \in [1 .. blksz -> Byte]
  BY <1>1, <1>3 DEF Untouched, SdTypes
<1>7. ASSUME ~overlap PROVE Sequential /\ IF r.write THEN Written(r) ELSE Given(r)
  BY <1>2, <1>3, <1>7 DEF SdInv, Sequential, Doing
<1>8. GotRight'
  <2>1. CASE got' = got
    BY <1>1, <2>1 DEF GotRight
  <2>2. CASE ~r.write /\ got' = IF overlap THEN NULL ELSE [data |-> r.data, want |-> [i \in 1 .. r.count |-> ref[r.from + i]]]
    <3>1. CASE overlap
      BY <2>2, <3>1 DEF GotRight
    <3>2. CASE ~overlap
      <4>1. \A i \in 1 .. r.count : r.data[i] = ref[r.from + i]
        BY <1>5, <1>7, <2>2, <3>2 DEF Given
      <4>2. r.data = [i \in 1 .. r.count |-> ref[r.from + i]]
        <5>1. r.data \in [1 .. r.count -> Byte]
          BY <1>5
        <5> QED
          BY <4>1, <5>1
      <4> QED
        BY <2>2, <3>2, <4>2 DEF GotRight
    <3> QED
      BY <3>1, <3>2
  <2> QED
    BY <1>2, <2>1, <2>2 DEF return
<1>9. ASSUME ~overlap PROVE ref' \in Seq(Byte) /\ Len(Image) <= Len(ref') /\ image' = ref'
  <2>1. ref \in Seq(Byte) /\ Len(Image) <= Len(ref) /\ Len(ref) \in Nat /\ Len(Image) \in Nat
    BY <1>7, <1>9, ImageLength DEF Sequential
  <2>2. CASE ~r.write
    <3>1. ref' = ref
      BY <1>2, <2>2 DEF return
    <3> QED
      BY <1>3, <1>7, <1>9, <2>1, <2>2, <3>1 DEF Given
  <2>3. CASE r.write
    <3>1. Written(r)
      BY <1>7, <1>9, <2>3
    <3>2. ref' = Stored(ref, r.from, r.data)
      BY <1>2, <2>3 DEF return
    <3>3. r.from <= Len(ref)
      BY <1>5, <3>1 DEF Written
    <3>4. /\ ref' \in Seq(Byte)
          /\ Len(ref') = IF r.from + r.count > Len(ref) THEN r.from + r.count ELSE Len(ref)
          /\ \A i \in 1 .. Len(ref') :
               ref'[i] = IF i \in r.from + 1 .. r.from + r.count THEN r.data[i - r.from] ELSE ref[i]
      <4>1. /\ ref' \in Seq(Byte)
            /\ Len(ref') = IF r.from + Len(r.data) > Len(ref) THEN r.from + Len(r.data) ELSE Len(ref)
            /\ \A i \in 1 .. Len(ref') :
                 ref'[i] = IF i \in r.from + 1 .. r.from + Len(r.data) THEN r.data[i - r.from] ELSE ref[i]
        BY SMTT(30), <1>5, <2>1, <3>2, <3>3, StoredSeq
      <4> QED
        BY <1>5, <4>1
    <3>5. image \in Seq(Byte) /\ Len(image) = Len(ref') /\ \A i \in 1 .. Len(ref') : image[i] = ref'[i]
      BY <1>1, <1>5, <3>1, <3>4 DEF Written, SdTypes
    <3>6. image = ref'
      BY <3>4, <3>5
    <3> QED
      BY <1>3, <1>5, <2>1, <3>4, <3>6
  <2> QED
    BY <2>2, <2>3
<1>10. request' = [request EXCEPT ![p] = NULL]
  BY DEF return, Set
<1> QED
  BY <1>2, <1>3, <1>6, <1>8, <1>9, <1>10, SetFrame

(* Without overlap the disk is an array of bytes: what a write stores,     *)
(* block by block through sd->buf, is the bytes it names and nothing else, *)
(* and a read gives what was written last; with overlap the blocks that no *)
(* write is about keep their bytes.  For every image and block size.       *)
THEOREM DiskIsBytes == SdSpec => []DiskExact
<1>1. SdInv /\ [SdNext]_sdvars => SdInv'
  <2> SUFFICES ASSUME SdInv, [SdNext]_sdvars PROVE SdInv'
    OBVIOUS
  <2>1. CASE UNCHANGED sdvars
    BY <2>1, SdQuiet DEF sdvars, SdInv, SdTypes
  <2>2. CASE sd_init
    BY <2>2, SdQuiet DEF sd_init, SdInv, SdTypes
  <2>3. ASSUME NEW p \in Caller, sd_read(p) \/ sd_write(p) \/ blk_read(p) \/ copy_out(p) \/ copy_in(p)
                                    \/ blk_write(p) \/ return(p)
        PROVE  SdInv'
    BY <2>3, CallStep, ReadBlockStep, CopyOutStep, CopyInStep, WriteBlockStep, ReturnStep
  <2> QED
    BY <2>1, <2>2, <2>3 DEF SdNext
<1>2. SdInv => DiskExact
  BY DEF SdInv, Sequential, Untouched, GotRight, DiskExact
<1> QED
  BY SdInitInv, <1>1, <1>2, PTL DEF SdSpec
=============================================================================
