--------------------------- MODULE ContextProofs ----------------------------
(***************************************************************************)
(* Theorems about traps and context switches: the x86 machine (X86Cte) and *)
(* the native one (NativeCte); and about address spaces, the native        *)
(* machine's lists (NativeVme) and x86's page tables (X86Vme).             *)
(***************************************************************************)
EXTENDS X86Cte, NativeCte, NativeVme, X86Vme, SequenceTheorems, TLAPS

----------------------------------------------------------------------------
(* X86Cte *)

FrameType == [irq : Irq \cup {"none"}, mode : {"user", "kernel", "stub"}, work : Nat,
              cr3 : Thread \cup {"kpt", NULL}, rsp0 : Thread \cup {NULL}]

CteType ==
  /\ at \in [Core -> {"user", "kernel", "stub", "handler", "iret"}]
  /\ runs \in [Core -> Thread] /\ stack \in [Core -> Thread]
  /\ reg \in [Core -> Nat] /\ did \in [Thread -> Nat]
  /\ cr3 \in [Core -> Thread \cup {"kpt", NULL}] /\ rsp0 \in [Core -> Thread \cup {NULL}]
  /\ DOMAIN event = Core
  /\ kstack \in [Thread -> Seq(FrameType)]

(* A thread and its stack belong to one processor, which is on the stack   *)
(* of its thread except while it switches.                                 *)
OwnStack ==
  /\ \A c, d \in Core : c # d => runs[c] # runs[d] /\ runs[c] # stack[d] /\ stack[c] # stack[d]
  /\ \A c \in Core : at[c] # "iret" => stack[c] = runs[c]

(* The frames of a thread: the lowest is of its own code, the others are   *)
(* of interrupts in the stub; none lets it forget or repeat work.          *)
FramesInv ==
  \A t \in Thread : \A i \in 1 .. Len(kstack[t]) :
    /\ kstack[t][i].mode = IF i > 1 THEN "stub" ELSE IF t \in UThread THEN "user" ELSE "kernel"
    /\ kstack[t][i].work = did[t]

(* A thread in its own code has no frame. *)
RunAt(c) ==
  /\ at[c] \in {"user", "kernel"} => kstack[runs[c]] = <<>> /\ (at[c] = "user" <=> runs[c] \in UThread)
  /\ at[c] \notin {"user", "kernel"} => kstack[runs[c]] # <<>>
  /\ at[c] \in {"user", "kernel", "stub"} => reg[c] = did[runs[c]]
  /\ at[c] = "handler" => event[c] = EventOf(Last(kstack[runs[c]]).irq)

RunInv == \A c \in Core : RunAt(c)

(* A user thread's address space and kernel stack are the processor's from *)
(* iret to the next handler, and then those of the last frame.             *)
SpaceInv ==
  /\ \A c \in Core : at[c] \in {"user", "stub"} /\ runs[c] \in UThread =>
       cr3[c] = runs[c] /\ rsp0[c] = runs[c]
  /\ \A t \in UThread : kstack[t] # <<>> =>
       \/ Last(kstack[t]).cr3 = t /\ Last(kstack[t]).rsp0 = t
       \/ \E c \in Core : at[c] = "stub" /\ runs[c] = t

CteInv == CteType /\ OwnStack /\ FramesInv /\ RunInv /\ SpaceInv

LEMMA ReplaceLast ==
  ASSUME NEW S, NEW k \in Seq(S), k # <<>>, NEW g \in S
  PROVE  /\ [k EXCEPT ![Len(k)] = g] \in Seq(S) /\ Len([k EXCEPT ![Len(k)] = g]) = Len(k)
         /\ [k EXCEPT ![Len(k)] = g] # <<>>
         /\ \A i \in 1 .. Len(k) : [k EXCEPT ![Len(k)] = g][i] = IF i = Len(k) THEN g ELSE k[i]
<1>1. Len(k) \in 1 .. Len(k)
  OBVIOUS
<1>2. [k EXCEPT ![Len(k)] = g] \in Seq(S) /\ Len([k EXCEPT ![Len(k)] = g]) = Len(k)
  BY <1>1
<1> QED
  BY <1>1, <1>2

LEMMA FrontOf ==
  ASSUME NEW S, NEW k \in Seq(S), k # <<>>
  PROVE  /\ Front(k) \in Seq(S) /\ Len(Front(k)) = Len(k) - 1
         /\ \A i \in 1 .. Len(k) - 1 : Front(k)[i] = k[i]
         /\ (Front(k) = <<>> <=> Len(k) = 1)
<1>1. PICK m \in Nat : m = Len(k) - 1 /\ Len(k) = m + 1 /\ Front(k) = SubSeq(k, 1, m)
  <2>1. Len(k) - 1 \in Nat /\ Len(k) = (Len(k) - 1) + 1
    OBVIOUS
  <2> QED
    BY <2>1 DEF Front
<1>2. \A i \in 1 .. m : k[i] \in S
  BY <1>1
<1>3. Front(k) \in Seq(S) /\ Len(Front(k)) = m
  BY <1>1, <1>2, SubSeqProperties
<1>4. \A i \in 1 .. m : Front(k)[i] = k[i]
  BY <1>1, <1>3
<1>5. Front(k) = <<>> <=> m = 0
  BY <1>3, EmptySeq
<1> QED
  BY SMTT(30), <1>1, <1>3, <1>4, <1>5

LEMMA CteInitInv == CteInit => CteInv
<1> SUFFICES ASSUME CteInit PROVE CteInv
  OBVIOUS
<1> USE CteAssumption DEF CteInit
<1>1. /\ \A t \in Thread : kcontext(t) \in FrameType /\ kcontext(t).mode = "kernel" /\ kcontext(t).work = 0
      /\ \A t \in UThread : /\ ucontext(t) \in FrameType /\ ucontext(t).mode = "user" /\ ucontext(t).work = 0
                            /\ ucontext(t).cr3 = t /\ ucontext(t).rsp0 = t
  BY DEF kcontext, ucontext, TrapFrame, FrameType, Thread
<1>2. CteType
  <2>1. kstack \in [Thread -> Seq(FrameType)]
    BY <1>1 DEF Thread
  <2> QED
    BY <2>1 DEF CteType, Thread
<1>3. OwnStack
  BY DEF OwnStack
<1>4. FramesInv
  BY <1>1 DEF FramesInv, Thread
<1>5. RunInv
  BY DEF RunInv, RunAt, Thread
<1>6. SpaceInv
  BY <1>1 DEF SpaceInv, Thread, Last
<1> QED
  BY <1>2, <1>3, <1>4, <1>5, <1>6 DEF CteInv

LEMMA WorkInv ==
  ASSUME CteInv, NEW c \in Core, work(c)
  PROVE  CteInv'
<1>1. /\ CteType /\ OwnStack /\ FramesInv /\ RunInv /\ SpaceInv
      /\ at[c] \in {"user", "kernel"} /\ runs[c] \in Thread /\ kstack[runs[c]] = <<>>
      /\ reg[c] = did[runs[c]] /\ reg[c] \in Nat /\ (reg[c] + 1) % Work \in Nat
      /\ UNCHANGED <<at, runs, stack, cr3, rsp0, event, kstack>>
  BY CteAssumption DEF CteInv, work, CteType, RunInv, RunAt
<1>2. /\ reg' = [reg EXCEPT ![c] = (reg[c] + 1) % Work]
      /\ did' = [did EXCEPT ![runs[c]] = (reg[c] + 1) % Work]
  BY <1>1 DEF work
<1>3. CteType'
  BY <1>1, <1>2 DEF CteType
<1>4. FramesInv'
  BY <1>1, <1>2 DEF FramesInv, CteType
<1>5. RunInv'
  BY <1>1, <1>2 DEF RunInv, RunAt, CteType, OwnStack
<1>6. OwnStack' /\ SpaceInv'
  BY <1>1 DEF OwnStack, SpaceInv
<1> QED
  BY <1>3, <1>4, <1>5, <1>6 DEF CteInv

(* A trap: the thread's first frame, or one more of an interrupt. *)
LEMMA GateInv ==
  ASSUME CteInv, NEW c \in Core, NEW irq \in Irq, gate(c, irq)
  PROVE  CteInv'
<1> DEFINE t == runs[c]
           f == TrapFrame(irq, at[c], reg[c])
<1>1. /\ CteType /\ OwnStack /\ FramesInv /\ RunInv /\ SpaceInv
      /\ at[c] \in {"user", "kernel", "stub"} /\ t \in Thread /\ kstack[t] \in Seq(FrameType)
      /\ UNCHANGED <<runs, reg, cr3, rsp0, event, did>>
      /\ at' = [at EXCEPT ![c] = "stub"]
  BY DEF CteInv, gate, CteType
<1>2. /\ stack[c] = t /\ (at[c] = "user" => rsp0[c] = t) /\ reg[c] = did[t]
      /\ at[c] # "stub" => kstack[t] = <<>> /\ (at[c] = "user" <=> t \in UThread)
      /\ at[c] = "stub" => kstack[t] # <<>>
  BY <1>1 DEF OwnStack, RunInv, RunAt, SpaceInv
<1>3. stack' = stack /\ kstack' = [kstack EXCEPT ![t] = Append(kstack[t], f)]
  <2>1. CASE at[c] = "user"
    BY <1>1, <1>2, <2>1 DEF gate, CteType
  <2>2. CASE at[c] # "user"
    BY <1>1, <1>2, <2>2 DEF gate, CteType
  <2> QED
    BY <2>1, <2>2
<1>4. f \in FrameType /\ f.mode = at[c] /\ f.work = did[t]
  BY <1>1, <1>2 DEF TrapFrame, FrameType, CteType
<1> HIDE DEF f
<1>5. /\ kstack'[t] \in Seq(FrameType) /\ Len(kstack'[t]) = Len(kstack[t]) + 1 /\ Len(kstack[t]) \in Nat
      /\ \A i \in 1 .. Len(kstack[t]) : kstack'[t][i] = kstack[t][i]
      /\ kstack'[t][Len(kstack[t]) + 1] = f /\ kstack'[t] # <<>>
      /\ \A u \in Thread \ {t} : kstack'[u] = kstack[u]
  <2>1. /\ Append(kstack[t], f) \in Seq(FrameType) /\ Len(Append(kstack[t], f)) = Len(kstack[t]) + 1
        /\ \A i \in 1 .. Len(kstack[t]) : Append(kstack[t], f)[i] = kstack[t][i]
        /\ Append(kstack[t], f)[Len(kstack[t]) + 1] = f
    BY <1>1, <1>4, AppendProperties
  <2>2. kstack'[t] = Append(kstack[t], f)
    BY <1>1, <1>3 DEF CteType
  <2>3. \A u \in Thread \ {t} : kstack'[u] = kstack[u]
    BY <1>1, <1>3 DEF CteType
  <2> QED
    BY <1>1, <2>1, <2>2, <2>3
<1>6. CteType'
  BY <1>1, <1>3, <1>5 DEF CteType
<1>7. OwnStack'
  BY <1>1, <1>2, <1>3 DEF OwnStack, CteType
<1>8. FramesInv'
  <2> SUFFICES ASSUME NEW u \in Thread, NEW i \in 1 .. Len(kstack'[u])
               PROVE  /\ kstack'[u][i].mode = IF i > 1 THEN "stub" ELSE IF u \in UThread THEN "user" ELSE "kernel"
                      /\ kstack'[u][i].work = did[u]
    BY <1>1 DEF FramesInv
  <2>1. CASE u # t
    BY <1>1, <1>5, <2>1 DEF FramesInv
  <2>2. CASE u = t /\ i \in 1 .. Len(kstack[t])
    <3>1. kstack'[u][i] = kstack[t][i]
      BY <1>5, <2>2
    <3> QED
      BY <1>1, <2>2, <3>1 DEF FramesInv
  <2>3. CASE u = t /\ i = Len(kstack[t]) + 1
    <3>1. kstack'[u][i] = f /\ i \in Nat
      BY <1>5, <2>3
    <3>2. (i > 1) <=> at[c] = "stub"
      BY <1>1, <1>2, <1>5, <2>3
    <3> QED
      BY <1>1, <1>2, <1>4, <2>3, <3>1, <3>2
  <2> QED
    BY <1>5, <2>1, <2>2, <2>3
<1>9. RunInv'
  <2> SUFFICES ASSUME NEW d \in Core PROVE RunAt(d)'
    BY DEF RunInv
  <2>1. CASE d = c
    BY <1>1, <1>2, <1>5, <2>1 DEF CteType, RunAt
  <2>2. CASE d # c
    BY SMTT(60), <1>1, <1>5, <2>2 DEF CteType, OwnStack, RunInv, RunAt
  <2> QED
    BY <2>1, <2>2
<1>10. SpaceInv'
  <2>1. ASSUME NEW d \in Core, at'[d] \in {"user", "stub"}, runs[d] \in UThread
        PROVE  cr3[d] = runs[d] /\ rsp0[d] = runs[d]
    BY <1>1, <1>2, <2>1 DEF SpaceInv, CteType
  <2>2. ASSUME NEW u \in UThread, kstack'[u] # <<>>
        PROVE  \/ Last(kstack'[u]).cr3 = u /\ Last(kstack'[u]).rsp0 = u
               \/ \E d \in Core : at'[d] = "stub" /\ runs[d] = u
    BY <1>1, <1>5, <2>2 DEF SpaceInv, CteType, Thread
  <2> QED
    BY <1>1, <2>1, <2>2 DEF SpaceInv
<1> QED
  BY <1>6, <1>7, <1>8, <1>9, <1>10 DEF CteInv

(* What is saved goes into the last frame. *)
LEMMA IrqHandleInv ==
  ASSUME CteInv, NEW c \in Core, irq_handle(c)
  PROVE  CteInv'
<1> DEFINE t == runs[c]
           k == kstack[t]
           g == [k[Len(k)] EXCEPT !.cr3 = cr3[c], !.rsp0 = rsp0[c]]
<1>1. /\ CteType /\ OwnStack /\ FramesInv /\ RunInv /\ SpaceInv
      /\ at[c] = "stub" /\ t \in Thread /\ k \in Seq(FrameType) /\ k # <<>> /\ stack[c] = t
      /\ UNCHANGED <<runs, stack, reg, cr3, rsp0, did>>
      /\ at' = [at EXCEPT ![c] = "handler"]
  BY DEF CteInv, irq_handle, CteType, OwnStack, RunInv, RunAt
<1>2. Len(k) \in 1 .. Len(k) /\ k[Len(k)] \in FrameType /\ Last(k) = k[Len(k)]
  BY <1>1 DEF Last
<1>3. kstack' = [kstack EXCEPT ![t] = [k EXCEPT ![Len(k)] = g]]
  BY <1>1, <1>2 DEF irq_handle, SavedRsp0, CteType
<1>4. event' = [event EXCEPT ![c] = EventOf(Last(k).irq)]
  BY <1>1 DEF irq_handle
<1>5. /\ g \in FrameType /\ g.mode = k[Len(k)].mode /\ g.work = k[Len(k)].work /\ g.irq = k[Len(k)].irq
      /\ g.cr3 = cr3[c] /\ g.rsp0 = rsp0[c]
  BY <1>1, <1>2 DEF FrameType, CteType
<1> HIDE DEF g
<1>6. /\ kstack'[t] \in Seq(FrameType) /\ Len(kstack'[t]) = Len(k)
      /\ \A i \in 1 .. Len(k) : i # Len(k) => kstack'[t][i] = k[i]
      /\ Last(kstack'[t]) = g /\ kstack'[t][Len(k)] = g /\ kstack'[t] # <<>>
      /\ \A u \in Thread \ {t} : kstack'[u] = kstack[u]
  <2>1. kstack'[t] = [k EXCEPT ![Len(k)] = g] /\ \A u \in Thread \ {t} : kstack'[u] = kstack[u]
    BY <1>1, <1>3 DEF CteType
  <2> HIDE DEF k
  <2>2. kstack'[t] \in Seq(FrameType) /\ Len(kstack'[t]) = Len(k) /\ kstack'[t] # <<>>
    BY <1>1, <1>2, <1>5, <2>1, ReplaceLast
  <2>3. \A i \in 1 .. Len(k) : kstack'[t][i] = IF i = Len(k) THEN g ELSE k[i]
    BY <1>1, <1>2, <1>5, <2>1, ReplaceLast
  <2>4. kstack'[t][Len(k)] = g
    BY <1>2, <2>3
  <2> QED
    BY <2>1, <2>2, <2>3, <2>4 DEF Last
<1>7. CteType'
  BY <1>1, <1>4, <1>6, <1>3 DEF CteType
<1>8. OwnStack'
  BY <1>1 DEF OwnStack, CteType
<1>9. FramesInv'
  <2> SUFFICES ASSUME NEW u \in Thread, NEW i \in 1 .. Len(kstack'[u])
               PROVE  /\ kstack'[u][i].mode = IF i > 1 THEN "stub" ELSE IF u \in UThread THEN "user" ELSE "kernel"
                      /\ kstack'[u][i].work = did[u]
    BY <1>1 DEF FramesInv
  <2>1. CASE u # t
    BY <1>1, <1>6, <2>1 DEF FramesInv
  <2>2. CASE u = t
    <3>1. i \in 1 .. Len(k) /\ (i # Len(k) => kstack'[t][i] = k[i]) /\ (i = Len(k) => kstack'[t][i] = g)
      BY <1>6, <2>2
    <3>2. kstack'[t][i].mode = k[i].mode /\ kstack'[t][i].work = k[i].work
      BY <1>5, <3>1
    <3> QED
      BY <1>1, <2>2, <3>1, <3>2 DEF FramesInv
  <2> QED
    BY <2>1, <2>2
<1>10. RunInv'
  <2> SUFFICES ASSUME NEW d \in Core PROVE RunAt(d)'
    BY DEF RunInv
  <2>1. CASE d = c
    BY <1>1, <1>2, <1>4, <1>5, <1>6, <2>1 DEF CteType, RunAt
  <2>2. CASE d # c
    BY <1>1, <1>4, <1>6, <2>2 DEF CteType, OwnStack, RunInv, RunAt
  <2> QED
    BY <2>1, <2>2
<1>11. SpaceInv'
  <2>1. ASSUME NEW u \in UThread, kstack'[u] # <<>>
        PROVE  \/ Last(kstack'[u]).cr3 = u /\ Last(kstack'[u]).rsp0 = u
               \/ \E d \in Core : at'[d] = "stub" /\ runs[d] = u
    <3>1. CASE u = t
      BY <1>1, <1>5, <1>6, <3>1 DEF SpaceInv
    <3>2. CASE u # t
      BY <1>1, <1>6, <2>1, <3>2 DEF SpaceInv, CteType, Thread
    <3> QED
      BY <3>1, <3>2
  <2> QED
    BY <1>1, <2>1 DEF SpaceInv, CteType
<1> QED
  BY <1>7, <1>8, <1>9, <1>10, <1>11 DEF CteInv

LEMMA UserHandlerInv ==
  ASSUME CteInv, NEW c \in Core, NEW t \in Thread, user_handler(c, t)
  PROVE  CteInv'
<1>1. /\ CteType /\ OwnStack /\ FramesInv /\ RunInv /\ SpaceInv
      /\ at[c] = "handler" /\ kstack[t] # <<>>
      /\ \A d \in Core \ {c} : t # runs[d] /\ t # stack[d]
      /\ runs' = [runs EXCEPT ![c] = t] /\ at' = [at EXCEPT ![c] = "iret"]
      /\ UNCHANGED <<stack, reg, cr3, rsp0, event, kstack, did>>
  BY DEF CteInv, user_handler
<1>2. CteType' /\ FramesInv'
  BY <1>1 DEF CteType, FramesInv
<1>3. OwnStack'
  BY ZenonT(60), <1>1 DEF CteType, OwnStack
<1>4. RunInv'
  BY <1>1 DEF CteType, RunInv, RunAt
<1>5. SpaceInv'
  BY <1>1 DEF CteType, SpaceInv
<1> QED
  BY <1>2, <1>3, <1>4, <1>5 DEF CteInv

(* The last frame of the thread returned is put back. *)
LEMMA IretInv ==
  ASSUME CteInv, NEW c \in Core, iret(c)
  PROVE  CteInv'
<1> DEFINE t == runs[c]
           k == kstack[t]
           f == Last(k)
<1>1. /\ CteType /\ OwnStack /\ FramesInv /\ RunInv /\ SpaceInv
      /\ at[c] = "iret" /\ t \in Thread /\ k \in Seq(FrameType) /\ k # <<>>
      /\ cr3' = IF f.cr3 # NULL THEN [cr3 EXCEPT ![c] = f.cr3] ELSE cr3
      /\ rsp0' = IF f.cr3 # NULL THEN [rsp0 EXCEPT ![c] = f.rsp0] ELSE rsp0
      /\ kstack' = [kstack EXCEPT ![t] = Front(k)]
      /\ stack' = [stack EXCEPT ![c] = t]
      /\ reg' = [reg EXCEPT ![c] = f.work]
      /\ at' = [at EXCEPT ![c] = f.mode]
      /\ event' = [event EXCEPT ![c] = NULL]
      /\ UNCHANGED <<runs, did>>
  BY DEF CteInv, iret, CteType, RunInv, RunAt
<1>2. /\ Len(k) \in Nat \ {0} /\ f = k[Len(k)] /\ f \in FrameType
      /\ f.work = did[t]
      /\ f.mode = IF Len(k) > 1 THEN "stub" ELSE IF t \in UThread THEN "user" ELSE "kernel"
  BY <1>1 DEF Last, FramesInv
<1>3. /\ Front(k) \in Seq(FrameType) /\ Len(Front(k)) = Len(k) - 1
      /\ \A i \in 1 .. Len(k) - 1 : Front(k)[i] = k[i]
      /\ Front(k) = <<>> <=> Len(k) = 1
  <2> HIDE DEF k
  <2>1. k \in Seq(FrameType) /\ k # <<>>
    BY <1>1
  <2> QED
    BY <2>1, FrontOf
<1>4. t \in UThread => f.cr3 = t /\ f.rsp0 = t
  <2>1. \A d \in Core : ~(at[d] = "stub" /\ runs[d] = t)
    BY <1>1 DEF OwnStack
  <2> QED
    BY <1>1, <2>1 DEF SpaceInv
<1>5. f.mode \in {"user", "kernel", "stub"} /\ f.work \in Nat /\ f.cr3 \in Thread \cup {"kpt", NULL}
      /\ f.rsp0 \in Thread \cup {NULL}
  BY <1>2 DEF FrameType
<1> HIDE DEF f, k
<1>6. /\ kstack'[t] = Front(k) /\ \A u \in Thread \ {t} : kstack'[u] = kstack[u]
  BY <1>1 DEF CteType
<1>7. CteType'
  BY <1>1, <1>3, <1>5 DEF CteType
<1>8. OwnStack'
  <2>1. /\ runs' = runs /\ stack'[c] = runs[c]
        /\ \A d \in Core \ {c} : stack'[d] = stack[d] /\ at'[d] = at[d]
    BY <1>1 DEF CteType
  <2>2. \A d \in Core : at'[d] # "iret" => stack'[d] = runs'[d]
    BY <1>1, <2>1 DEF OwnStack
  <2>3. ASSUME NEW d \in Core, NEW e \in Core, d # e
        PROVE  runs[d] # runs[e] /\ runs[d] # stack'[e] /\ stack'[d] # stack'[e]
    BY <1>1, <2>1, <2>3 DEF OwnStack
  <2> QED
    BY <2>1, <2>2, <2>3 DEF OwnStack
<1>9. FramesInv'
  <2> SUFFICES ASSUME NEW u \in Thread, NEW i \in 1 .. Len(kstack'[u])
               PROVE  /\ kstack'[u][i].mode = IF i > 1 THEN "stub" ELSE IF u \in UThread THEN "user" ELSE "kernel"
                      /\ kstack'[u][i].work = did[u]
    BY <1>1 DEF FramesInv
  <2>1. CASE u # t
    BY <1>1, <1>6, <2>1 DEF FramesInv
  <2>2. CASE u = t
    <3>1. i \in 1 .. Len(k) /\ kstack'[t][i] = k[i]
      BY <1>2, <1>3, <1>6, <2>2
    <3> QED
      BY <1>1, <2>2, <3>1 DEF FramesInv, k
  <2> QED
    BY <2>1, <2>2
<1>10. RunInv'
  <2> SUFFICES ASSUME NEW d \in Core PROVE RunAt(d)'
    BY DEF RunInv
  <2>1. CASE d = c
    BY <1>1, <1>2, <1>3, <1>6, <2>1 DEF CteType, RunAt
  <2>2. CASE d # c
    BY <1>1, <1>6, <2>2 DEF CteType, OwnStack, RunInv, RunAt
  <2> QED
    BY <2>1, <2>2
<1>11. SpaceInv'
  <2>1. ASSUME NEW d \in Core, at'[d] \in {"user", "stub"}, runs[d] \in UThread
        PROVE  cr3'[d] = runs[d] /\ rsp0'[d] = runs[d]
    BY <1>1, <1>4, <2>1, CteAssumption DEF SpaceInv, CteType
  <2>2. ASSUME NEW u \in UThread, kstack'[u] # <<>>
        PROVE  \/ Last(kstack'[u]).cr3 = u /\ Last(kstack'[u]).rsp0 = u
               \/ \E d \in Core : at'[d] = "stub" /\ runs[d] = u
    <3>1. CASE u = t
      BY <1>1, <1>2, <1>3, <1>6, <2>2, <3>1 DEF CteType
    <3>2. CASE u # t
      BY <1>1, <1>6, <2>2, <3>2 DEF SpaceInv, CteType, Thread
    <3> QED
      BY <3>1, <3>2
  <2> QED
    BY <1>1, <2>1, <2>2 DEF SpaceInv
<1> QED
  BY <1>7, <1>8, <1>9, <1>10, <1>11 DEF CteInv

LEMMA CteInvRunsAsSaved == CteInv => RunsAsSaved
  BY DEF CteInv, CteType, OwnStack, RunInv, RunAt, SpaceInv, RunsAsSaved

(* For any number of processors, threads and nested traps: a running       *)
(* thread goes on from where it was, a user thread with its own address    *)
(* space and kernel stack, and the handler gets the event of the trap      *)
(* (trap64.S, __am_irq_handle, __am_iret).                                 *)
THEOREM ThreadsResume == CteSpec => []RunsAsSaved
<1>1. CteInv /\ [CteNext]_ctevars => CteInv'
  <2>1. CteInv /\ CteNext => CteInv'
    BY WorkInv, GateInv, IrqHandleInv, UserHandlerInv, IretInv DEF CteNext
  <2>2. CteInv /\ UNCHANGED ctevars => CteInv'
    <3> SUFFICES ASSUME CteInv, UNCHANGED ctevars PROVE CteInv'
      OBVIOUS
    <3>1. UNCHANGED <<at, runs, stack, reg, cr3, rsp0, event, kstack, did>>
      BY DEF ctevars
    <3>2. CteType' /\ OwnStack' /\ FramesInv'
      BY <3>1 DEF CteInv, CteType, OwnStack, FramesInv
    <3>3. RunInv'
      BY <3>1 DEF CteInv, RunInv, RunAt
    <3>4. SpaceInv'
      BY <3>1 DEF CteInv, SpaceInv
    <3> QED
      BY <3>2, <3>3, <3>4 DEF CteInv
  <2> QED
    BY <2>1, <2>2
<1> QED
  BY <1>1, CteInitInv, CteInvRunsAsSaved, PTL DEF CteSpec

----------------------------------------------------------------------------
(* NativeCte *)

CtxType == [sig : Signo \cup {"none"}, mode : {"user", "kernel"}, work : Nat, masked : BOOLEAN,
            vm_head : Threads \cup {NULL}, ksp : Threads \cup {NULL}]

NcType ==
  /\ where \in [Process -> {"user", "kernel", "lib", "irq", "leave", "dead"}]
  /\ thread \in [Process -> Threads] /\ onstack \in [Process -> Threads]
  /\ regs \in [Process -> Nat] /\ done \in [Threads -> Nat]
  /\ masked \in [Process -> BOOLEAN] /\ DOMAIN ev = Process
  /\ vm_of \in [Process -> Threads \cup {NULL}] /\ ksp \in [Process -> Threads \cup {NULL}]
  /\ frames \in [Threads -> Seq(CtxType)]

(* A thread and its stack belong to one processor. *)
NcOwnStack ==
  /\ \A c, d \in Process : c # d => /\ thread[c] # thread[d] /\ thread[c] # onstack[d]
                                   /\ onstack[c] # onstack[d]
  /\ \A c \in Process : where[c] # "leave" => onstack[c] = thread[c]

Space(t) == IF t \in UserThread THEN t ELSE NULL

(* At most one context on a stack, of the thread's own code; unless it was *)
(* just made, it has the address space and the kernel stack.               *)
ContextOf(t) ==
  /\ Len(frames[t]) <= 1
  /\ frames[t] # <<>> =>
       /\ frames[t][1].mode = IF t \in UserThread THEN "user" ELSE "kernel"
       /\ frames[t][1].work = done[t]
       /\ \/ frames[t][1].vm_head = Space(t) /\ frames[t][1].ksp = Space(t)
          \/ \E c \in Process : where[c] \in {"irq", "dead"} /\ thread[c] = t

(* From the signal to the magic call no other signal comes, so that ev is  *)
(* the event of the one context.                                           *)
NcAt(c) ==
  /\ where[c] \in {"user", "kernel", "lib"} =>
       /\ frames[thread[c]] = <<>> /\ regs[c] = done[thread[c]]
       /\ (where[c] = "user" <=> thread[c] \in UserThread)
  /\ where[c] \in {"irq", "leave"} => frames[thread[c]] # <<>> /\ masked[c] = TRUE
  /\ where[c] # "dead" => vm_of[c] = Space(thread[c])
  /\ where[c] \notin {"dead", "leave"} => ksp[c] = Space(thread[c])
  /\ where[c] = "irq" =>
       ev[c] = EventFrom(frames[thread[c]][1].sig, frames[thread[c]][1].mode = "user")

NcInv ==
  /\ NcType /\ NcOwnStack
  /\ \A t \in Threads : ContextOf(t)
  /\ \A c \in Process : NcAt(c)

LEMMA OnlyElement ==
  ASSUME NEW S, NEW k \in Seq(S), k # <<>>, Len(k) <= 1
  PROVE  Len(k) = 1 /\ k[1] \in S
<1>1. Len(k) = 1
  BY EmptySeq
<1> QED
  BY <1>1

LEMMA SingleContext ==
  ASSUME NEW t \in Threads, ContextOf(t), frames[t] # <<>>, frames[t] \in Seq(CtxType)
  PROVE  Len(frames[t]) = 1 /\ frames[t][1] \in CtxType
<1>1. PICK k \in Seq(CtxType) : k = frames[t]
  OBVIOUS
<1>2. Len(k) <= 1 /\ k # <<>>
  BY <1>1 DEF ContextOf
<1>3. Len(k) = 1 /\ k[1] \in CtxType
  BY <1>2, OnlyElement
<1> QED
  BY <1>1, <1>3

LEMMA NcInitInv == NcInit => NcInv
<1> SUFFICES ASSUME NcInit PROVE NcInv
  OBVIOUS
<1> USE NcAssumption DEF NcInit
<1>1. /\ kcontext_native \in CtxType /\ kcontext_native.mode = "kernel" /\ kcontext_native.work = 0
      /\ kcontext_native.vm_head = NULL /\ kcontext_native.ksp = NULL
      /\ \A t \in UserThread :
           LET k == ucontext_native(t)
           IN  k \in CtxType /\ k.mode = "user" /\ k.work = 0 /\ k.vm_head = t /\ k.ksp = t
  BY DEF kcontext_native, ucontext_native, Ctx, CtxType, Threads
<1>2. NcType
  <2>1. frames \in [Threads -> Seq(CtxType)]
    BY <1>1 DEF Threads
  <2> QED
    BY <2>1 DEF NcType, Threads
<1>3. NcOwnStack
  BY DEF NcOwnStack
<1>4. \A t \in Threads : ContextOf(t)
  BY <1>1 DEF ContextOf, Threads, Space
<1>5. \A c \in Process : NcAt(c)
  BY DEF NcAt, Threads, Space
<1> QED
  BY <1>2, <1>3, <1>4, <1>5 DEF NcInv

LEMMA StepInv ==
  ASSUME NcInv, NEW c \in Process, step(c)
  PROVE  NcInv'
<1>1. /\ NcType /\ NcOwnStack /\ \A t \in Threads : ContextOf(t) /\ \A d \in Process : NcAt(d)
      /\ where[c] \in {"user", "kernel"} /\ thread[c] \in Threads /\ frames[thread[c]] = <<>>
      /\ regs[c] = done[thread[c]] /\ regs[c] \in Nat /\ (regs[c] + 1) % Steps \in Nat
      /\ UNCHANGED <<where, thread, onstack, masked, ev, vm_of, ksp, frames>>
  BY NcAssumption DEF NcInv, step, NcType, NcAt
<1>2. /\ regs' = [regs EXCEPT ![c] = (regs[c] + 1) % Steps]
      /\ done' = [done EXCEPT ![thread[c]] = (regs[c] + 1) % Steps]
  BY <1>1 DEF step
<1>3. NcType' /\ NcOwnStack'
  BY <1>1, <1>2 DEF NcType, NcOwnStack
<1>4. ASSUME NEW t \in Threads PROVE ContextOf(t)'
  BY <1>1, <1>2 DEF ContextOf, NcType
<1>5. ASSUME NEW d \in Process PROVE NcAt(d)'
  BY <1>1, <1>2 DEF NcAt, NcType, NcOwnStack
<1> QED
  BY <1>3, <1>4, <1>5 DEF NcInv

LEMMA LibraryInv ==
  ASSUME NcInv, NEW c \in Process, library(c) \/ iset(c)
  PROVE  NcInv'
<1>1. /\ NcType /\ NcOwnStack /\ \A t \in Threads : ContextOf(t) /\ \A d \in Process : NcAt(d)
      /\ UNCHANGED <<thread, onstack, regs, ev, vm_of, ksp, frames, done>>
  BY DEF NcInv, library, iset
<1>5. /\ where[c] \in {"kernel", "lib"} /\ where'[c] \in {"kernel", "lib"}
      /\ \A d \in Process \ {c} : where'[d] = where[d] /\ masked'[d] = masked[d]
      /\ where' \in [Process -> {"user", "kernel", "lib", "irq", "leave", "dead"}]
      /\ masked' \in [Process -> BOOLEAN]
  <2>1. /\ where \in [Process -> {"user", "kernel", "lib", "irq", "leave", "dead"}]
        /\ masked \in [Process -> BOOLEAN]
    BY <1>1 DEF NcType
  <2>2. CASE library(c)
    BY <2>1, <2>2 DEF library
  <2>3. CASE iset(c)
    BY <2>1, <2>3 DEF iset
  <2> QED
    BY <2>2, <2>3
<1>2. NcType' /\ NcOwnStack'
  <2>1. NcType'
    BY <1>1, <1>5 DEF NcType
  <2>2. \A d \in Process : where'[d] # "leave" => where[d] # "leave"
    BY <1>5
  <2>3. NcOwnStack'
    BY <1>1, <2>2 DEF NcOwnStack
  <2> QED
    BY <2>1, <2>3
<1>3. ASSUME NEW t \in Threads PROVE ContextOf(t)'
  <2>1. \A d \in Process : where[d] \in {"irq", "dead"} => where'[d] = where[d]
    BY <1>5
  <2> QED
    BY <1>1, <2>1 DEF ContextOf
<1>4. ASSUME NEW d \in Process PROVE NcAt(d)'
  <2>1. CASE d = c
    <3>1. thread[c] \in Threads
      BY <1>1 DEF NcType
    <3> QED
      BY <1>1, <1>5, <2>1, <3>1 DEF NcAt
  <2>2. CASE d # c
    <3>1. where'[d] = where[d] /\ masked'[d] = masked[d]
      BY ONLY <1>4, <1>5, <2>2
    <3>2. NcAt(d)
      BY ONLY <1>4, NcInv DEF NcInv
    <3> QED
      BY ONLY <1>1, <3>1, <3>2 DEF NcAt
  <2> QED
    BY <2>1, <2>2
<1> QED
  BY <1>2, <1>3, <1>4 DEF NcInv

(* In library code, which interrupts cannot leave, only ev is written. *)
LEMMA SigHandlerInv ==
  ASSUME NcInv, NEW c \in Process, NEW sig \in Signo, sig_handler(c, sig)
  PROVE  NcInv'
<1> DEFINE t == thread[c]
           f == Ctx(sig, where[c], regs[c], masked[c])
<1>1. /\ NcType /\ NcOwnStack /\ \A u \in Threads : ContextOf(u) /\ \A d \in Process : NcAt(d)
      /\ ev' = [ev EXCEPT ![c] = EventFrom(sig, vm_of[c] # NULL)]
      /\ UNCHANGED <<thread, regs, vm_of, ksp, done>>
      /\ t \in Threads /\ vm_of[c] = Space(t) /\ NcAt(c)
  BY DEF NcInv, sig_handler, NcType, NcAt
<1>2. CASE sig \in Interrupt /\ where[c] = "lib"
  <2>1. UNCHANGED <<where, onstack, frames, masked>>
    BY <1>2 DEF sig_handler
  <2>2. NcType' /\ NcOwnStack'
    BY <1>1, <2>1 DEF NcType, NcOwnStack
  <2>3. ASSUME NEW u \in Threads PROVE ContextOf(u)'
    BY <1>1, <2>1 DEF ContextOf
  <2>4. ASSUME NEW d \in Process PROVE NcAt(d)'
    BY <1>1, <1>2, <2>1 DEF NcAt, NcType
  <2> QED
    BY <2>2, <2>3, <2>4 DEF NcInv
<1>3. CASE ~(sig \in Interrupt /\ where[c] = "lib")
  <2>1. where[c] \in {"user", "kernel"}
    BY <1>1, <1>3 DEF sig_handler, Possible, NcAt, NcType
  <2>2. /\ frames[t] = <<>> /\ regs[c] = done[t] /\ (where[c] = "user" <=> t \in UserThread)
        /\ ksp[c] = Space(t) /\ onstack[c] = t
    BY <1>1, <2>1 DEF NcAt, NcOwnStack
  <2>3. in_userspace(c) => ksp[c] = t
    BY <2>2 DEF in_userspace, Space
  <2>4. /\ frames' = [frames EXCEPT ![t] = Append(<<>>, f)]
        /\ onstack' = [onstack EXCEPT ![c] = t]
        /\ masked' = [masked EXCEPT ![c] = TRUE]
        /\ where' = [where EXCEPT ![c] = "irq"]
    BY <1>3, <2>2, <2>3 DEF sig_handler, Disabled
  <2>5. /\ f \in CtxType /\ f.mode = where[c] /\ f.work = done[t] /\ f.sig = sig
        /\ Append(<<>>, f) = <<f>>
    BY <1>1, <2>1, <2>2 DEF Ctx, CtxType, NcType
  <2> HIDE DEF f
  <2>6. frames'[t] = <<f>> /\ \A u \in Threads \ {t} : frames'[u] = frames[u]
    BY <1>1, <2>4, <2>5 DEF NcType
  <2>7. frames' \in [Threads -> Seq(CtxType)]
    BY <1>1, <2>4, <2>5 DEF NcType
  <2>8. NcType'
    BY <1>1, <2>4, <2>7 DEF NcType
  <2>9. NcOwnStack'
    BY SMTT(60), <1>1, <2>2, <2>4 DEF NcType, NcOwnStack
  <2>10. ASSUME NEW u \in Threads PROVE ContextOf(u)'
    <3>1. CASE u = t
      BY <1>1, <2>1, <2>2, <2>4, <2>5, <2>6, <3>1 DEF ContextOf, NcType
    <3>2. CASE u # t
      BY <1>1, <2>4, <2>6, <3>2 DEF ContextOf, NcType
    <3> QED
      BY <3>1, <3>2
  <2>11. ASSUME NEW d \in Process PROVE NcAt(d)'
    <3>1. CASE d = c
      <4>1. EventFrom(sig, vm_of[c] # NULL) = EventFrom(f.sig, f.mode = "user")
        <5>1. (vm_of[c] # NULL) = (f.mode = "user")
          BY <1>1, <2>1, <2>2, <2>5, NcAssumption DEF Space
        <5> QED
          BY <2>5, <5>1, Zenon
      <4> QED
        BY <1>1, <2>2, <2>4, <2>6, <3>1, <4>1 DEF NcAt, NcType
    <3>2. CASE d # c
      BY <1>1, <2>4, <2>6, <3>2 DEF NcAt, NcType, NcOwnStack
    <3> QED
      BY <3>1, <3>2
  <2> QED
    BY <2>8, <2>9, <2>10, <2>11 DEF NcInv
<1> QED
  BY <1>2, <1>3

LEMMA IrqHandleNativeInv ==
  ASSUME NcInv, NEW c \in Process, NEW t \in Threads, irq_handle_native(c, t)
  PROVE  NcInv'
<1> DEFINE s == thread[c]
           k == frames[s]
           g == [k[1] EXCEPT !.vm_head = vm_of[c], !.ksp = ksp[c]]
           saved == [frames EXCEPT ![s] = [k EXCEPT ![1] = g]]
<1>1. /\ NcType /\ NcOwnStack /\ \A u \in Threads : ContextOf(u) /\ \A d \in Process : NcAt(d)
      /\ where[c] = "irq" /\ s \in Threads /\ onstack[c] = s
      /\ UNCHANGED <<onstack, regs, masked, ev, ksp, done>>
      /\ ContextOf(s) /\ NcAt(c)
  BY DEF NcInv, irq_handle_native, NcType, NcOwnStack
<1>2. CASE ev[c] = "ERROR"
  <2>1. t = s /\ where' = [where EXCEPT ![c] = "dead"] /\ UNCHANGED <<frames, thread, vm_of>>
    BY <1>2 DEF irq_handle_native
  <2>2. NcType' /\ NcOwnStack'
    BY <1>1, <2>1 DEF NcType, NcOwnStack
  <2>3. ASSUME NEW u \in Threads PROVE ContextOf(u)'
    BY <1>1, <2>1 DEF ContextOf, NcType
  <2>4. ASSUME NEW d \in Process PROVE NcAt(d)'
    BY <1>1, <2>1 DEF NcAt, NcType
  <2> QED
    BY <2>2, <2>3, <2>4 DEF NcInv
<1>3. CASE ev[c] # "ERROR"
  <2>1. k \in Seq(CtxType) /\ Len(k) = 1 /\ k[1] \in CtxType /\ k # <<>>
    <3>1. k \in Seq(CtxType) /\ k # <<>>
      BY <1>1 DEF NcAt, NcType
    <3>2. Len(k) = 1 /\ k[1] \in CtxType
      BY <1>1, <3>1, SingleContext
    <3> QED
      BY <3>1, <3>2
  <2>2. vm_of[c] = Space(s) /\ ksp[c] = Space(s) /\ Space(s) \in Threads \cup {NULL}
    BY <1>1 DEF NcAt, Space
  <2>3. /\ \A d \in Process \ {c} : t # thread[d] /\ t # onstack[d]
        /\ frames[t] # <<>> /\ frames' = saved /\ thread' = [thread EXCEPT ![c] = t]
        /\ vm_of' = [vm_of EXCEPT ![c] = Last(saved[t]).vm_head]
        /\ where' = [where EXCEPT ![c] = "leave"]
    BY <1>1, <1>3, <2>1 DEF irq_handle_native, NcType
  <2>4. /\ g \in CtxType /\ g.mode = k[1].mode /\ g.work = k[1].work
        /\ g.vm_head = Space(s) /\ g.ksp = Space(s)
    BY <2>1, <2>2 DEF CtxType
  <2> HIDE DEF g
  <2>5. /\ [k EXCEPT ![1] = g] \in Seq(CtxType) /\ Len([k EXCEPT ![1] = g]) = 1
        /\ [k EXCEPT ![1] = g][1] = g
    BY <2>1, <2>4
  <2>6. /\ frames' \in [Threads -> Seq(CtxType)] /\ Len(frames'[s]) = 1 /\ frames'[s][1] = g
        /\ \A u \in Threads \ {s} : frames'[u] = frames[u]
    BY <1>1, <2>3, <2>5 DEF NcType
  <2> HIDE DEF saved
  <2>7. Len(frames'[t]) = 1 /\ frames'[t][1].vm_head = Space(t)
    <3>1. CASE t = s
      BY <2>4, <2>6, <3>1
    <3>2. CASE t # s
      <4>1. ContextOf(t) /\ frames[t] # <<>> /\ frames'[t] = frames[t] /\ frames[t] \in Seq(CtxType)
        BY <1>1, <2>3, <2>6, <3>2 DEF NcType
      <4>2. ~\E d \in Process : where[d] \in {"irq", "dead"} /\ thread[d] = t
        BY <2>3, <3>2
      <4>3. Len(frames[t]) = 1
        BY <4>1, SingleContext
      <4> QED
        BY <4>1, <4>2, <4>3 DEF ContextOf
    <3> QED
      BY <3>1, <3>2
  <2>8. vm_of' = [vm_of EXCEPT ![c] = Space(t)]
    <3>1. Last(frames'[t]) = frames'[t][1]
      BY <2>7 DEF Last
    <3> QED
      BY <2>3, <2>7, <3>1
  <2>9. NcType'
    BY <1>1, <2>3, <2>6, <2>8 DEF NcType, Space
  <2>10. NcOwnStack'
    BY SMTT(30), <1>1, <2>3 DEF NcType, NcOwnStack
  <2>11. ASSUME NEW u \in Threads PROVE ContextOf(u)'
    <3>1. CASE u = s
      BY <1>1, <2>1, <2>4, <2>6, <3>1 DEF ContextOf
    <3>2. CASE u # s
      BY <1>1, <2>3, <2>6, <3>2 DEF ContextOf, NcType
    <3> QED
      BY <3>1, <3>2
  <2>12. ASSUME NEW d \in Process PROVE NcAt(d)'
    <3>1. CASE d = c
      BY <1>1, <2>3, <2>7, <2>8, <3>1 DEF NcAt, NcType
    <3>2. CASE d # c
      BY SMTT(30), <1>1, <2>3, <2>6, <2>8, <3>2 DEF NcAt, NcType, NcOwnStack
    <3> QED
      BY <3>1, <3>2
  <2> QED
    BY <2>9, <2>10, <2>11, <2>12 DEF NcInv
<1> QED
  BY <1>2, <1>3

LEMMA IretNativeInv ==
  ASSUME NcInv, NEW c \in Process, iret_native(c)
  PROVE  NcInv'
<1> DEFINE t == thread[c]
           k == frames[t]
           f == k[1]
<1>1. /\ NcType /\ NcOwnStack /\ \A u \in Threads : ContextOf(u) /\ \A d \in Process : NcAt(d)
      /\ where[c] = "leave" /\ t \in Threads /\ k \in Seq(CtxType) /\ k # <<>> /\ Len(k) = 1
      /\ vm_of[c] = Space(t) /\ ContextOf(t)
      /\ UNCHANGED <<thread, vm_of, done>>
  <2>1. /\ NcType /\ NcOwnStack /\ \A u \in Threads : ContextOf(u) /\ \A d \in Process : NcAt(d)
        /\ where[c] = "leave" /\ UNCHANGED <<thread, vm_of, done>>
    BY DEF NcInv, iret_native
  <2>2. t \in Threads /\ k \in Seq(CtxType) /\ k # <<>> /\ vm_of[c] = Space(t) /\ ContextOf(t)
    BY <2>1 DEF NcType, NcAt
  <2>3. Len(k) = 1
    BY <2>2, SingleContext
  <2> QED
    BY <2>1, <2>2, <2>3
<1>2. Last(k) = f /\ f \in CtxType
  BY <1>1 DEF Last
<1>3. /\ ev' = [ev EXCEPT ![c] = "ERROR"]
      /\ frames' = [frames EXCEPT ![t] = Front(k)]
      /\ onstack' = [onstack EXCEPT ![c] = t]
      /\ regs' = [regs EXCEPT ![c] = f.work]
      /\ masked' = [masked EXCEPT ![c] = f.masked]
      /\ ksp' = [ksp EXCEPT ![c] = f.ksp]
      /\ where' = [where EXCEPT ![c] = f.mode]
  BY <1>1, <1>2 DEF iret_native, NcType
<1>4. /\ f.mode = IF t \in UserThread THEN "user" ELSE "kernel"
      /\ f.work = done[t] /\ f.ksp = Space(t)
  <2>1. ~\E d \in Process : where[d] \in {"irq", "dead"} /\ thread[d] = t
    BY <1>1 DEF NcOwnStack
  <2> QED
    BY <1>1, <2>1 DEF ContextOf
<1>5. f.work \in Nat /\ f.masked \in BOOLEAN /\ f.ksp \in Threads \cup {NULL}
  BY <1>2 DEF CtxType
<1>6. Front(k) = <<>> /\ Front(k) \in Seq(CtxType)
  <2> HIDE DEF k
  <2> QED
    BY <1>1, FrontOf
<1> HIDE DEF f, k
<1>7. frames'[t] = <<>> /\ \A u \in Threads \ {t} : frames'[u] = frames[u]
  BY <1>1, <1>3, <1>6 DEF NcType
<1>8. NcType'
  BY <1>1, <1>3, <1>4, <1>5, <1>6 DEF NcType
<1>9. NcOwnStack'
  <2>1. /\ thread' = thread /\ onstack'[c] = thread[c]
        /\ \A d \in Process \ {c} : onstack'[d] = onstack[d] /\ where'[d] = where[d]
    BY <1>1, <1>3 DEF NcType
  <2>2. \A d \in Process : where'[d] # "leave" => onstack'[d] = thread'[d]
    BY <1>1, <2>1 DEF NcOwnStack
  <2>3. ASSUME NEW d \in Process, NEW e \in Process, d # e
        PROVE  thread[d] # thread[e] /\ thread[d] # onstack'[e] /\ onstack'[d] # onstack'[e]
    BY <1>1, <2>1, <2>3 DEF NcOwnStack
  <2> QED
    BY <2>1, <2>2, <2>3 DEF NcOwnStack
<1>10. ASSUME NEW u \in Threads PROVE ContextOf(u)'
  <2>1. CASE u = t
    BY <1>7, <2>1 DEF ContextOf
  <2>2. CASE u # t
    BY <1>1, <1>3, <1>7, <2>2 DEF ContextOf, NcType
  <2> QED
    BY <2>1, <2>2
<1>11. ASSUME NEW d \in Process PROVE NcAt(d)'
  <2>1. CASE d = c
    BY <1>1, <1>3, <1>4, <1>7, <2>1 DEF NcAt, NcType
  <2>2. CASE d # c
    BY <1>1, <1>3, <1>7, <2>2 DEF NcAt, NcType, NcOwnStack
  <2> QED
    BY <2>1, <2>2
<1> QED
  BY <1>8, <1>9, <1>10, <1>11 DEF NcInv

LEMMA NcInvEventMatches == NcInv => EventMatches
<1> SUFFICES ASSUME NcInv, NEW c \in Process
    PROVE  /\ where[c] = "irq" =>
                /\ onstack[c] = thread[c]
                /\ ev[c] = EventFrom(Last(frames[onstack[c]]).sig, Last(frames[onstack[c]]).mode = "user")
           /\ where[c] \in {"user", "kernel", "lib"} => regs[c] = done[thread[c]]
           /\ where[c] = "user" =>
                vm_of[c] = thread[c] /\ ksp[c] = thread[c] /\ frames[thread[c]] = <<>>
  BY DEF EventMatches
<1>1. NcType /\ NcOwnStack /\ NcAt(c) /\ ContextOf(thread[c]) /\ thread[c] \in Threads
  BY DEF NcInv, NcType
<1>2. where[c] = "irq" => Last(frames[thread[c]]) = frames[thread[c]][1] /\ onstack[c] = thread[c]
  BY <1>1 DEF NcAt, ContextOf, NcType, NcOwnStack, Last
<1> QED
  BY <1>1, <1>2 DEF NcAt, Space

(* For any number of processes and threads, and signals at any point: the  *)
(* event given to the handler is that of the trap that stopped the thread, *)
(* and threads go on from where they were, user threads in their space     *)
(* (sig_handler, irq_handle, __am_iret).                                   *)
THEOREM EventsMatch == NcSpec => []EventMatches
<1>1. NcInv /\ [NcNext]_ncvars => NcInv'
  <2>1. NcInv /\ NcNext => NcInv'
    BY StepInv, LibraryInv, SigHandlerInv, IrqHandleNativeInv, IretNativeInv DEF NcNext
  <2>2. NcInv /\ UNCHANGED ncvars => NcInv'
    BY DEF ncvars, NcInv, NcType, NcOwnStack, ContextOf, NcAt
  <2> QED
    BY <2>1, <2>2
<1> QED
  BY <1>1, NcInitInv, NcInvEventMatches, PTL DEF NcSpec

----------------------------------------------------------------------------
(* NativeVme *)

(* What the lists of a space look like: the list h of the PageMaps of m.   *)
Held(m) == {v \in Page : m[v] # NULL}
Table == [Page -> PageMap \cup {NULL}]
Linked(m, h) ==
  /\ h \in Held(m) \cup {NULL}
  /\ \A v \in Held(m) : m[v].next \in Held(m) \cup {NULL}

Complete(m, h) ==
  /\ From(m, h) = Held(m)
  /\ Held(m) = {} \/ \E v \in Held(m) : m[v].next = NULL
Endless(m, h) == h # NULL /\ \A v \in From(m, h) : m[v].next # NULL

LEMMA FromLeast ==
  ASSUME NEW m, NEW v, NEW S \in SUBSET Page, v \in S \cup {NULL}, Closed(m, S)
  PROVE  From(m, v) \subseteq S
BY DEF From

LEMMA FromStart ==
  ASSUME NEW m \in Table, NEW v \in Page \cup {NULL}
  PROVE  /\ From(m, v) \in SUBSET Page
         /\ v \in From(m, v) \cup {NULL}
         /\ Closed(m, From(m, v))
         /\ From(m, NULL) = {}
<1>1. From(m, v) \in SUBSET Page /\ v \in From(m, v) \cup {NULL}
  BY DEF From
<1>2. ASSUME NEW w \in From(m, v), m[w] # NULL PROVE m[w].next \in From(m, v) \cup {NULL}
  <2>1. w \in Page /\ m[w].next \in Page \cup {NULL}
    BY <1>1, <1>2 DEF Table, PageMap
  <2> SUFFICES ASSUME m[w].next # NULL, NEW S \in SUBSET Page, v \in S \cup {NULL}, Closed(m, S)
               PROVE  m[w].next \in S
    BY <2>1 DEF From
  <2>2. w \in S
    BY <1>2 DEF From
  <2> QED
    BY <1>2, <2>2 DEF Closed
<1>3. From(m, NULL) = {}
  <2>1. {} \in SUBSET Page /\ NULL \in {} \cup {NULL} /\ Closed(m, {})
    BY DEF Closed
  <2>2. From(m, NULL) \subseteq {}
    BY ONLY <2>1, FromLeast
  <2> QED
    BY <2>2
<1> QED
  BY <1>1, <1>2, <1>3 DEF Closed

(* A walk depends on next only. *)
LEMMA FromSame ==
  ASSUME NEW m \in Table, NEW n \in Table, NEW v,
         \A w \in Page : (m[w] = NULL <=> n[w] = NULL) /\ (m[w] # NULL => m[w].next = n[w].next)
  PROVE  From(m, v) = From(n, v)
<1>1. \A S \in SUBSET Page : Closed(m, S) <=> Closed(n, S)
  BY DEF Closed
<1> QED
  BY <1>1 DEF From

(* native_map puts a PageMap before the list: a new one before all others; *)
LEMMA PushNew ==
  ASSUME NEW m \in Table, NEW h, Linked(m, h), NEW v \in Page, m[v] = NULL,
         NEW p \in PageMap, p.next = h
  PROVE  LET n == [m EXCEPT ![v] = p] IN
         /\ Held(n) = Held(m) \cup {v} /\ Linked(n, v)
         /\ Complete(m, h) => Complete(n, v)
         /\ Endless(m, h) => Endless(n, v)
<1> DEFINE n == [m EXCEPT ![v] = p]
<1>1. /\ n \in Table /\ p # NULL /\ n[v] = p /\ \A w \in Page : w # v => n[w] = m[w]
      /\ h \in Page \cup {NULL} /\ v # NULL
  BY NativeVmeAssumption DEF Table, Linked, Held
<1> HIDE DEF n
<1>2. Held(n) = Held(m) \cup {v}
  BY <1>1 DEF Held
<1>3. Linked(n, v)
  BY <1>1, <1>2 DEF Linked, Held
<1>4. /\ From(m, h) \in SUBSET Page /\ h \in From(m, h) \cup {NULL} /\ Closed(m, From(m, h))
      /\ From(n, v) \in SUBSET Page /\ v \in From(n, v) /\ Closed(n, From(n, v))
  BY <1>1, FromStart
<1>5. From(m, h) \subseteq Held(m)
  <2>1. Closed(m, Held(m))
    BY DEF Closed, Linked
  <2> QED
    BY <2>1, FromLeast DEF Linked, Held
<1>6. From(n, v) \subseteq {v} \cup From(m, h)
  <2>1. Closed(n, {v} \cup From(m, h))
    BY <1>1, <1>4, <1>5 DEF Closed, Held
  <2> QED
    BY <1>4, <2>1, FromLeast
<1>7. {v} \cup From(m, h) \subseteq From(n, v)
  <2>1. h \in From(n, v) \cup {NULL}
    BY <1>1, <1>4 DEF Closed
  <2>2. Closed(m, From(n, v))
    BY <1>1, <1>4 DEF Closed
  <2> QED
    BY <1>4, <2>1, <2>2, FromLeast
<1>8. ASSUME Complete(m, h) PROVE Complete(n, v)
  <2>1. From(n, v) = Held(n)
    BY <1>2, <1>6, <1>7, <1>8 DEF Complete
  <2>2. CASE Held(m) = {}
    <3>1. n[v].next = NULL
      BY <1>1, <2>2 DEF Linked
    <3> QED
      BY <1>2, <2>1, <3>1 DEF Complete
  <2>3. CASE Held(m) # {}
    BY <1>1, <1>2, <1>8, <2>1, <2>3 DEF Complete, Held
  <2> QED
    BY <2>2, <2>3
<1>9. ASSUME Endless(m, h) PROVE Endless(n, v)
  BY <1>1, <1>4, <1>5, <1>6, <1>9 DEF Endless, Held
<1> QED
  BY <1>2, <1>3, <1>8, <1>9 DEF n

(* and one that was there before makes a list without an end.              *)
LEMMA PushAgain ==
  ASSUME NEW m \in Table, NEW h, Linked(m, h), NEW v \in Page, m[v] # NULL,
         NEW p \in PageMap, p.next = h, Complete(m, h) \/ Endless(m, h)
  PROVE  LET n == [m EXCEPT ![v] = p] IN
         Held(n) = Held(m) /\ Linked(n, v) /\ Endless(n, v)
<1> DEFINE n == [m EXCEPT ![v] = p]
<1>1. /\ n \in Table /\ p # NULL /\ n[v] = p /\ \A w \in Page : w # v => n[w] = m[w]
      /\ h \in Page \cup {NULL} /\ v # NULL
  BY NativeVmeAssumption DEF Table, Linked, Held
<1> HIDE DEF n
<1>2. Held(n) = Held(m) /\ v \in Held(m)
  BY <1>1 DEF Held
<1>3. Linked(n, v)
  BY <1>1, <1>2 DEF Linked, Held
<1>4. From(n, v) \in SUBSET Page /\ v \in From(n, v) /\ Closed(n, From(n, v))
  BY <1>1, FromStart
<1>5. ASSUME Complete(m, h) PROVE Endless(n, v)
  <2> DEFINE T == {u \in Page : v \in From(m, u)}
  <2>1. v \in T /\ T \in SUBSET Page
    BY <1>1, FromStart
  <2>2. h \in T
    <3>1. v \in From(m, h) /\ From(m, NULL) = {}
      BY <1>1, <1>2, <1>5, FromStart DEF Complete
    <3> QED
      BY <1>1, <3>1
  <2>3. ASSUME NEW w \in T, w # v PROVE m[w] # NULL /\ m[w].next \in T /\ m[w].next # NULL
    <3>0. w \in Page /\ v \in From(m, w)
      OBVIOUS
    <3>1. m[w] # NULL
      <4> SUFFICES ASSUME m[w] = NULL PROVE FALSE
        OBVIOUS
      <4>1. Closed(m, {w})
        BY DEF Closed
      <4>2. From(m, w) \subseteq {w}
        BY <4>1, <3>0, FromLeast
      <4> QED
        BY <4>2, <3>0, <2>3
    <3> DEFINE x == m[w].next
    <3>2. x \in Page \cup {NULL}
      BY <3>0, <3>1 DEF Table, PageMap
    <3>3. v \in From(m, x)
      <4>1. From(m, x) \in SUBSET Page /\ x \in From(m, x) \cup {NULL} /\ Closed(m, From(m, x))
        BY <3>2, FromStart
      <4>2. Closed(m, {w} \cup From(m, x))
        BY <4>1 DEF Closed
      <4>3. From(m, w) \subseteq {w} \cup From(m, x)
        BY <4>1, <4>2, <3>0, FromLeast
      <4> QED
        BY <4>3, <3>0, <2>3
    <3>4. x # NULL
      BY <3>3, FromStart
    <3> QED
      BY <3>1, <3>2, <3>3, <3>4
  <2> HIDE DEF T
  <2>4. Closed(n, T)
    BY <1>1, <2>1, <2>2, <2>3 DEF Closed
  <2>5. From(n, v) \subseteq T
    BY <2>1, <2>4, FromLeast
  <2>6. h # NULL
    BY <2>2, NativeVmeAssumption DEF T
  <2> QED
    BY <1>1, <2>1, <2>3, <2>5, <2>6 DEF Endless
<1>6. ASSUME Endless(m, h) PROVE Endless(n, v)
  <2>1. From(m, h) \in SUBSET Page /\ h \in From(m, h) /\ Closed(m, From(m, h))
    BY <1>1, <1>6, FromStart DEF Endless
  <2>2. From(n, v) \subseteq {v} \cup From(m, h)
    <3>1. Closed(n, {v} \cup From(m, h))
      BY <1>1, <2>1 DEF Closed
    <3> QED
      BY <2>1, <3>1, FromLeast
  <2> QED
    BY <1>1, <1>6, <2>1, <2>2 DEF Endless
<1> QED
  BY <1>2, <1>3, <1>5, <1>6 DEF n

(* Setting is_mapped changes no list and no access. *)
Alike(m, n) ==
  \A v \in Page : /\ m[v] = NULL <=> n[v] = NULL
                  /\ m[v] # NULL => n[v].next = m[v].next /\ n[v].pa = m[v].pa /\ n[v].prot = m[v].prot

LEMMA AlikeLists ==
  ASSUME NEW m \in Table, NEW n \in Table, Alike(m, n), NEW h
  PROVE  /\ Held(n) = Held(m)
         /\ Linked(m, h) => Linked(n, h)
         /\ Complete(m, h) => Complete(n, h)
         /\ Endless(m, h) /\ Linked(m, h) => Endless(n, h)
<1>1. Held(n) = Held(m)
  BY DEF Alike, Held
<1>2. From(n, h) = From(m, h)
  BY FromSame DEF Alike
<1>3. Linked(m, h) => From(m, h) \subseteq Held(m)
  BY FromLeast DEF Closed, Linked, Held
<1>4. ASSUME Linked(m, h) PROVE Linked(n, h)
  BY <1>1, <1>4 DEF Alike, Linked, Held
<1>5. ASSUME Complete(m, h) PROVE Complete(n, h)
  BY <1>1, <1>2, <1>5 DEF Alike, Complete, Held
<1>6. ASSUME Endless(m, h), Linked(m, h) PROVE Endless(n, h)
  BY <1>1, <1>2, <1>3, <1>6 DEF Alike, Endless, Held
<1> QED
  BY <1>1, <1>4, <1>5, <1>6

LEMMA AlikeTwice ==
  ASSUME NEW k, NEW m, NEW n, Alike(k, m), Alike(m, n)
  PROVE  Alike(k, n)
BY DEF Alike

FlagOn(m, s, vs)  == SetMapped(m, s, vs, TRUE)
FlagOff(m, s, vs) == SetMapped(m, s, vs, FALSE)

LEMMA FlagsAlike ==
  ASSUME NEW m \in [VmHead -> Table], NEW s \in VmHead \cup {NULL}, NEW vs,
         s = NULL => vs = {}, s # NULL => vs \subseteq Held(m[s]), NEW n,
         n = FlagOn(m, s, vs) \/ n = FlagOff(m, s, vs)
  PROVE  /\ n \in [VmHead -> Table]
         /\ \A t \in VmHead : Alike(m[t], n[t]) /\ (t # s => n[t] = m[t])
         /\ s # NULL /\ n = FlagOn(m, s, vs) => \A v \in vs : n[s][v].is_mapped
<1>1. CASE s = NULL
  BY <1>1, NativeVmeAssumption DEF SetMapped, Alike, FlagOn, FlagOff
<1>2. CASE s # NULL
  <2> DEFINE k(b) == [v \in Page |-> IF v \in vs THEN [m[s][v] EXCEPT !.is_mapped = b] ELSE m[s][v]]
  <2>1. s \in VmHead /\ m[s] \in Table /\ vs \in SUBSET Page /\ \A v \in vs : m[s][v] \in PageMap
    BY <1>2 DEF Held, Table
  <2>2. ASSUME NEW v \in vs, NEW b \in BOOLEAN
        PROVE  /\ k(b)[v] \in PageMap /\ k(b)[v].next = m[s][v].next /\ k(b)[v].pa = m[s][v].pa
               /\ k(b)[v].prot = m[s][v].prot /\ k(b)[v].is_mapped = b
    BY <2>1 DEF PageMap
  <2>3. ASSUME NEW v \in Page, v \notin vs, NEW b PROVE k(b)[v] = m[s][v]
    BY <2>3
  <2>4. n = [m EXCEPT ![s] = k(TRUE)] \/ n = [m EXCEPT ![s] = k(FALSE)]
    BY <1>2 DEF SetMapped, FlagOn, FlagOff
  <2>5. n = FlagOn(m, s, vs) => n = [m EXCEPT ![s] = k(TRUE)]
    BY <1>2 DEF SetMapped, FlagOn, FlagOff
  <2>6. ASSUME NEW b \in BOOLEAN PROVE k(b) \in Table /\ Alike(m[s], k(b))
    <3>1. \A v \in Page : k(b)[v] \in PageMap \cup {NULL}
      BY <2>1, <2>2, <2>3 DEF Table
    <3>2. k(b) \in Table
      BY <3>1 DEF Table
    <3> HIDE DEF k
    <3>3. Alike(m[s], k(b))
      BY <2>1, <2>2, <2>3, NativeVmeAssumption DEF Alike
    <3> QED
      BY <3>2, <3>3
  <2>7. ASSUME NEW v \in vs PROVE k(TRUE)[v].is_mapped
    <3>1. k(TRUE)[v] = [m[s][v] EXCEPT !.is_mapped = TRUE] /\ m[s][v] \in PageMap
      BY <2>1
    <3> QED
      BY ONLY <3>1 DEF PageMap
  <2>8. k(TRUE) \in Table /\ k(FALSE) \in Table /\ Alike(m[s], k(TRUE)) /\ Alike(m[s], k(FALSE))
    BY <2>6, TRUE \in BOOLEAN, FALSE \in BOOLEAN
  <2>9. \A t \in VmHead : Alike(m[t], m[t])
    BY DEF Alike
  <2> HIDE DEF k
  <2> QED
    BY <1>2, <2>1, <2>4, <2>5, <2>7, <2>8, <2>9
<1> QED
  BY <1>1, <1>2

NativeType ==
  /\ maps \in [VmHead -> Table] /\ head \in [VmHead -> Page \cup {NULL}]
  /\ protected \in SUBSET VmHead /\ vm_head \in [Cpu -> VmHead \cup {NULL}]
  /\ mapped = [c \in Cpu |-> mapped[c]]
  /\ stuck \in SUBSET Cpu /\ again \in SUBSET VmHead /\ apart \in BOOLEAN

(* The list of a space has all its PageMaps, until one is mapped again. *)
ListAt(s) ==
  /\ Linked(maps[s], head[s])
  /\ s \notin again => Complete(maps[s], head[s])
  /\ s \in again => Endless(maps[s], head[s])

(* A processor shows its space, and is_mapped says so. *)
ShownBy(c) ==
  LET s == vm_head[c] IN
  IF s = NULL THEN mapped[c] = Nothing
  ELSE /\ mapped[c] = [v \in Held(maps[s]) |-> Access(s, v)]
       /\ \A v \in Held(maps[s]) : maps[s][v].is_mapped

Alone == \A c, d \in Cpu : c # d /\ vm_head[c] = vm_head[d] => vm_head[c] = NULL

NativeInv ==
  /\ NativeType
  /\ \A s \in VmHead : ListAt(s)
  /\ ~apart => Alone /\ \A c \in Cpu \ stuck : ShownBy(c)

LEMMA ListWalked ==
  ASSUME NativeType, \A s \in VmHead : ListAt(s), NEW s \in VmHead \cup {NULL}
  PROVE  LET l == list_foreach(s) IN
         /\ l.ends <=> s \notin again
         /\ l.over \subseteq IF s = NULL THEN {} ELSE Held(maps[s])
         /\ s \in VmHead \ again => l.over = Held(maps[s])
<1>1. CASE s = NULL
  BY <1>1, NativeVmeAssumption DEF list_foreach, NativeType
<1>2. CASE s # NULL
  <2>1. s \in VmHead /\ maps[s] \in Table /\ ListAt(s)
    BY <1>2 DEF NativeType
  <2>2. list_foreach(s) = [ends |-> \/ From(maps[s], head[s]) = {}
                                    \/ \E v \in From(maps[s], head[s]) : maps[s][v].next = NULL,
                           over |-> From(maps[s], head[s])]
    BY <1>2 DEF list_foreach
  <2>3. From(maps[s], head[s]) \subseteq Held(maps[s])
    BY ZenonT(60), <2>1, FromLeast DEF Closed, Linked, Held, ListAt
  <2>4. head[s] \in From(maps[s], head[s]) \cup {NULL}
    BY <2>1, FromStart DEF Linked, Held, ListAt
  <2> QED
    BY <1>2, <2>1, <2>2, <2>3, <2>4 DEF ListAt, Complete, Endless
<1> QED
  BY <1>1, <1>2

LEMMA NativeInitInv == NativeInit => NativeInv
<1> SUFFICES ASSUME NativeInit PROVE NativeInv
  OBVIOUS
<1>1. NativeType
  BY DEF NativeInit, NativeType, Table
<1>2. ASSUME NEW s \in VmHead PROVE ListAt(s)
  <2>1. Held(maps[s]) = {} /\ head[s] = NULL /\ again = {} /\ maps[s] \in Table
    BY DEF NativeInit, Held, Table
  <2>2. From(maps[s], NULL) = {}
    BY <2>1, FromStart
  <2> QED
    BY <2>1, <2>2 DEF ListAt, Linked, Complete
<1> QED
  BY <1>1, <1>2 DEF NativeInit, NativeInv, Alone, ShownBy

LEMMA NativeProtectInv ==
  ASSUME NativeInv, ~apart, NEW s \in VmHead, native_protect(s)
  PROVE  NativeInv'
<1>1. /\ protected' \in SUBSET VmHead
      /\ UNCHANGED <<maps, head, vm_head, mapped, stuck, again, apart>>
  BY DEF NativeInv, NativeType, native_protect
<1> QED
  BY <1>1 DEF NativeInv, NativeType, ListAt, Alone, ShownBy, Access

(* What is unmapped is what the old list has, and what is mapped then the  *)
(* new list; a processor that walks without an end is stuck.               *)
LEMMA SwitchInv ==
  ASSUME NativeInv, ~apart, NEW c \in Cpu, NEW s \in VmHead \cup {NULL}, am_switch(c, s)
  PROVE  NativeInv'
<1> PICK o, old, gone, left, new, m :
      /\ o = vm_head[c]
      /\ old = list_foreach(o)
      /\ gone = {v \in old.over : Unmapped(o, v)}
      /\ left = [v \in DOMAIN mapped[c] \ gone |-> mapped[c][v]]
      /\ new = list_foreach(s)
      /\ m = FlagOff(maps, o, gone)
  OBVIOUS
<1>1. NativeType /\ (\A t \in VmHead : ListAt(t)) /\ Alone /\ \A d \in Cpu \ stuck : ShownBy(d)
  BY DEF NativeInv
<1>2. /\ c \notin stuck /\ s # o /\ o \in VmHead \cup {NULL}
      /\ ~old.ends => maps' = m /\ mapped' = [mapped EXCEPT ![c] = left]
      /\ old.ends => /\ maps' = FlagOn(m, s, new.over)
                     /\ mapped' = [mapped EXCEPT ![c] = With(left, [v \in new.over |-> Access(s, v)])]
      /\ old.ends /\ new.ends => vm_head' = [vm_head EXCEPT ![c] = s] /\ stuck' = stuck
      /\ ~(old.ends /\ new.ends) => vm_head' = vm_head /\ stuck' = stuck \cup {c}
      /\ apart' = (apart \/ \E d \in Cpu : s # NULL /\ vm_head[d] = s)
      /\ UNCHANGED <<head, protected, again>>
  BY <1>1 DEF am_switch, NativeType, FlagOn, FlagOff
<1>3. /\ old.ends <=> o \notin again
      /\ old.over \subseteq IF o = NULL THEN {} ELSE Held(maps[o])
      /\ o \in VmHead \ again => old.over = Held(maps[o])
      /\ new.ends <=> s \notin again
      /\ new.over \subseteq IF s = NULL THEN {} ELSE Held(maps[s])
      /\ s \in VmHead \ again => new.over = Held(maps[s])
  BY <1>1, <1>2, ListWalked
<1>4. /\ m \in [VmHead -> Table]
      /\ \A t \in VmHead : Alike(maps[t], m[t]) /\ (t # o => m[t] = maps[t])
  <2>1. gone \subseteq IF o = NULL THEN {} ELSE Held(maps[o])
    BY <1>3
  <2>2. maps \in [VmHead -> Table]
    BY <1>1 DEF NativeType
  <2> QED
    <3>1. (o = NULL => gone = {}) /\ (o # NULL => gone \subseteq Held(maps[o]))
      BY <2>1
    <3> QED
      <4>1. o \in VmHead \cup {NULL}
        BY <1>2
      <4> QED
        BY ONLY <2>2, <3>1, <4>1, m = FlagOff(maps, o, gone), FlagsAlike
<1>5. /\ maps' \in [VmHead -> Table]
      /\ \A t \in VmHead : Alike(maps[t], maps'[t]) /\ (t # o /\ t # s => maps'[t] = maps[t])
      /\ old.ends /\ s # NULL => \A v \in new.over : maps'[s][v].is_mapped
  <2>1. CASE ~old.ends
    BY <1>2, <1>4, <2>1
  <2>2. CASE old.ends
    <3>1. \A t \in VmHead : maps[t] \in Table /\ Held(m[t]) = Held(maps[t])
      BY <1>1, <1>4, AlikeLists DEF NativeType
    <3>2. new.over \subseteq IF s = NULL THEN {} ELSE Held(m[s])
      BY <1>3, <3>1
    <3>3. /\ maps' \in [VmHead -> Table]
          /\ \A t \in VmHead : Alike(m[t], maps'[t]) /\ (t # s => maps'[t] = m[t])
          /\ s # NULL => \A v \in new.over : maps'[s][v].is_mapped
      <4>1. (s = NULL => new.over = {}) /\ (s # NULL => new.over \subseteq Held(m[s]))
        BY <3>2
      <4>2. maps' = FlagOn(m, s, new.over)
        BY <1>2, <2>2
      <4> QED
        BY ONLY <1>4, <4>1, <4>2, s \in VmHead \cup {NULL}, FlagsAlike
    <3>4. ASSUME NEW t \in VmHead PROVE Alike(maps[t], maps'[t])
      BY ONLY <1>4, <3>3, AlikeTwice
    <3> QED
      BY <1>4, <3>3, <3>4
  <2> QED
    BY <2>1, <2>2
<1>6. NativeType'
  <2>1. mapped' = [d \in Cpu |-> mapped'[d]]
    BY <1>1, <1>2 DEF NativeType
  <2>2. vm_head' \in [Cpu -> VmHead \cup {NULL}] /\ stuck' \in SUBSET Cpu /\ apart' \in BOOLEAN
    BY <1>1, <1>2 DEF NativeType
  <2> QED
    BY <1>1, <1>2, <1>5, <2>1, <2>2 DEF NativeType
<1>7. ASSUME NEW t \in VmHead PROVE ListAt(t)'
  <2>1. maps[t] \in Table /\ maps'[t] \in Table /\ Alike(maps[t], maps'[t]) /\ ListAt(t)
    BY <1>1, <1>5 DEF NativeType
  <2>2. head'[t] = head[t] /\ again' = again
    BY <1>2
  <2> QED
    BY <2>1, <2>2, AlikeLists DEF ListAt
<1>8. ASSUME ~apart' PROVE Alone' /\ \A d \in Cpu \ stuck' : ShownBy(d)'
  <2>1. s # NULL => \A d \in Cpu : vm_head[d] # s
    BY <1>2, <1>8
  <2>2. vm_head \in [Cpu -> VmHead \cup {NULL}]
    BY <1>1 DEF NativeType
  <2>3. Alone'
    BY <1>1, <1>2, <2>1, <2>2 DEF Alone
  <2>4. ASSUME NEW d \in Cpu \ stuck', d # c PROVE ShownBy(d)'
    <3>1. /\ vm_head'[d] = vm_head[d] /\ mapped'[d] = mapped[d] /\ ShownBy(d)
          /\ vm_head[d] \in VmHead \cup {NULL}
          /\ vm_head[d] # NULL => vm_head[d] # o /\ vm_head[d] # s
      BY <1>1, <1>2, <2>1, <2>2, <2>4 DEF Alone, NativeType
    <3>2. vm_head[d] # NULL => maps'[vm_head[d]] = maps[vm_head[d]]
      BY <1>5, <3>1
    <3> QED
      BY <3>1, <3>2 DEF ShownBy, Access
  <2>5. ASSUME c \notin stuck' PROVE ShownBy(c)'
    <3>1. old.ends /\ new.ends /\ vm_head'[c] = s /\ ShownBy(c)
      BY <1>1, <1>2, <2>2, <2>5
    <3>2. left = Nothing
      <4>1. DOMAIN mapped[c] \ gone = {}
        BY <1>2, <1>3, <3>1 DEF ShownBy, Unmapped, Nothing
      <4> QED
        BY <4>1 DEF Nothing
    <3>3. mapped'[c] = [v \in new.over |-> Access(s, v)]
      <4>1. mapped'[c] = With(left, [v \in new.over |-> Access(s, v)])
        BY <1>1, <1>2, <3>1 DEF NativeType
      <4> QED
        BY <4>1, <3>2 DEF With, Nothing
    <3>4. CASE s = NULL
      BY <1>3, <3>1, <3>3, <3>4 DEF ShownBy, Nothing
    <3>5. CASE s # NULL
      <4>1. s \in VmHead /\ maps[s] \in Table /\ maps'[s] \in Table /\ Alike(maps[s], maps'[s])
        BY <1>1, <1>5, <3>5 DEF NativeType
      <4>2. new.over = Held(maps[s]) /\ Held(maps'[s]) = Held(maps[s])
        BY <1>3, <3>1, <4>1, AlikeLists
      <4>3. \A v \in Held(maps[s]) : Access(s, v)' = Access(s, v) /\ maps'[s][v].is_mapped
        BY <1>5, <3>1, <3>5, <4>1, <4>2 DEF Access, Alike, Held
      <4>4. ShownBy(c)' = /\ mapped'[c] = [v \in Held(maps'[s]) |-> Access(s, v)']
                          /\ \A v \in Held(maps'[s]) : maps'[s][v].is_mapped
        BY <3>1, <3>5 DEF ShownBy, Access
      <4> QED
        BY <3>3, <4>2, <4>3, <4>4
    <3> QED
      BY <3>4, <3>5
  <2> QED
    BY <2>3, <2>4, <2>5
<1> QED
  BY <1>6, <1>7, <1>8 DEF NativeInv

LEMMA NativeMapInv ==
  ASSUME NativeInv, ~apart, NEW c \in Cpu, NEW s \in VmHead, NEW v \in Page,
         NEW pa \in Phys, NEW prot \in Prot, native_map(c, s, v, pa, prot)
  PROVE  NativeInv'
<1> PICK p, n : /\ p = [pa |-> pa, prot |-> prot, next |-> head[s], is_mapped |-> Now(c, s)]
                /\ n = [maps[s] EXCEPT ![v] = p]
  OBVIOUS
<1>1. NativeType /\ (\A t \in VmHead : ListAt(t)) /\ Alone /\ \A d \in Cpu \ stuck : ShownBy(d)
  BY DEF NativeInv
<1>2. /\ p \in PageMap /\ p.pa = pa /\ p.prot = prot /\ p.next = head[s] /\ p # NULL
      /\ p.is_mapped <=> s = vm_head[c]
      /\ maps[s] \in Table /\ n \in Table /\ n[v] = p /\ \A w \in Page : w # v => n[w] = maps[s][w]
  <2>1. head[s] \in Page \cup {NULL} /\ maps[s] \in Table
    BY <1>1 DEF NativeType
  <2>2. Now(c, s) \in BOOLEAN /\ (Now(c, s) <=> s = vm_head[c])
    BY DEF Now
  <2>3. p \in PageMap /\ p.pa = pa /\ p.prot = prot /\ p.next = head[s] /\ p.is_mapped = Now(c, s)
    BY <2>1, <2>2 DEF PageMap
  <2>4. n \in Table /\ n[v] = p /\ \A w \in Page : w # v => n[w] = maps[s][w]
    BY <2>1, <2>3 DEF Table
  <2> QED
    BY <2>1, <2>2, <2>3, <2>4, NativeVmeAssumption
<1>3. /\ c \notin stuck
      /\ maps' = [maps EXCEPT ![s] = n] /\ head' = [head EXCEPT ![s] = v]
      /\ s = vm_head[c] => mapped' = [mapped EXCEPT ![c] =
                               With(@, [u \in {v} |-> [pa |-> pa, prot |-> prot]])]
      /\ s # vm_head[c] => mapped' = mapped
      /\ again' = IF maps[s][v] # NULL THEN again \cup {s} ELSE again
      /\ apart' = (apart \/ \E d \in Cpu \ {c} : vm_head[d] = s)
      /\ UNCHANGED <<protected, vm_head, stuck>>
  BY <1>1 DEF native_map, Now, NativeType
<1>4. NativeType'
  <2>1. maps' \in [VmHead -> Table] /\ head' \in [VmHead -> Page \cup {NULL}]
    BY <1>1, <1>2, <1>3 DEF NativeType
  <2>2. mapped' = [d \in Cpu |-> mapped'[d]]
    BY <1>1, <1>3 DEF NativeType
  <2> QED
    BY <1>1, <1>3, <2>1, <2>2 DEF NativeType
<1>5. maps'[s] = n /\ head'[s] = v /\ \A t \in VmHead : t # s => maps'[t] = maps[t] /\ head'[t] = head[t]
  BY <1>1, <1>3 DEF NativeType
<1>6. ASSUME NEW t \in VmHead PROVE ListAt(t)'
  <2>1. CASE t # s
    BY <1>1, <1>3, <1>5, <2>1 DEF ListAt
  <2>2. CASE t = s /\ maps[s][v] = NULL
    <3>1. /\ Held(n) = Held(maps[s]) \cup {v} /\ Linked(n, v)
          /\ Complete(maps[s], head[s]) => Complete(n, v)
          /\ Endless(maps[s], head[s]) => Endless(n, v)
      BY <1>1, <1>2, <2>2, PushNew DEF ListAt
    <3> QED
      BY <1>1, <1>3, <1>5, <2>2, <3>1 DEF ListAt
  <2>3. CASE t = s /\ maps[s][v] # NULL
    <3>1. Linked(n, v) /\ Endless(n, v)
      BY <1>1, <1>2, <2>3, PushAgain DEF ListAt
    <3> QED
      BY <1>3, <1>5, <2>3, <3>1 DEF ListAt
  <2> QED
    BY <2>1, <2>2, <2>3
<1>7. ASSUME ~apart' PROVE Alone' /\ \A d \in Cpu \ stuck' : ShownBy(d)'
  <2>1. Alone' /\ vm_head' = vm_head /\ stuck' = stuck
    BY <1>1, <1>3 DEF Alone
  <2>2. ASSUME NEW d \in Cpu \ stuck, vm_head[d] # s PROVE ShownBy(d)'
    <3>1. mapped'[d] = mapped[d] /\ ShownBy(d)
      BY <1>1, <1>3, <2>2 DEF NativeType
    <3>2. vm_head[d] # NULL => maps'[vm_head[d]] = maps[vm_head[d]]
      BY <1>1, <1>5, <2>2 DEF NativeType
    <3> QED
      BY <2>1, <3>1, <3>2 DEF ShownBy, Access
  <2>3. ASSUME NEW d \in Cpu \ stuck, vm_head[d] = s PROVE ShownBy(d)'
    <3>1. d = c
      BY <1>3, <1>7, <2>3
    <3>2. s # NULL /\ vm_head[c] = s /\ ShownBy(c)
      BY <1>1, <2>3, <3>1, NativeVmeAssumption
    <3>3. Held(n) = Held(maps[s]) \cup {v}
      BY <1>2 DEF Held
    <3>4. mapped'[c] = With(mapped[c], [u \in {v} |-> [pa |-> pa, prot |-> prot]])
      BY <1>1, <1>3, <3>2 DEF NativeType
    <3>5. mapped[c] = [w \in Held(maps[s]) |-> Access(s, w)] /\ \A w \in Held(maps[s]) : maps[s][w].is_mapped
      BY <3>2 DEF ShownBy
    <3>6. \A w \in Held(n) : Access(s, w)' = (IF w = v THEN [pa |-> pa, prot |-> prot] ELSE Access(s, w))
      BY <1>2, <1>5 DEF Access, Held
    <3>7. mapped'[c] = [w \in Held(n) |-> Access(s, w)']
      BY <3>3, <3>4, <3>5, <3>6 DEF With
    <3>8. \A w \in Held(n) : n[w].is_mapped
      BY ZenonT(60), <1>2, <3>2, <3>3, <3>5 DEF Held
    <3>9. ShownBy(c)' = /\ mapped'[c] = [w \in Held(maps'[s]) |-> Access(s, w)']
                        /\ \A w \in Held(maps'[s]) : maps'[s][w].is_mapped
      BY <2>1, <3>2 DEF ShownBy, Access
    <3> QED
      BY <1>5, <3>1, <3>7, <3>8, <3>9
  <2> QED
    BY <2>1, <2>2, <2>3
<1> QED
  BY <1>4, <1>6, <1>7 DEF NativeInv

LEMMA NativeInvImplies == NativeInv => NativeShows
<1> SUFFICES ASSUME NativeInv PROVE NativeShows
  OBVIOUS
<1>1. NativeType /\ (\A s \in VmHead : ListAt(s)) /\ (~apart => \A c \in Cpu \ stuck : ShownBy(c))
  BY DEF NativeInv
<1>2. \A s \in VmHead : list_foreach(s).ends <=> s \notin again
  BY <1>1, ListWalked
<1>3. ASSUME ~apart, NEW c \in Cpu \ stuck
      PROVE  LET s == vm_head[c] IN
             mapped[c] = IF s = NULL THEN Nothing
                         ELSE [v \in {u \in Page : maps[s][u] # NULL} |-> Access(s, v)]
  BY <1>1, <1>3 DEF ShownBy, Held
<1> QED
  BY <1>2, <1>3 DEF NativeShows

(* On the host, each process shows exactly the pages of its processor's    *)
(* space, and a list has an end unless an address was mapped twice         *)
(* (__am_switch and map of native/vme.c), for any number of processors,    *)
(* spaces and pages.                                                       *)
THEOREM SpacesShown == NativeVmeSpec => []NativeShows
<1>1. NativeInit => NativeInv
  BY NativeInitInv
<1>2. NativeInv /\ [NativeNext]_nativevars => NativeInv'
  <2> SUFFICES ASSUME NativeInv, [NativeNext]_nativevars PROVE NativeInv'
    OBVIOUS
  <2>1. CASE UNCHANGED nativevars
    BY <2>1 DEF nativevars, NativeInv, NativeType, ListAt, Alone, ShownBy, Access
  <2>2. CASE NativeNext
    <3>1. ~apart
      BY <2>2 DEF NativeNext
    <3>2. CASE \E s \in VmHead : native_protect(s)
      BY <3>1, <3>2, NativeProtectInv
    <3>3. CASE \E c \in Cpu, s \in VmHead \cup {NULL} : am_switch(c, s)
      BY <3>1, <3>3, SwitchInv
    <3>4. CASE \E c \in Cpu, s \in VmHead, v \in Page, pa \in Phys, prot \in Prot :
                 native_map(c, s, v, pa, prot)
      BY <3>1, <3>4, NativeMapInv
    <3> QED
      BY <2>2, <3>2, <3>3, <3>4 DEF NativeNext
  <2> QED
    BY <2>1, <2>2
<1>3. NativeInv => NativeShows
  BY NativeInvImplies
<1> QED
  BY <1>1, <1>2, <1>3, PTL DEF NativeVmeSpec

-----------------------------------------------------------------------------
(* X86Vme *)

Indices == Kernel \cup User \cup Index
Entries == [p : BOOLEAN, u : BOOLEAN, w : BOOLEAN, to : Frame \cup {NULL} \cup KernelVa]
KernelPages == {ktable[i] : i \in Kernel \cup {NULL}}
Slots == User \cup {NULL}

(* Memory m, the pages u given out, the directories' entries r and the     *)
(* spaces l in use are variables here, as they change in parts of a step.  *)
(* Slot NULL of a space is its directory, the others the tables.           *)
Has(m, r, s, i)    == i = NULL \/ m[r[s].to][i].p
PageOf(m, r, s, i) == IF i = NULL THEN r[s].to ELSE m[r[s].to][i].to
Reach(m, r, s, v)  ==
  IF m[r[s].to][v[1]].p THEN m[m[r[s].to][v[1]].to][v[2]] ELSE Empty

UserEntry(e) == e = Empty \/ \E pa \in Data, w \in BOOLEAN : e = Entry(pa, TRUE, w)
UserTable(to) == Entry(to, TRUE, TRUE)
TableEntry(m, e) ==
  \/ e = Empty
  \/ e = Entry(e.to, TRUE, TRUE) /\ e.to \in Frame /\ \A j \in Index : UserEntry(m[e.to][j])
DirOk(m, d) ==
  /\ \A i \in Kernel : m[d][i] = Entry(ktable[i], FALSE, TRUE)
  /\ \A i \in User : TableEntry(m, m[d][i])
  /\ \A i \in Indices \ (Kernel \cup User) : m[d][i] = Empty
SpaceOk(m, r, s) ==
  /\ r[s] = Entry(r[s].to, TRUE, FALSE) /\ r[s].to \in Frame
  /\ DirOk(m, r[s].to)

MemType(m, u, r, l) ==
  /\ m \in [Frame -> [Indices -> Entries]] /\ r \in [Spaces -> Entries]
  /\ u \subseteq Frame /\ l \subseteq Spaces
KernelOk(m) == m[kpt] = KernelDir /\ \A k \in Kernel : m[ktable[k]] = KernelTable(k)
Apart(m, r, l) ==
  \A s, t \in l, i, j \in Slots :
    Has(m, r, s, i) /\ Has(m, r, t, j) /\ PageOf(m, r, s, i) = PageOf(m, r, t, j) => s = t /\ i = j
TakenBy(m, u, r, l) ==
  /\ Data \cup KernelPages \subseteq u
  /\ \A s \in l, i \in Slots :
       Has(m, r, s, i) => PageOf(m, r, s, i) \in u \ (Data \cup KernelPages)
  /\ \A f \in u \ (Data \cup KernelPages) :
       \E s \in l, i \in Slots : Has(m, r, s, i) /\ f = PageOf(m, r, s, i)

Mem(m, u, r, l) ==
  /\ MemType(m, u, r, l) /\ KernelOk(m) /\ \A s \in l : SpaceOk(m, r, s)
  /\ Apart(m, r, l) /\ TakenBy(m, u, r, l)

SeenBy(m, r, s) ==
  [v \in {v \in UserVa : Reach(m, r, s, v).p} |->
     [to |-> Reach(m, r, s, v).to, write |-> Reach(m, r, s, v).w]]

VmeInv == Mem(pt, used, ptr, live) /\ twice = FALSE /\ panic \in BOOLEAN /\ space = View

(* vme_init takes a page for each of the kernel's tables.                  *)
LEMMA KTable ==
  /\ ktable \in [Kernel \cup {NULL} -> Frame \ Data]
  /\ \A i, j \in Kernel \cup {NULL} : ktable[i] = ktable[j] => i = j
<1>1. Taken(ktable)
  BY X86VmeAssumption DEF ktable
<1> QED BY <1>1 DEF Taken

(* The fields of an empty entry, and what entries there are.               *)
LEMMA Recs ==
  /\ Empty.p = FALSE /\ Empty.u = FALSE /\ Empty.w = FALSE /\ Empty.to = NULL
  /\ Empty \in Entries
  /\ \A t \in Frame \cup {NULL} \cup KernelVa, u, w \in BOOLEAN : Entry(t, u, w) \in Entries
BY DEF Empty, Entry, Entries

(* A user address is its two indices.                                      *)
LEMMA Vas ==
  ASSUME NEW v \in UserVa
  PROVE  v = <<v[1], v[2]>> /\ v[1] \in User /\ v[2] \in Index
BY DEF UserVa

(* The user's part of a directory is not the kernel's.                     *)
LEMMA UserIndex ==
  ASSUME NEW i \in User
  PROVE  i \notin Kernel /\ i # NULL /\ i \in Indices /\ i \in Slots
BY X86VmeAssumption DEF Indices, Slots

(* A space whose directory and tables are left as they were.               *)
LEMMA Kept ==
  ASSUME NEW m, NEW r, NEW m2, NEW r2, NEW s,
         SpaceOk(m, r, s), r2[s] = r[s], m2[r[s].to] = m[r[s].to],
         \A i \in User : m[r[s].to][i].p => m2[m[r[s].to][i].to] = m[m[r[s].to][i].to]
  PROVE  /\ SpaceOk(m2, r2, s)
         /\ \A i : Has(m2, r2, s, i) = Has(m, r, s, i) /\ PageOf(m2, r2, s, i) = PageOf(m, r, s, i)
         /\ \A v \in UserVa : Reach(m2, r2, s, v) = Reach(m, r, s, v)
<1>1. \A i : Has(m2, r2, s, i) = Has(m, r, s, i) /\ PageOf(m2, r2, s, i) = PageOf(m, r, s, i)
  BY DEF Has, PageOf
<1>2. \A v \in UserVa : Reach(m2, r2, s, v) = Reach(m, r, s, v)
  BY Vas DEF Reach
<1>3. ASSUME NEW i \in User
      PROVE  TableEntry(m2, m2[r2[s].to][i])
  <2> DEFINE e == m[r[s].to][i]
  <2>1. m2[r2[s].to][i] = e
    OBVIOUS
  <2>2. TableEntry(m, e)
    BY DEF SpaceOk, DirOk
  <2>3. CASE e = Empty
    BY SMTT(60), <2>1, <2>3 DEF TableEntry
  <2>4. CASE e # Empty
    <3>1. e = Entry(e.to, TRUE, TRUE) /\ e.to \in Frame /\ \A j \in Index : UserEntry(m[e.to][j])
      BY ZenonT(60), <2>2, <2>4 DEF TableEntry
    <3>2. e.p
      BY <3>1 DEF Entry
    <3>3. m2[e.to] = m[e.to]
      BY <3>2
    <3> QED BY ZenonT(60), <2>1, <3>1, <3>3 DEF TableEntry
  <2> QED BY <2>3, <2>4
<1>4. SpaceOk(m2, r2, s)
  BY <1>3 DEF SpaceOk, DirOk
<1> QED BY <1>1, <1>2, <1>4

(* The entries of a user table are the ones map writes.                    *)
LEMMA ReachType ==
  ASSUME NEW m, NEW r, NEW s, SpaceOk(m, r, s), NEW v \in UserVa
  PROVE  UserEntry(Reach(m, r, s, v))
<1> DEFINE e == m[r[s].to][v[1]]
<1>1. v[1] \in User /\ v[2] \in Index
  BY Vas
<1>2. TableEntry(m, e)
  BY <1>1 DEF SpaceOk, DirOk
<1>3. CASE e = Empty
  BY <1>3, Recs DEF Reach, UserEntry
<1>4. CASE e # Empty
  <2>1. e = Entry(e.to, TRUE, TRUE) /\ \A j \in Index : UserEntry(m[e.to][j])
    BY ZenonT(60), <1>2, <1>4 DEF TableEntry
  <2>2. e.p
    BY <2>1 DEF Entry
  <2> QED BY SMTT(60), <1>1, <2>1, <2>2 DEF Reach
<1> QED BY <1>3, <1>4

(* What the processor shows to user code is what the user tables say.      *)
LEMMA SeenIs ==
  ASSUME NEW s, SpaceOk(pt, ptr, s)
  PROVE  Seen(s) = SeenBy(pt, ptr, s)
<1>1. ASSUME NEW v \in UserVa
      PROVE  /\ (Translate(s, v).p /\ Translate(s, v).u) = Reach(pt, ptr, s, v).p
             /\ Reach(pt, ptr, s, v).p => Translate(s, v) = Reach(pt, ptr, s, v)
  <2> DEFINE e1 == pt[ptr[s].to][v[1]]
             e2 == pt[e1.to][v[2]]
  <2>1. v[1] \in User /\ v[2] \in Index
    BY Vas
  <2>2. TableEntry(pt, e1) /\ ptr[s].p
    <3>1. TableEntry(pt, e1)
      BY <2>1 DEF SpaceOk, DirOk
    <3>2. ptr[s].p
      BY DEF SpaceOk, Entry
    <3> QED BY <3>1, <3>2
  <2>3. CASE e1 = Empty
    BY <2>3, Recs DEF Translate, Reach
  <2>4. CASE e1 # Empty
    <3>1. e1.p /\ e1.u = TRUE /\ e1.w = TRUE /\ UserEntry(e2)
      <4>1. e1 = Entry(e1.to, TRUE, TRUE) /\ UserEntry(e2)
        BY <2>1, <2>2, <2>4 DEF TableEntry
      <4> HIDE DEF e1, e2
      <4>2. e1.p /\ e1.u = TRUE /\ e1.w = TRUE
        BY SMTT(60), <4>1 DEF Entry
      <4> QED BY SMTT(60), <4>1, <4>2
    <3>2. Reach(pt, ptr, s, v) = e2
      BY SMTT(60), <3>1 DEF Reach
    <3>3. CASE e2 = Empty
      BY <3>2, <3>3, Recs DEF Translate
    <3>4. CASE e2 # Empty
      <4>1. PICK pa \in Data, w \in BOOLEAN : e2 = Entry(pa, TRUE, w)
        BY <3>1, <3>4 DEF UserEntry
      <4>2. e2.p /\ e2.u = TRUE /\ e2.w = w /\ e2.to = pa
        BY <4>1 DEF Entry
      <4>3. Translate(s, v) = Entry(e2.to, e1.u /\ e2.u, e1.w /\ e2.w)
        BY ZenonT(60), <2>2, <3>1, <4>2 DEF Translate
      <4>4. (e1.u /\ e2.u) = TRUE /\ (e1.w /\ e2.w) = w
        BY ZenonT(60), <3>1, <4>2
      <4>5. Translate(s, v) = e2
        BY <4>1, <4>2, <4>3, <4>4
      <4> QED BY <3>2, <4>2, <4>5
    <3> QED BY <3>3, <3>4
  <2> QED BY <2>3, <2>4
<1>2. {v \in UserVa : Translate(s, v).p /\ Translate(s, v).u} = {v \in UserVa : Reach(pt, ptr, s, v).p}
  BY <1>1
<1> QED BY <1>1, <1>2 DEF Seen, SeenBy

(* The kernel's pages are different, and none is a user's data.            *)
LEMMA KernelFacts ==
  /\ KernelPages \subseteq Frame \ Data /\ kpt \in KernelPages
  /\ \A k \in Kernel : ktable[k] \in KernelPages /\ ktable[k] # kpt
  /\ \A k, j \in Kernel : ktable[k] = ktable[j] => k = j
<1>1. NULL \notin Kernel
  BY X86VmeAssumption
<1> QED BY <1>1, KTable DEF KernelPages, kpt

(* A space that has no page yet is not the absence of a space.             *)
LEMMA SeenFits ==
  ASSUME NEW m, NEW r, NEW s, SpaceOk(m, r, s)
  PROVE  SeenBy(m, r, s) # NULL
<1> DEFINE D == {v \in UserVa : Reach(m, r, s, v).p}
<1>1. ASSUME NEW v \in D
      PROVE  Reach(m, r, s, v).to \in Data /\ Reach(m, r, s, v).w \in BOOLEAN
  <2>1. UserEntry(Reach(m, r, s, v)) /\ Reach(m, r, s, v) # Empty
    BY ReachType, Recs
  <2>2. PICK pa \in Data, w \in BOOLEAN : Reach(m, r, s, v) = Entry(pa, TRUE, w)
    BY <2>1 DEF UserEntry
  <2> QED BY <2>2 DEF Entry
<1>2. SeenBy(m, r, s) \in [D -> [to : Data, write : BOOLEAN]]
  BY <1>1 DEF SeenBy
<1>3. D \in SUBSET UserVa
  OBVIOUS
<1>4. NULL \notin [D -> [to : Data, write : BOOLEAN]]
  BY <1>3, X86VmeAssumption
<1> QED BY <1>2, <1>4

(* vme_init: the kernel's tables are there, and no space.                 *)
LEMMA VmeInitInv == X86Init => VmeInv
<1> SUFFICES ASSUME X86Init
             PROVE  VmeInv
  OBVIOUS
<1> USE DEF X86Init, vme_init
<1>1. /\ live = {} /\ twice = FALSE /\ panic \in BOOLEAN /\ space = View
      /\ ptr = [s \in Spaces |-> Empty] /\ used = Data \cup {ktable[i] : i \in DOMAIN ktable}
  OBVIOUS
<1>2. used = Data \cup KernelPages
  BY <1>1, KTable DEF KernelPages
<1>3. KernelDir \in [Indices -> Entries]
  <2>1. ASSUME NEW i \in Kernel
        PROVE  Entry(ktable[i], FALSE, TRUE) \in Entries
    BY KTable DEF Entry, Entries
  <2> QED BY <2>1, Recs DEF KernelDir, NoEntries, Indices
<1>4. ASSUME NEW k \in Kernel
      PROVE  KernelTable(k) \in [Indices -> Entries]
  <2>1. ASSUME NEW i \in Index
        PROVE  Entry(<<k, i>>, FALSE, TRUE) \in Entries
    <3>1. <<k, i>> \in KernelVa
      BY DEF KernelVa
    <3> QED BY <3>1 DEF Entry, Entries
  <2> QED BY <2>1, Recs DEF KernelTable, NoEntries, Indices
<1>5. NoEntries \in [Indices -> Entries]
  BY Recs DEF NoEntries, Indices
<1>6. pt \in [Frame -> [Indices -> Entries]]
  <2>1. ASSUME NEW f \in Frame, \E k \in Kernel : ktable[k] = f
        PROVE  KernelTable(CHOOSE k \in Kernel : ktable[k] = f) \in [Indices -> Entries]
    BY <2>1, <1>4
  <2> QED BY <2>1, <1>3, <1>5
<1>7. pt[kpt] = KernelDir
  BY KernelFacts
<1>8. ASSUME NEW k \in Kernel
      PROVE  pt[ktable[k]] = KernelTable(k)
  <2>1. ktable[k] \in Frame /\ ktable[k] # kpt
    BY KernelFacts
  <2>2. (CHOOSE j \in Kernel : ktable[j] = ktable[k]) = k
    BY KernelFacts
  <2> QED BY <2>1, <2>2
<1>9. MemType(pt, used, ptr, live)
  <2>1. used \subseteq Frame
    BY <1>2, KernelFacts, X86VmeAssumption
  <2> QED BY <1>1, <1>6, <2>1, Recs DEF MemType
<1> HIDE DEF X86Init, vme_init
<1>10. Apart(pt, ptr, live) /\ TakenBy(pt, used, ptr, live)
  BY <1>1, <1>2 DEF Apart, TakenBy
<1> QED BY <1>1, <1>7, <1>8, <1>9, <1>10 DEF VmeInv, Mem, KernelOk

(* The kernel's tables are reached by entries without PTE_U.              *)
LEMMA TablesOfKernel ==
  ASSUME VmeInv
  PROVE  TablesOf(kpt, FALSE) = KernelPages
<1>1. pt[kpt] = KernelDir /\ DOMAIN NoEntries = Indices
  BY DEF VmeInv, Mem, KernelOk, NoEntries, Indices
<1>2. \A i \in Indices : KernelDir[i] = IF i \in Kernel THEN Entry(ktable[i], FALSE, TRUE) ELSE Empty
  BY DEF KernelDir, NoEntries, Indices
<1>3. ASSUME NEW i \in Indices
      PROVE  /\ (KernelDir[i].p /\ KernelDir[i].u = FALSE) <=> i \in Kernel
             /\ i \in Kernel => KernelDir[i].to = ktable[i]
  <2>1. CASE i \in Kernel
    <3>1. KernelDir[i] = Entry(ktable[i], FALSE, TRUE)
      BY <1>2, <2>1
    <3> QED BY <2>1, <3>1 DEF Entry
  <2>2. CASE i \notin Kernel
    <3>1. KernelDir[i] = Empty
      BY <1>2, <2>2
    <3> QED BY <2>2, <3>1, Recs
  <2> QED BY <2>1, <2>2
<1>4. {j \in Indices : KernelDir[j].p /\ KernelDir[j].u = FALSE} = Kernel
  BY <1>3 DEF Indices
<1>5. TablesOf(kpt, FALSE) = {kpt} \cup {KernelDir[i].to : i \in Kernel}
  BY <1>1, <1>4 DEF TablesOf
<1> QED BY ZenonT(60), <1>3, <1>5 DEF KernelPages, kpt, Indices

(* What teardown goes into are the user's tables.                         *)
LEMMA UserEntries ==
  ASSUME NEW s, SpaceOk(pt, ptr, s), NEW i \in Indices
  PROVE  /\ (pt[ptr[s].to][i].p /\ pt[ptr[s].to][i].u) <=> (i \in User /\ pt[ptr[s].to][i].p)
         /\ (pt[ptr[s].to][i].p /\ pt[ptr[s].to][i].u = TRUE) <=> (i \in User /\ pt[ptr[s].to][i].p)
<1> DEFINE e == pt[ptr[s].to][i]
<1>1. CASE i \in Kernel
  <2>1. e = Entry(ktable[i], FALSE, TRUE) /\ i \notin User
    BY <1>1, UserIndex DEF SpaceOk, DirOk
  <2> QED BY <2>1 DEF Entry
<1>2. CASE i \in User
  <2>1. e = Empty \/ e = Entry(e.to, TRUE, TRUE)
    BY <1>2 DEF SpaceOk, DirOk, TableEntry
  <2>2. CASE e = Empty
    BY <2>2 DEF Empty
  <2>3. CASE e = Entry(e.to, TRUE, TRUE)
    <3> HIDE DEF e
    <3>1. e.u = TRUE
      BY <2>3 DEF Entry
    <3> QED BY <3>1, <1>2 DEF e
  <2> QED BY <2>1, <2>2, <2>3
<1>3. CASE i \notin Kernel \cup User
  <2>1. e = Empty
    BY <1>3 DEF SpaceOk, DirOk
  <2> QED BY <1>3, <2>1, Recs
<1> QED BY <1>1, <1>2, <1>3

(* The tables of a space are its slots' pages.                            *)
LEMMA TablesOfSpace ==
  ASSUME NEW s, SpaceOk(pt, ptr, s)
  PROVE  TablesOf(ptr[s].to, TRUE)
           = {PageOf(pt, ptr, s, i) : i \in {j \in Slots : Has(pt, ptr, s, j)}}
<1> DEFINE d == pt[ptr[s].to]
<1>1. DOMAIN NoEntries = Indices
  BY DEF NoEntries, Indices
<1>2. \A i \in Indices : (d[i].p /\ d[i].u = TRUE) <=> (i \in User /\ d[i].p)
  BY UserEntries
<1>3. {j \in Indices : d[j].p /\ d[j].u = TRUE} = {j \in User : d[j].p}
  BY <1>2, UserIndex
<1>4. TablesOf(ptr[s].to, TRUE) = {ptr[s].to} \cup {d[i].to : i \in {j \in User : d[j].p}}
  BY SMTT(60), <1>1, <1>3 DEF TablesOf
<1> QED BY <1>4, UserIndex DEF Has, PageOf, Slots

(* Every space has the kernel's tables in its directory.                  *)
LEMMA KernelWalk ==
  ASSUME VmeInv, NEW s \in live, NEW va \in KernelVa
  PROVE  Translate(s, va) = Entry(va, FALSE, TRUE)
<1>1. va = <<va[1], va[2]>> /\ va[1] \in Kernel /\ va[2] \in Index
  BY DEF KernelVa
<1>2. SpaceOk(pt, ptr, s) /\ pt[ktable[va[1]]] = KernelTable(va[1])
  BY <1>1 DEF VmeInv, Mem, KernelOk
<1> DEFINE e1 == pt[ptr[s].to][va[1]]
           e2 == pt[e1.to][va[2]]
<1>3. e1 = Entry(ktable[va[1]], FALSE, TRUE) /\ ptr[s] = Entry(ptr[s].to, TRUE, FALSE)
  BY <1>1, <1>2 DEF SpaceOk, DirOk
<1>4. e1.p /\ e1.u = FALSE /\ e1.w = TRUE /\ e1.to = ktable[va[1]]
  BY <1>3 DEF Entry
<1>5. ptr[s].p
  BY <1>3 DEF Entry
<1>6. e2 = Entry(va, FALSE, TRUE)
  BY <1>1, <1>2, <1>4 DEF KernelTable, NoEntries
<1>7. e2.p /\ e2.u = FALSE /\ e2.w = TRUE /\ e2.to = va
  BY <1>6 DEF Entry
<1>8. Translate(s, va) = Entry(e2.to, e1.u /\ e2.u, e1.w /\ e2.w)
  BY <1>4, <1>5, <1>7 DEF Translate
<1>9. (e1.u /\ e2.u) = FALSE /\ (e1.w /\ e2.w) = TRUE
  BY <1>4, <1>7
<1> QED BY <1>6, <1>7, <1>8, <1>9

(* The invariant says whose each page is.                                  *)
LEMMA VmeInvTables == VmeInv => TablesExact
<1> SUFFICES ASSUME VmeInv
             PROVE  TablesExact
  OBVIOUS
<1> DEFINE of == [s \in live \cup {NULL} |->
                    IF s = NULL THEN TablesOf(kpt, FALSE) ELSE TablesOf(ptr[s].to, TRUE)]
<1>1. NULL \notin live
  BY X86VmeAssumption DEF VmeInv, Mem, MemType
<1>2. /\ \A s \in live : SpaceOk(pt, ptr, s)
      /\ Apart(pt, ptr, live) /\ TakenBy(pt, used, ptr, live) /\ twice = FALSE
  BY DEF VmeInv, Mem
<1>3. of[NULL] = KernelPages
  BY TablesOfKernel
<1>4. ASSUME NEW s \in live
      PROVE  of[s] = {PageOf(pt, ptr, s, i) : i \in {j \in Slots : Has(pt, ptr, s, j)}}
  BY <1>1, <1>2, TablesOfSpace
<1> HIDE DEF of
<1>5. \A f : f \in UNION {of[s] : s \in live \cup {NULL}} <=>
              f \in KernelPages \/ \E s \in live, i \in Slots : Has(pt, ptr, s, i) /\ f = PageOf(pt, ptr, s, i)
  BY <1>3, <1>4
<1>6. used = Data \cup UNION {of[s] : s \in live \cup {NULL}}
  BY <1>2, <1>5 DEF TakenBy
<1>7. ASSUME NEW s \in live
      PROVE  of[s] \cap Data = {} /\ of[s] \cap KernelPages = {}
  BY <1>2, <1>4 DEF TakenBy
<1>8. ASSUME NEW s \in live, NEW t \in live, s # t
      PROVE  of[s] \cap of[t] = {}
  BY <1>2, <1>4, <1>8 DEF Apart
<1>9. \A s, t \in live \cup {NULL} : of[s] \cap Data = {} /\ (s # t => of[s] \cap of[t] = {})
  BY <1>3, <1>7, <1>8, KernelFacts
<1>10. DOMAIN of = live \cup {NULL}
  BY DEF of
<1>11. \A s \in live, va \in KernelVa : Translate(s, va) = Entry(va, FALSE, TRUE)
  BY KernelWalk
<1> QED BY <1>2, <1>6, <1>9, <1>10, <1>11 DEF TablesExact, of

(* The pages a space has were given out, so none is one pgalloc gives.     *)
LEMMA SpacePages ==
  ASSUME NEW m, NEW u, NEW r, NEW l, Mem(m, u, r, l), NEW t \in l
  PROVE  /\ SpaceOk(m, r, t) /\ r[t].to \in u /\ r[t].to \in Frame
         /\ r[t].to \notin KernelPages \cup Data
         /\ \A i \in User : m[r[t].to][i].p =>
              /\ m[r[t].to][i].to \in u /\ m[r[t].to][i].to \in Frame
              /\ m[r[t].to][i].to \notin KernelPages \cup Data
              /\ m[r[t].to][i].to # r[t].to
<1>1. MemType(m, u, r, l) /\ SpaceOk(m, r, t) /\ Apart(m, r, l) /\ TakenBy(m, u, r, l)
  BY DEF Mem
<1>2. r[t].to \in u \ (Data \cup KernelPages)
  <2>1. Has(m, r, t, NULL) /\ PageOf(m, r, t, NULL) = r[t].to /\ NULL \in Slots
    BY DEF Has, PageOf, Slots
  <2> QED BY <1>1, <2>1 DEF TakenBy
<1>3. ASSUME NEW i \in User, m[r[t].to][i].p
      PROVE  m[r[t].to][i].to \in u \ (Data \cup KernelPages) /\ m[r[t].to][i].to # r[t].to
  <2>1. Has(m, r, t, i) /\ PageOf(m, r, t, i) = m[r[t].to][i].to /\ i \in Slots /\ i # NULL
    BY <1>3, UserIndex DEF Has, PageOf
  <2>2. Has(m, r, t, NULL) /\ PageOf(m, r, t, NULL) = r[t].to /\ NULL \in Slots
    BY DEF Has, PageOf, Slots
  <2>3. m[r[t].to][i].to \in u \ (Data \cup KernelPages)
    BY <1>1, <2>1 DEF TakenBy
  <2>4. m[r[t].to][i].to # r[t].to
    BY <1>1, <2>1, <2>2 DEF Apart
  <2> QED BY <2>3, <2>4
<1> QED BY <1>1, <1>2, <1>3 DEF MemType

(* pgalloc gives a page that was free.                                     *)
LEMMA FreshPage ==
  ASSUME ~NoPage
  PROVE  pgalloc \in Frame /\ pgalloc \notin used
BY DEF NoPage, pgalloc

(* protect adds a space with no user page, and changes no other.           *)
LEMMA ProtectMem ==
  ASSUME Mem(pt, used, ptr, live), NEW s \in Spaces, protect(s), ~NoPage
  PROVE  /\ Mem(pt', used', ptr', live') /\ s \notin live /\ live' = live \cup {s}
         /\ twice' = twice /\ panic' = panic
         /\ \A v \in UserVa : Reach(pt', ptr', s, v) = Empty
         /\ \A t \in live, v \in UserVa : Reach(pt', ptr', t, v) = Reach(pt, ptr, t, v)
<1> DEFINE f   == pgalloc
           upt == [i \in DOMAIN NoEntries |-> IF i \in Kernel THEN pt[kpt][i] ELSE Empty]
<1>1. f \in Frame /\ f \notin used
  BY FreshPage
<1>2. /\ s \notin live /\ live' = live \cup {s} /\ twice' = twice /\ panic' = panic
      /\ pt' = [pt EXCEPT ![f] = upt] /\ used' = used \cup {f}
      /\ ptr' = [ptr EXCEPT ![s] = Entry(f, TRUE, FALSE)]
  BY DEF protect
<1> HIDE DEF f
<1>3. /\ MemType(pt, used, ptr, live) /\ KernelOk(pt)
      /\ Apart(pt, ptr, live) /\ TakenBy(pt, used, ptr, live)
  BY DEF Mem
<1>4. /\ upt \in [Indices -> Entries]
      /\ \A i \in Kernel : upt[i] = Entry(ktable[i], FALSE, TRUE)
      /\ \A i \in Indices \ Kernel : upt[i] = Empty
  <2>1. DOMAIN NoEntries = Indices
    BY DEF NoEntries, Indices
  <2>2. ASSUME NEW i \in Kernel
        PROVE  upt[i] = Entry(ktable[i], FALSE, TRUE) /\ upt[i] \in Entries
    <3>1. upt[i] = KernelDir[i] /\ i \in Indices
      BY <2>1, <1>3 DEF KernelOk, Indices
    <3>2. KernelDir[i] = Entry(ktable[i], FALSE, TRUE)
      BY <2>1, <3>1 DEF KernelDir
    <3>3. Entry(ktable[i], FALSE, TRUE) \in Entries
      BY KTable DEF Entry, Entries
    <3> QED BY <3>1, <3>2, <3>3
  <2>3. \A i \in Indices \ Kernel : upt[i] = Empty
    BY <2>1
  <2> QED BY <2>1, <2>2, <2>3, Recs
<1> HIDE DEF upt
<1>5. pt'[f] = upt /\ \A g \in Frame \ {f} : pt'[g] = pt[g]
  BY <1>1, <1>2, <1>3 DEF MemType
<1>6. ptr'[s] = Entry(f, TRUE, FALSE) /\ ptr'[s].to = f /\ \A t \in live : ptr'[t] = ptr[t]
  <2>1. ptr'[s] = Entry(f, TRUE, FALSE) /\ \A t \in live : ptr'[t] = ptr[t]
    BY <1>2, <1>3 DEF MemType
  <2> QED BY <2>1 DEF Entry
<1>7. MemType(pt', used', ptr', live')
  <2>1. Entry(f, TRUE, FALSE) \in Entries
    BY <1>1 DEF Entry, Entries
  <2> QED BY <1>1, <1>2, <1>3, <1>4, <2>1 DEF MemType
<1>8. KernelOk(pt')
  BY <1>1, <1>3, <1>5, KernelFacts DEF KernelOk, TakenBy
<1>9. ASSUME NEW t \in live
      PROVE  /\ SpaceOk(pt', ptr', t)
             /\ \A i : Has(pt', ptr', t, i) = Has(pt, ptr, t, i)
                       /\ PageOf(pt', ptr', t, i) = PageOf(pt, ptr, t, i)
             /\ \A v \in UserVa : Reach(pt', ptr', t, v) = Reach(pt, ptr, t, v)
  <2>1. /\ SpaceOk(pt, ptr, t) /\ pt'[ptr[t].to] = pt[ptr[t].to]
        /\ \A i \in User : pt[ptr[t].to][i].p =>
             pt'[pt[ptr[t].to][i].to] = pt[pt[ptr[t].to][i].to]
    BY <1>1, <1>5, SpacePages
  <2> QED BY <1>6, <2>1, Kept
<1>10. SpaceOk(pt', ptr', s)
  <2>1. ptr'[s] = Entry(ptr'[s].to, TRUE, FALSE) /\ ptr'[s].to \in Frame /\ pt'[ptr'[s].to] = upt
    BY <1>1, <1>5, <1>6
  <2>2. \A i \in User : i \in Indices \ Kernel
    BY UserIndex
  <2> QED BY <1>4, <2>1, <2>2 DEF SpaceOk, DirOk, TableEntry
<1>11. ASSUME NEW i \in Slots, Has(pt', ptr', s, i)
       PROVE  i = NULL /\ PageOf(pt', ptr', s, i) = f
  <2>1. i # NULL => i \in Indices \ Kernel
    BY UserIndex DEF Slots
  <2> QED BY <1>4, <1>5, <1>6, <1>11, <2>1, Recs DEF Has, PageOf
<1>12. PageOf(pt', ptr', s, NULL) = f /\ Has(pt', ptr', s, NULL) /\ NULL \in Slots
  BY <1>6 DEF PageOf, Has, Slots
<1>13. ASSUME NEW t \in live, NEW i \in Slots, Has(pt', ptr', t, i)
       PROVE  /\ PageOf(pt', ptr', t, i) \in used \ (Data \cup KernelPages)
              /\ PageOf(pt', ptr', t, i) # f
  BY <1>1, <1>3, <1>9, <1>13 DEF TakenBy
<1>14. Apart(pt', ptr', live')
  <2> SUFFICES ASSUME NEW a \in live', NEW b \in live', NEW i \in Slots, NEW j \in Slots,
                      Has(pt', ptr', a, i), Has(pt', ptr', b, j),
                      PageOf(pt', ptr', a, i) = PageOf(pt', ptr', b, j)
               PROVE  a = b /\ i = j
    BY DEF Apart
  <2>1. CASE a \in live /\ b \in live
    BY <1>3, <1>9, <2>1 DEF Apart
  <2>2. CASE a \in live /\ b = s
    BY <1>11, <1>13, <2>2
  <2>3. CASE a = s /\ b \in live
    BY <1>11, <1>13, <2>3
  <2>4. CASE a = s /\ b = s
    BY <1>11, <2>4
  <2> QED BY <1>2, <2>1, <2>2, <2>3, <2>4
<1>15. TakenBy(pt', used', ptr', live')
  <2>1. Data \cup KernelPages \subseteq used' /\ f \notin Data \cup KernelPages
    BY <1>1, <1>2, <1>3 DEF TakenBy
  <2>2. ASSUME NEW t \in live', NEW i \in Slots, Has(pt', ptr', t, i)
        PROVE  PageOf(pt', ptr', t, i) \in used' \ (Data \cup KernelPages)
    BY <1>2, <1>11, <1>13, <2>1, <2>2
  <2>3. ASSUME NEW g \in used' \ (Data \cup KernelPages)
        PROVE  \E t \in live', i \in Slots : Has(pt', ptr', t, i) /\ g = PageOf(pt', ptr', t, i)
    <3>1. CASE g = f
      BY <1>2, <1>12, <3>1
    <3>2. CASE g # f
      <4>1. PICK t \in live, i \in Slots : Has(pt, ptr, t, i) /\ g = PageOf(pt, ptr, t, i)
        BY <1>2, <1>3, <3>2 DEF TakenBy
      <4> QED BY ZenonT(60), <1>2, <1>9, <4>1
    <3> QED BY <3>1, <3>2
  <2> QED BY <2>1, <2>2, <2>3 DEF TakenBy
<1>16. ASSUME NEW v \in UserVa
       PROVE  Reach(pt', ptr', s, v) = Empty
  <2>1. v[1] \in Indices \ Kernel
    BY Vas, UserIndex
  <2> QED BY <1>4, <1>5, <1>6, <2>1, Recs DEF Reach
<1> QED BY <1>2, <1>7, <1>8, <1>9, <1>10, <1>14, <1>15, <1>16 DEF Mem

(* unprotect frees each page of its space once, and none of another.       *)
LEMMA UnprotectMem ==
  ASSUME Mem(pt, used, ptr, live), twice = FALSE, NEW s \in Spaces, unprotect(s)
  PROVE  /\ Mem(pt', used', ptr', live') /\ s \in live /\ live' = live \ {s}
         /\ twice' = FALSE /\ panic' = panic
         /\ \A t \in live', v \in UserVa : Reach(pt', ptr', t, v) = Reach(pt, ptr, t, v)
<1> DEFINE dir   == ptr[s].to
           below == {i \in DOMAIN NoEntries : TornDown(pt[dir][i])}
           freed == {dir} \cup {pt[dir][i].to : i \in below}
<1>1. s \in live
  BY DEF unprotect
<1>2. /\ MemType(pt, used, ptr, live) /\ KernelOk(pt) /\ SpaceOk(pt, ptr, s)
      /\ Apart(pt, ptr, live) /\ TakenBy(pt, used, ptr, live)
  BY <1>1 DEF Mem
<1>3. below = {i \in User : pt[dir][i].p}
  <2>1. DOMAIN NoEntries = Indices
    BY DEF NoEntries, Indices
  <2> QED BY <1>2, <2>1, UserEntries, UserIndex DEF TornDown
<1>4. freed = {PageOf(pt, ptr, s, i) : i \in {j \in Slots : Has(pt, ptr, s, j)}}
  BY <1>3, UserIndex DEF PageOf, Has, Slots
<1>5. freed \subseteq used \ (Data \cup KernelPages)
  BY <1>1, <1>2, <1>4 DEF TakenBy
<1>6. \A i \in below : pt[dir][i].to # dir
  BY <1>1, <1>3, SpacePages
<1>7. ASSUME NEW i \in below, NEW j \in below, i # j
      PROVE  pt[dir][i].to # pt[dir][j].to
  <2>1. /\ i \in Slots /\ Has(pt, ptr, s, i) /\ PageOf(pt, ptr, s, i) = pt[dir][i].to
        /\ j \in Slots /\ Has(pt, ptr, s, j) /\ PageOf(pt, ptr, s, j) = pt[dir][j].to
    BY SMTT(60), <1>3, UserIndex DEF Has, PageOf
  <2> QED BY <1>1, <1>2, <1>7, <2>1 DEF Apart
<1>8. /\ used' = used \ freed /\ live' = live \ {s} /\ panic' = panic
      /\ pt' = [f \in Frame |-> IF f \in freed THEN NoEntries ELSE pt[f]]
      /\ ptr' = [ptr EXCEPT ![s] = Empty]
  BY DEF unprotect
<1>9. twice' = FALSE
  <2>1. twice' = (\/ twice \/ ~(freed \subseteq used)
                  \/ \E i \in below : pt[dir][i].to = dir
                  \/ \E i, j \in below : i # j /\ pt[dir][i].to = pt[dir][j].to)
    BY DEF unprotect
  <2> HIDE DEF dir, below, freed
  <2> QED BY SMTT(60), <1>5, <1>6, <1>7, <2>1
<1> HIDE DEF dir, below, freed
<1>10. MemType(pt', used', ptr', live')
  <2>1. NoEntries \in [Indices -> Entries]
    BY Recs DEF NoEntries, Indices
  <2> QED BY <1>2, <1>8, <2>1, Recs DEF MemType
<1>11. \A f \in Frame \ freed : pt'[f] = pt[f]
  BY <1>8
<1>12. KernelOk(pt')
  BY <1>2, <1>5, <1>11, KernelFacts DEF KernelOk
<1>13. ASSUME NEW t \in live'
       PROVE  /\ t \in live /\ t # s /\ SpaceOk(pt', ptr', t)
              /\ \A i : Has(pt', ptr', t, i) = Has(pt, ptr, t, i)
                        /\ PageOf(pt', ptr', t, i) = PageOf(pt, ptr, t, i)
              /\ \A v \in UserVa : Reach(pt', ptr', t, v) = Reach(pt, ptr, t, v)
  <2>1. t \in live /\ t # s /\ ptr'[t] = ptr[t]
    BY <1>2, <1>8 DEF MemType
  <2>2. \A i \in Slots : Has(pt, ptr, t, i) => PageOf(pt, ptr, t, i) \notin freed
    BY <1>1, <1>2, <1>4, <2>1 DEF Apart
  <2>3. ptr[t].to \notin freed
    BY <2>2 DEF Slots, Has, PageOf
  <2>4. \A i \in User : pt[ptr[t].to][i].p => pt[ptr[t].to][i].to \notin freed
    BY <2>2, UserIndex DEF Has, PageOf
  <2>5. /\ SpaceOk(pt, ptr, t) /\ pt'[ptr[t].to] = pt[ptr[t].to]
        /\ \A i \in User : pt[ptr[t].to][i].p =>
             pt'[pt[ptr[t].to][i].to] = pt[pt[ptr[t].to][i].to]
    BY <1>11, <2>1, <2>3, <2>4, SpacePages
  <2> QED BY <2>1, <2>5, Kept
<1>14. Apart(pt', ptr', live')
  BY <1>2, <1>13 DEF Apart
<1>15. TakenBy(pt', used', ptr', live')
  <2>1. Data \cup KernelPages \subseteq used'
    BY <1>2, <1>5, <1>8 DEF TakenBy
  <2>2. ASSUME NEW t \in live', NEW i \in Slots, Has(pt', ptr', t, i)
        PROVE  PageOf(pt', ptr', t, i) \in used' \ (Data \cup KernelPages)
    <3>1. Has(pt, ptr, t, i) /\ PageOf(pt', ptr', t, i) = PageOf(pt, ptr, t, i) /\ t \in live /\ t # s
      BY <1>13, <2>2
    <3>2. PageOf(pt, ptr, t, i) \in used \ (Data \cup KernelPages)
      BY <1>2, <3>1 DEF TakenBy
    <3>3. PageOf(pt, ptr, t, i) \notin freed
      BY <1>1, <1>2, <1>4, <3>1 DEF Apart
    <3> QED BY <1>8, <3>1, <3>2, <3>3
  <2>3. ASSUME NEW g \in used' \ (Data \cup KernelPages)
        PROVE  \E t \in live', i \in Slots : Has(pt', ptr', t, i) /\ g = PageOf(pt', ptr', t, i)
    <3>1. PICK t \in live, i \in Slots : Has(pt, ptr, t, i) /\ g = PageOf(pt, ptr, t, i)
      BY <1>2, <1>8 DEF TakenBy
    <3>2. t # s
      BY <1>4, <1>8, <3>1
    <3>3. t \in live'
      BY <1>8, <3>2
    <3> QED BY <1>13, <3>1, <3>3
  <2> QED BY <2>1, <2>2, <2>3 DEF TakenBy
<1> QED BY <1>1, <1>8, <1>9, <1>10, <1>12, <1>13, <1>14, <1>15 DEF Mem

(* ptwalk comes to the table with the entry for va; a table it adds is     *)
(* empty, so no address is reached that was not.                           *)
LEMMA WalkMem ==
  ASSUME Mem(pt, used, ptr, live), NEW s \in live, NEW va \in UserVa,
         ~(Missing(s, va) /\ NoPage)
  PROVE  /\ Mem(ptwalk(s, va).pt, ptwalk(s, va).used, ptr, live)
         /\ ptwalk(s, va).pt[ptr[s].to][va[1]] = UserTable(ptwalk(s, va).table)
         /\ \A t \in live, v \in UserVa : Reach(ptwalk(s, va).pt, ptr, t, v) = Reach(pt, ptr, t, v)
<1> DEFINE d == ptr[s].to
           n == va[1]
<1>1. /\ MemType(pt, used, ptr, live) /\ KernelOk(pt) /\ SpaceOk(pt, ptr, s)
      /\ Apart(pt, ptr, live) /\ TakenBy(pt, used, ptr, live)
  BY DEF Mem
<1>2. n \in User /\ n \in Indices /\ n \notin Kernel /\ n # NULL /\ n \in Slots
  BY Vas, UserIndex
<1>3. CASE pt[d][n].p
  <2>1. ptwalk(s, va) = [pt |-> pt, used |-> used, table |-> pt[d][n].to]
    BY <1>3 DEF ptwalk, indexof
  <2>2. pt[d][n] # Empty /\ TableEntry(pt, pt[d][n])
    BY SMTT(60), <1>1, <1>2, <1>3, Recs DEF SpaceOk, DirOk
  <2>3. pt[d][n] = Entry(pt[d][n].to, TRUE, TRUE)
    BY <2>2 DEF TableEntry
  <2>4. pt[d][n] = UserTable(pt[d][n].to)
    BY <2>3 DEF UserTable
  <2>5. ptwalk(s, va).pt = pt /\ ptwalk(s, va).used = used /\ ptwalk(s, va).table = pt[d][n].to
    BY <2>1
  <2> QED BY <2>4, <2>5
<1>4. CASE ~pt[d][n].p
  <2> DEFINE f == pgalloc
             m == [pt EXCEPT ![f] = NoEntries, ![d][n] = Entry(f, TRUE, TRUE)]
             u == used \cup {f}
  <2>1. ptwalk(s, va) = [pt |-> m, used |-> u, table |-> f]
    BY <1>4 DEF ptwalk, indexof
  <2>2. f \in Frame /\ f \notin used
    BY <1>4, FreshPage DEF Missing, indexof
  <2> HIDE DEF f
  <2>3. d \in Frame /\ d \in used /\ d # f
    BY <2>2, SpacePages
  <2>4. /\ m[f] = NoEntries /\ m[d] = [pt[d] EXCEPT ![n] = Entry(f, TRUE, TRUE)]
        /\ \A g \in Frame \ {f, d} : m[g] = pt[g]
    BY <1>1, <2>2, <2>3 DEF MemType
  <2> HIDE DEF m
  <2>5. /\ m[d][n] = Entry(f, TRUE, TRUE) /\ m[d][n].p /\ m[d][n].to = f
        /\ \A i \in Indices \ {n} : m[d][i] = pt[d][i]
    <3>1. pt[d] \in [Indices -> Entries]
      BY <1>1, <2>3 DEF MemType
    <3>2. m[d][n] = Entry(f, TRUE, TRUE) /\ \A i \in Indices \ {n} : m[d][i] = pt[d][i]
      BY <1>2, <2>4, <3>1
    <3> QED BY <3>2 DEF Entry
  <2>6. MemType(m, u, ptr, live)
    <3>1. NoEntries \in [Indices -> Entries]
      BY Recs DEF NoEntries, Indices
    <3>2. Entry(f, TRUE, TRUE) \in Entries
      BY <2>2 DEF Entry, Entries
    <3>3. m[d] \in [Indices -> Entries]
      <4>1. pt[d] \in [Indices -> Entries]
        BY <1>1, <2>3 DEF MemType
      <4> QED BY <1>2, <2>4, <3>2, <4>1
    <3>4. m \in [Frame -> [Indices -> Entries]]
      <4>1. m = [g \in Frame |-> m[g]]
        BY <1>1 DEF MemType, m
      <4>2. \A g \in Frame : m[g] \in [Indices -> Entries]
        BY <1>1, <2>4, <3>1, <3>3 DEF MemType
      <4> QED BY <4>1, <4>2
    <3> QED BY <1>1, <2>2, <3>4 DEF MemType
  <2>7. NoEntries = [i \in Indices |-> Empty]
    BY DEF NoEntries, Indices
  <2>8. KernelOk(m)
    <3>1. kpt \in Frame \ {f, d} /\ \A k \in Kernel : ktable[k] \in Frame \ {f, d}
      BY <1>1, <2>2, KernelFacts, SpacePages DEF TakenBy
    <3> QED BY <1>1, <2>4, <3>1 DEF KernelOk
  <2>9. ASSUME NEW t \in live \ {s}
        PROVE  /\ SpaceOk(m, ptr, t)
               /\ \A i : Has(m, ptr, t, i) = Has(pt, ptr, t, i)
                         /\ PageOf(m, ptr, t, i) = PageOf(pt, ptr, t, i)
               /\ \A v \in UserVa : Reach(m, ptr, t, v) = Reach(pt, ptr, t, v)
    <3>1. Has(pt, ptr, s, NULL) /\ PageOf(pt, ptr, s, NULL) = d /\ NULL \in Slots
      BY DEF Has, PageOf, Slots
    <3>2. \A i \in Slots : Has(pt, ptr, t, i) => PageOf(pt, ptr, t, i) # d
      BY <1>1, <3>1 DEF Apart
    <3>3. ptr[t].to # d
      BY <3>2 DEF Has, PageOf, Slots
    <3>4. \A i \in User : pt[ptr[t].to][i].p => pt[ptr[t].to][i].to # d
      BY <3>2, UserIndex DEF Has, PageOf
    <3>5. /\ SpaceOk(pt, ptr, t) /\ m[ptr[t].to] = pt[ptr[t].to]
          /\ \A i \in User : pt[ptr[t].to][i].p =>
               m[pt[ptr[t].to][i].to] = pt[pt[ptr[t].to][i].to]
      BY <2>2, <2>4, <3>3, <3>4, SpacePages
    <3> QED BY <3>5, Kept
  <2>10. /\ Has(m, ptr, s, n) /\ PageOf(m, ptr, s, n) = f
         /\ \A i \in Slots \ {n} : Has(m, ptr, s, i) = Has(pt, ptr, s, i)
                                   /\ PageOf(m, ptr, s, i) = PageOf(pt, ptr, s, i)
    <3>1. Has(m, ptr, s, n) /\ PageOf(m, ptr, s, n) = f
      BY <1>2, <2>5 DEF Has, PageOf
    <3>2. ASSUME NEW i \in Slots \ {n}
          PROVE  /\ Has(m, ptr, s, i) = Has(pt, ptr, s, i)
                 /\ PageOf(m, ptr, s, i) = PageOf(pt, ptr, s, i)
      <4>1. i # NULL => m[d][i] = pt[d][i]
        BY <2>5, UserIndex DEF Slots
      <4> QED BY <4>1 DEF Has, PageOf
    <3> QED BY <3>1, <3>2
  <2>11. ASSUME NEW i \in User, i # n
         PROVE  /\ m[d][i] = pt[d][i]
                /\ pt[d][i].p => m[pt[d][i].to] = pt[pt[d][i].to]
    <3>1. m[d][i] = pt[d][i]
      BY <2>5, <2>11, UserIndex
    <3>2. pt[d][i].p => pt[d][i].to \in used /\ pt[d][i].to \in Frame /\ pt[d][i].to # d
      BY SpacePages
    <3> QED BY <2>2, <2>4, <3>1, <3>2
  <2>12. SpaceOk(m, ptr, s)
    <3>1. \A i \in Kernel : m[d][i] = Entry(ktable[i], FALSE, TRUE)
      BY <1>1, <1>2, <2>5 DEF SpaceOk, DirOk, Indices
    <3>2. \A i \in Indices \ (Kernel \cup User) : m[d][i] = Empty
      BY <1>1, <1>2, <2>5 DEF SpaceOk, DirOk
    <3>3. TableEntry(m, m[d][n])
      <4>1. \A j \in Index : UserEntry(m[f][j])
        BY <2>4, <2>7 DEF UserEntry, Indices
      <4> QED BY <2>2, <2>5, <4>1 DEF TableEntry
    <3>4. ASSUME NEW i \in User, i # n
          PROVE  TableEntry(m, m[d][i])
      <4>1. TableEntry(pt, pt[d][i])
        BY <1>1 DEF SpaceOk, DirOk
      <4>2. CASE pt[d][i] = Empty
        BY <2>11, <3>4, <4>2 DEF TableEntry
      <4>3. CASE pt[d][i] # Empty
        <5>1. /\ pt[d][i] = Entry(pt[d][i].to, TRUE, TRUE) /\ pt[d][i].to \in Frame
              /\ \A j \in Index : UserEntry(pt[pt[d][i].to][j])
          BY <4>1, <4>3 DEF TableEntry
        <5>2. pt[d][i].p
          BY <5>1 DEF Entry
        <5> QED BY <2>11, <3>4, <5>1, <5>2 DEF TableEntry
      <4> QED BY <4>2, <4>3
    <3> QED BY <1>1, <3>1, <3>2, <3>3, <3>4 DEF SpaceOk, DirOk
  <2>13. ASSUME NEW v \in UserVa
         PROVE  Reach(m, ptr, s, v) = Reach(pt, ptr, s, v)
    <3>1. v[1] \in User /\ v[2] \in Index
      BY Vas
    <3>2. CASE v[1] = n
      <4>1. Reach(m, ptr, s, v) = m[f][v[2]]
        BY <2>5, <3>2 DEF Reach
      <4>2. Reach(pt, ptr, s, v) = Empty
        BY <1>4, <3>2 DEF Reach
      <4> QED BY <2>4, <2>7, <3>1, <4>1, <4>2 DEF Indices
    <3>3. CASE v[1] # n
      BY <2>11, <3>1, <3>3 DEF Reach
    <3> QED BY <3>2, <3>3
  <2>14. ASSUME NEW t \in live, NEW i \in Slots, Has(m, ptr, t, i)
         PROVE  \/ t = s /\ i = n /\ PageOf(m, ptr, t, i) = f
                \/ /\ Has(pt, ptr, t, i) /\ PageOf(m, ptr, t, i) = PageOf(pt, ptr, t, i)
                   /\ PageOf(pt, ptr, t, i) \in used \ (Data \cup KernelPages)
                   /\ PageOf(pt, ptr, t, i) # f
    <3>1. CASE t = s /\ i = n
      BY <2>10, <3>1
    <3>2. CASE ~(t = s /\ i = n)
      <4>1. Has(pt, ptr, t, i) /\ PageOf(m, ptr, t, i) = PageOf(pt, ptr, t, i)
        BY <2>9, <2>10, <2>14, <3>2
      <4> QED BY <1>1, <2>2, <4>1 DEF TakenBy
    <3> QED BY <3>1, <3>2
  <2>15. Apart(m, ptr, live)
    BY <1>1, <2>14 DEF Apart
  <2>16. TakenBy(m, u, ptr, live)
    <3>1. Data \cup KernelPages \subseteq u /\ f \notin Data \cup KernelPages
      BY <1>1, <2>2 DEF TakenBy
    <3>2. \A t \in live, i \in Slots :
            Has(m, ptr, t, i) => PageOf(m, ptr, t, i) \in u \ (Data \cup KernelPages)
      BY <2>14, <3>1
    <3>3. ASSUME NEW g \in u \ (Data \cup KernelPages)
          PROVE  \E t \in live, i \in Slots : Has(m, ptr, t, i) /\ g = PageOf(m, ptr, t, i)
      <4>1. CASE g = f
        BY <1>2, <2>10, <4>1
      <4>2. CASE g # f
        <5>1. PICK t \in live, i \in Slots : Has(pt, ptr, t, i) /\ g = PageOf(pt, ptr, t, i)
          BY <1>1, <4>2 DEF TakenBy
        <5>2. ~(t = s /\ i = n)
          BY <1>2, <1>4, <5>1 DEF Has
        <5> QED BY <2>9, <2>10, <5>1, <5>2
      <4> QED BY <4>1, <4>2
    <3> QED BY <3>1, <3>2, <3>3 DEF TakenBy
  <2>17. Mem(m, u, ptr, live)
    BY <2>6, <2>8, <2>9, <2>12, <2>15, <2>16 DEF Mem
  <2>18. m[d][n] = UserTable(f)
    BY <2>5 DEF UserTable
  <2>19. ptwalk(s, va).pt = m /\ ptwalk(s, va).used = u /\ ptwalk(s, va).table = f
    BY <2>1
  <2>20. \A t \in live, v \in UserVa : Reach(m, ptr, t, v) = Reach(pt, ptr, t, v)
    BY <2>9, <2>13
  <2> QED BY <2>17, <2>18, <2>19, <2>20
<1> QED BY <1>3, <1>4

(* The entries map writes are entries.                                     *)
LEMMA UserEntryType ==
  ASSUME NEW e, UserEntry(e)
  PROVE  e \in Entries
<1>1. CASE e = Empty
  BY <1>1, Recs
<1>2. CASE e # Empty
  <2>1. PICK pa \in Data, w \in BOOLEAN : e = Entry(pa, TRUE, w)
    BY <1>2 DEF UserEntry
  <2>2. pa \in Frame
    BY X86VmeAssumption
  <2> QED BY <2>1, <2>2 DEF Entry, Entries
<1> QED BY <1>1, <1>2

(* An entry written to a table of a space changes what is reached at its   *)
(* address, and nowhere else: no other slot is that table.                 *)
LEMMA StoreMem ==
  ASSUME NEW m, NEW u, Mem(m, u, ptr, live), NEW s \in live, NEW va \in UserVa,
         NEW tab, m[ptr[s].to][va[1]] = UserTable(tab), NEW e, UserEntry(e)
  PROVE  /\ Mem([m EXCEPT ![tab][va[2]] = e], u, ptr, live)
         /\ Reach(m, ptr, s, va) = m[tab][va[2]]
         /\ \A t \in live, v \in UserVa :
              Reach([m EXCEPT ![tab][va[2]] = e], ptr, t, v)
                = IF t = s /\ v = va THEN e ELSE Reach(m, ptr, t, v)
<1> DEFINE d  == ptr[s].to
           n  == va[1]
           m2 == [m EXCEPT ![tab][va[2]] = e]
<1>1. /\ MemType(m, u, ptr, live) /\ KernelOk(m) /\ SpaceOk(m, ptr, s)
      /\ Apart(m, ptr, live) /\ TakenBy(m, u, ptr, live)
  BY DEF Mem
<1>2. n \in User /\ n \in Slots /\ va[2] \in Index /\ va[2] \in Indices
  BY Vas, UserIndex DEF Indices
<1>3. m[d][n].p /\ m[d][n].to = tab
  <2>1. m[d][n] = Entry(tab, TRUE, TRUE)
    BY DEF UserTable
  <2> QED BY <2>1 DEF Entry
<1>4. /\ tab \in Frame /\ tab \in u /\ tab \notin KernelPages \cup Data /\ tab # d
      /\ d \in Frame
  BY <1>2, <1>3, SpacePages
<1>5. /\ m2[tab] = [m[tab] EXCEPT ![va[2]] = e] /\ \A g \in Frame \ {tab} : m2[g] = m[g]
      /\ m2 = [g \in Frame |-> m2[g]]
  BY <1>1, <1>4 DEF MemType
<1> HIDE DEF m2
<1>6. /\ m2[tab] \in [Indices -> Entries] /\ m2[tab][va[2]] = e
      /\ \A i \in Indices \ {va[2]} : m2[tab][i] = m[tab][i]
  <2>1. m[tab] \in [Indices -> Entries]
    BY <1>1, <1>4 DEF MemType
  <2>2. e \in Entries
    BY UserEntryType
  <2> QED BY <1>2, <1>5, <2>1, <2>2
<1>7. MemType(m2, u, ptr, live)
  <2>1. \A g \in Frame : m2[g] \in [Indices -> Entries]
    BY <1>1, <1>5, <1>6 DEF MemType
  <2>2. m2 \in [Frame -> [Indices -> Entries]]
    BY <1>5, <2>1
  <2> QED BY <1>1, <2>2 DEF MemType
<1>8. KernelOk(m2)
  <2>1. kpt \in Frame \ {tab} /\ \A k \in Kernel : ktable[k] \in Frame \ {tab}
    BY <1>4, KernelFacts
  <2> QED BY <1>1, <1>5, <2>1 DEF KernelOk
<1>9. m2[d] = m[d]
  BY <1>4, <1>5
<1>10. Has(m, ptr, s, n) /\ PageOf(m, ptr, s, n) = tab /\ n # NULL
  BY <1>2, <1>3, UserIndex DEF Has, PageOf
<1>11. ASSUME NEW t \in live \ {s}
       PROVE  /\ SpaceOk(m2, ptr, t)
              /\ \A i : Has(m2, ptr, t, i) = Has(m, ptr, t, i)
                        /\ PageOf(m2, ptr, t, i) = PageOf(m, ptr, t, i)
              /\ \A v \in UserVa : Reach(m2, ptr, t, v) = Reach(m, ptr, t, v)
  <2>1. \A i \in Slots : Has(m, ptr, t, i) => PageOf(m, ptr, t, i) # tab
    BY <1>1, <1>2, <1>10 DEF Apart
  <2>2. ptr[t].to # tab
    BY <2>1 DEF Has, PageOf, Slots
  <2>3. \A i \in User : m[ptr[t].to][i].p => m[ptr[t].to][i].to # tab
    BY <2>1, UserIndex DEF Has, PageOf
  <2>4. /\ SpaceOk(m, ptr, t) /\ m2[ptr[t].to] = m[ptr[t].to]
        /\ \A i \in User : m[ptr[t].to][i].p =>
             m2[m[ptr[t].to][i].to] = m[m[ptr[t].to][i].to]
    BY <1>5, <2>2, <2>3, SpacePages
  <2> QED BY <2>4, Kept
<1>12. \A i : Has(m2, ptr, s, i) = Has(m, ptr, s, i) /\ PageOf(m2, ptr, s, i) = PageOf(m, ptr, s, i)
  BY <1>9 DEF Has, PageOf
<1>13. ASSUME NEW i \in User, m[d][i].p, i # n
       PROVE  m2[m[d][i].to] = m[m[d][i].to]
  <2>1. Has(m, ptr, s, i) /\ PageOf(m, ptr, s, i) = m[d][i].to /\ i \in Slots
    BY <1>13, UserIndex DEF Has, PageOf
  <2>2. m[d][i].to # tab
    BY <1>1, <1>2, <1>10, <1>13, <2>1 DEF Apart
  <2>3. m[d][i].to \in Frame
    BY <1>13, SpacePages
  <2> QED BY <1>5, <2>2, <2>3
<1>14. SpaceOk(m2, ptr, s)
  <2>1. ASSUME NEW i \in User
        PROVE  TableEntry(m2, m2[d][i])
    <3>1. TableEntry(m, m[d][i])
      BY <1>1 DEF SpaceOk, DirOk
    <3>2. CASE m[d][i] = Empty
      BY SMTT(60), <1>9, <3>2 DEF TableEntry
    <3>3. CASE m[d][i] # Empty
      <4>1. /\ m[d][i] = Entry(m[d][i].to, TRUE, TRUE) /\ m[d][i].to \in Frame
            /\ \A j \in Index : UserEntry(m[m[d][i].to][j])
        BY <3>1, <3>3 DEF TableEntry
      <4>2. m[d][i].p
        BY <4>1 DEF Entry
      <4>3. \A j \in Index : UserEntry(m2[m[d][i].to][j])
        <5>1. CASE i # n
          BY <1>13, <4>1, <4>2, <5>1
        <5>2. CASE i = n
          <6>1. \A j \in Index : j \in Indices
            BY DEF Indices
          <6> QED BY <1>3, <1>6, <4>1, <5>2, <6>1
        <5> QED BY <5>1, <5>2
      <4> QED BY <1>9, <4>1, <4>3 DEF TableEntry
    <3> QED BY <3>2, <3>3
  <2> QED BY <1>1, <1>9, <2>1 DEF SpaceOk, DirOk
<1>15. ASSUME NEW v \in UserVa
       PROVE  Reach(m2, ptr, s, v) = IF v = va THEN e ELSE Reach(m, ptr, s, v)
  <2>1. v = <<v[1], v[2]>> /\ v[1] \in User /\ v[2] \in Index /\ v[2] \in Indices
    BY Vas DEF Indices
  <2>2. CASE v[1] = n
    <3>1. Reach(m2, ptr, s, v) = m2[tab][v[2]] /\ Reach(m, ptr, s, v) = m[tab][v[2]]
      BY <1>3, <1>9, <2>2 DEF Reach
    <3>2. v = va <=> v[2] = va[2]
      <4>1. va = <<va[1], va[2]>>
        BY Vas
      <4> QED BY <2>1, <2>2, <4>1
    <3> QED BY <1>6, <2>1, <3>1, <3>2
  <2>3. CASE v[1] # n
    <3>1. v # va
      BY <2>3
    <3>2. Reach(m2, ptr, s, v) = Reach(m, ptr, s, v)
      BY <1>9, <1>13, <2>1, <2>3 DEF Reach
    <3> QED BY <3>1, <3>2
  <2> QED BY <2>2, <2>3
<1>16. ASSUME NEW t \in live, NEW i \in Slots
       PROVE  Has(m2, ptr, t, i) = Has(m, ptr, t, i) /\ PageOf(m2, ptr, t, i) = PageOf(m, ptr, t, i)
  BY <1>11, <1>12
<1>17. Apart(m2, ptr, live)
  BY <1>1, <1>16 DEF Apart
<1>18. TakenBy(m2, u, ptr, live)
  <2>1. Data \cup KernelPages \subseteq u
    BY <1>1 DEF TakenBy
  <2>2. \A t \in live, i \in Slots :
          Has(m2, ptr, t, i) => PageOf(m2, ptr, t, i) \in u \ (Data \cup KernelPages)
    BY <1>1, <1>16 DEF TakenBy
  <2>3. ASSUME NEW g \in u \ (Data \cup KernelPages)
        PROVE  \E t \in live, i \in Slots : Has(m2, ptr, t, i) /\ g = PageOf(m2, ptr, t, i)
    <3>1. PICK t \in live, i \in Slots : Has(m, ptr, t, i) /\ g = PageOf(m, ptr, t, i)
      BY <1>1 DEF TakenBy
    <3> QED BY <1>16, <3>1
  <2> QED BY <2>1, <2>2, <2>3 DEF TakenBy
<1>19. Mem(m2, u, ptr, live)
  BY <1>7, <1>8, <1>11, <1>14, <1>17, <1>18 DEF Mem
<1>20. Reach(m, ptr, s, va) = m[tab][va[2]]
  BY <1>3 DEF Reach
<1>21. \A t \in live, v \in UserVa :
         Reach(m2, ptr, t, v) = IF t = s /\ v = va THEN e ELSE Reach(m, ptr, t, v)
  BY <1>11, <1>15
<1> QED BY <1>19, <1>20, <1>21 DEF m2

(* What SetEntry does: nothing more than a table that was missing, if it   *)
(* panics; if not, it writes the entry, and only if that changes whether   *)
(* the address is mapped.                                                  *)
LEMMA SetEntryMem ==
  ASSUME Mem(pt, used, ptr, live), panic \in BOOLEAN, NEW s \in Spaces, NEW va \in UserVa,
         NEW e, UserEntry(e), SetEntry(s, va, e)
  PROVE  /\ Mem(pt', used', ptr', live') /\ s \in live /\ UNCHANGED <<twice, live>>
         /\ panic' \in BOOLEAN
         /\ \/ \A t \in live, v \in UserVa : Reach(pt', ptr', t, v) = Reach(pt, ptr, t, v)
            \/ /\ Reach(pt, ptr, s, va).p # e.p
               /\ \A t \in live, v \in UserVa :
                    Reach(pt', ptr', t, v) = IF t = s /\ v = va THEN e ELSE Reach(pt, ptr, t, v)
<1>1. s \in live
  BY DEF SetEntry
<1>2. CASE Missing(s, va) /\ NoPage
  <2>1. PanicOnPage
    BY <1>2 DEF SetEntry
  <2> QED BY <1>1, <2>1 DEF PanicOnPage
<1>3. CASE ~(Missing(s, va) /\ NoPage)
  <2> DEFINE walk == ptwalk(s, va)
             old  == walk.pt[walk.table][indexof(va, 2)]
             m2   == [walk.pt EXCEPT ![walk.table][indexof(va, 2)] = e]
  <2>1. /\ used' = walk.used /\ UNCHANGED <<ptr, twice, live>>
        /\ \/ Refused(old, e) /\ panic' = TRUE /\ pt' = walk.pt
           \/ ~Refused(old, e) /\ pt' = m2 /\ UNCHANGED panic
    BY <1>3 DEF SetEntry
  <2> HIDE DEF walk
  <2>2. /\ Mem(walk.pt, walk.used, ptr, live)
        /\ walk.pt[ptr[s].to][va[1]] = UserTable(walk.table)
        /\ \A t \in live, v \in UserVa : Reach(walk.pt, ptr, t, v) = Reach(pt, ptr, t, v)
    BY <1>1, <1>3, WalkMem DEF walk
  <2>3. indexof(va, 2) = va[2]
    BY DEF indexof
  <2>4. /\ Mem(m2, walk.used, ptr, live) /\ Reach(walk.pt, ptr, s, va) = old
        /\ \A t \in live, v \in UserVa :
             Reach(m2, ptr, t, v) = IF t = s /\ v = va THEN e ELSE Reach(walk.pt, ptr, t, v)
    BY SMTT(60), <1>1, <2>2, <2>3, StoreMem
  <2> HIDE DEF m2, old
  <2>5. CASE Refused(old, e) /\ panic' = TRUE /\ pt' = walk.pt
    BY <1>1, <2>1, <2>2, <2>5
  <2>6. CASE ~Refused(old, e) /\ pt' = m2 /\ UNCHANGED panic
    <3>1. Reach(pt, ptr, s, va).p # e.p
      BY <1>1, <2>2, <2>4, <2>6 DEF Refused
    <3> QED BY <1>1, <2>1, <2>2, <2>4, <2>6, <3>1
  <2> QED BY <2>1, <2>5, <2>6
<1> QED BY <1>2, <1>3

(* map writes entries for user mode.                                       *)
LEMMA MapEntries ==
  /\ UserEntry(Empty)
  /\ \A pa \in Data, w \in BOOLEAN : UserEntry(Entry(pa, TRUE, w))
BY DEF UserEntry

(* Every operation keeps the tables in order.                              *)
LEMMA VmeNextInv == VmeInv /\ [X86Next]_x86vars => VmeInv'
<1> SUFFICES ASSUME VmeInv, [X86Next]_x86vars
             PROVE  VmeInv'
  OBVIOUS
<1>1. Mem(pt, used, ptr, live) /\ twice = FALSE /\ panic \in BOOLEAN /\ space = View
  BY DEF VmeInv
<1>2. CASE UNCHANGED x86vars
  <2>1. UNCHANGED <<ptr, pt, used, twice, panic, live, space>>
    BY <1>2 DEF x86vars
  <2>2. View' = View
    BY <2>1 DEF View, Seen, Translate
  <2> QED BY <1>1, <2>1, <2>2 DEF VmeInv
<1>3. CASE X86Next
  <2>1. space' = View'
    BY <1>3 DEF X86Next
  <2>2. PICK s \in Spaces :
          \/ protect(s) \/ unprotect(s)
          \/ \E va \in UserVa : unmap(s, va) \/ \E pa \in Data, w \in BOOLEAN : map(s, va, pa, w)
    BY <1>3 DEF X86Next
  <2>3. ASSUME NEW va \in UserVa, NEW e, UserEntry(e), SetEntry(s, va, e)
        PROVE  VmeInv'
    <3>1. Mem(pt', used', ptr', live') /\ twice' = twice /\ panic' \in BOOLEAN
      BY <1>1, <2>3, SetEntryMem
    <3> QED BY <1>1, <2>1, <3>1 DEF VmeInv
  <2>4. CASE protect(s)
    <3>1. CASE NoPage
      <4>1. PanicOnPage
        BY <2>4, <3>1 DEF protect
      <4> QED BY <1>1, <2>1, <4>1 DEF VmeInv, PanicOnPage
    <3>2. CASE ~NoPage
      BY <1>1, <2>1, <2>4, <3>2, ProtectMem DEF VmeInv
    <3> QED BY <3>1, <3>2
  <2>5. CASE unprotect(s)
    BY <1>1, <2>1, <2>5, UnprotectMem DEF VmeInv
  <2>6. ASSUME NEW va \in UserVa, unmap(s, va)
        PROVE  VmeInv'
    BY <2>3, <2>6, MapEntries DEF unmap
  <2>7. ASSUME NEW va \in UserVa, NEW pa \in Data, NEW w \in BOOLEAN, map(s, va, pa, w)
        PROVE  VmeInv'
    BY <2>3, <2>7, MapEntries DEF map
  <2> QED BY <2>2, <2>4, <2>5, <2>6, <2>7
<1> QED BY <1>2, <1>3

(* Every page vme.c took is a table of exactly one live space or of the    *)
(* kernel, for any number of spaces, pages and indices: teardown frees the *)
(* tables of its space, once, and neither the user's pages nor the tables  *)
(* of the kernel.                                                          *)
THEOREM TablesKept == X86VmeSpec => []TablesExact
<1>1. X86Init => VmeInv
  BY VmeInitInv
<1>2. VmeInv /\ [X86Next]_x86vars => VmeInv'
  BY VmeNextInv
<1>3. VmeInv => TablesExact
  BY VmeInvTables
<1> QED BY <1>1, <1>2, <1>3, PTL DEF X86VmeSpec

SpaceShown ==
  /\ \A t \in Spaces : space[t] = IF t \in live THEN SeenBy(pt, ptr, t) ELSE NULL
  /\ \A t \in live : SpaceOk(pt, ptr, t)

(* The processor's view of the spaces, by the tables.                      *)
LEMMA SpaceIs == VmeInv => SpaceShown
<1> SUFFICES ASSUME VmeInv
             PROVE  SpaceShown
  OBVIOUS
<1>1. space = View /\ \A s \in live : SpaceOk(pt, ptr, s)
  BY DEF VmeInv, Mem
<1> QED BY <1>1, SeenIs DEF View, SpaceShown

Stored(old, new, va, pa, w) ==
  /\ va \in UserVa \ DOMAIN old
  /\ new = [v \in DOMAIN old \cup {va} |-> IF v = va THEN [to |-> pa, write |-> w] ELSE old[v]]
Erased(old, new, va) ==
  va \in DOMAIN old /\ new = [v \in DOMAIN old \ {va} |-> old[v]]

(* What is reached decides what is seen.                                   *)
LEMMA SeenSame ==
  ASSUME NEW m, NEW r, NEW s, NEW m2, NEW r2,
         \A v \in UserVa : Reach(m2, r2, s, v) = Reach(m, r, s, v)
  PROVE  SeenBy(m2, r2, s) = SeenBy(m, r, s)
<1>1. {v \in UserVa : Reach(m2, r2, s, v).p} = {v \in UserVa : Reach(m, r, s, v).p}
  OBVIOUS
<1> QED BY <1>1 DEF SeenBy

(* The page that map adds.                                                 *)
LEMMA SeenStored ==
  ASSUME NEW m, NEW r, NEW s, NEW m2, NEW r2, NEW va \in UserVa, NEW pa \in Data, NEW w \in BOOLEAN,
         ~Reach(m, r, s, va).p,
         \A v \in UserVa : Reach(m2, r2, s, v) = IF v = va THEN Entry(pa, TRUE, w) ELSE Reach(m, r, s, v)
  PROVE  Stored(SeenBy(m, r, s), SeenBy(m2, r2, s), va, pa, w)
<1> DEFINE e == Entry(pa, TRUE, w)
<1>1. e.p = TRUE /\ e.to = pa /\ e.w = w
  BY DEF Entry
<1> HIDE DEF e
<1>2. DOMAIN SeenBy(m, r, s) = {v \in UserVa : Reach(m, r, s, v).p}
  BY DEF SeenBy
<1>3. \A v \in UserVa : Reach(m2, r2, s, v) = IF v = va THEN e ELSE Reach(m, r, s, v)
  BY DEF e
<1>4. {v \in UserVa : Reach(m2, r2, s, v).p} = DOMAIN SeenBy(m, r, s) \cup {va}
  BY <1>1, <1>2, <1>3
<1>5. SeenBy(m2, r2, s) = [v \in DOMAIN SeenBy(m, r, s) \cup {va} |->
                            [to |-> Reach(m2, r2, s, v).to, write |-> Reach(m2, r2, s, v).w]]
  BY <1>4 DEF SeenBy
<1>6. ASSUME NEW v \in DOMAIN SeenBy(m, r, s)
      PROVE  v # va /\ SeenBy(m, r, s)[v] =
               [to |-> Reach(m2, r2, s, v).to, write |-> Reach(m2, r2, s, v).w]
  BY <1>2, <1>3 DEF SeenBy
<1>7. [to |-> Reach(m2, r2, s, va).to, write |-> Reach(m2, r2, s, va).w] = [to |-> pa, write |-> w]
  BY <1>1, <1>3
<1> QED BY <1>2, <1>5, <1>6, <1>7 DEF Stored

(* The page that map with MMAP_NONE takes away.                            *)
LEMMA SeenErased ==
  ASSUME NEW m, NEW r, NEW s, NEW m2, NEW r2, NEW va \in UserVa, Reach(m, r, s, va).p,
         \A v \in UserVa : Reach(m2, r2, s, v) = IF v = va THEN Empty ELSE Reach(m, r, s, v)
  PROVE  Erased(SeenBy(m, r, s), SeenBy(m2, r2, s), va)
<1>1. DOMAIN SeenBy(m, r, s) = {v \in UserVa : Reach(m, r, s, v).p}
  BY DEF SeenBy
<1>2. {v \in UserVa : Reach(m2, r2, s, v).p} = DOMAIN SeenBy(m, r, s) \ {va}
  BY <1>1, Recs
<1>3. SeenBy(m2, r2, s) = [v \in DOMAIN SeenBy(m, r, s) \ {va} |->
                            [to |-> Reach(m2, r2, s, v).to, write |-> Reach(m2, r2, s, v).w]]
  BY <1>2 DEF SeenBy
<1>4. ASSUME NEW v \in DOMAIN SeenBy(m, r, s) \ {va}
      PROVE  SeenBy(m, r, s)[v] =
               [to |-> Reach(m2, r2, s, v).to, write |-> Reach(m2, r2, s, v).w]
  BY <1>1 DEF SeenBy
<1> QED BY <1>1, <1>3, <1>4 DEF Erased

(* There is no space at first.                                             *)
LEMMA MapsInit == X86Init => Abstract!Init
<1> SUFFICES ASSUME X86Init
             PROVE  Abstract!Init
  OBVIOUS
<1>1. live = {} /\ space = View
  BY DEF X86Init
<1> QED BY <1>1 DEF View, Abstract!Init

(* Each operation is the step of AddrSpaces it stands for, and one that    *)
(* panics none.                                                            *)
LEMMA MapsStep ==
  ASSUME VmeInv, VmeInv', [X86Next]_x86vars
  PROVE  [Abstract!Next]_space
<1>1. /\ Mem(pt, used, ptr, live) /\ twice = FALSE /\ panic \in BOOLEAN
      /\ \A t \in live : SpaceOk(pt, ptr, t) /\ live \subseteq Spaces
  BY DEF VmeInv, Mem, MemType
<1>2. \A t \in Spaces : space[t] = IF t \in live THEN SeenBy(pt, ptr, t) ELSE NULL
  BY SpaceIs DEF SpaceShown
<1> SpaceShown'
  BY SpaceIs, PTL
<1>3. \A t \in Spaces : space'[t] = IF t \in live' THEN SeenBy(pt', ptr', t) ELSE NULL
  BY DEF SpaceShown
<1>4. \A t \in live' : SpaceOk(pt', ptr', t)
  BY DEF SpaceShown
<1>5. space = [t \in Spaces |-> space[t]] /\ space' = [t \in Spaces |-> space'[t]]
  BY DEF VmeInv, View
<1>6. ASSUME \A t \in Spaces : space'[t] = space[t]
      PROVE  space' = space
  BY <1>5, <1>6
<1>7. CASE UNCHANGED x86vars
  BY <1>7 DEF x86vars
<1>8. CASE X86Next
  <2>1. PICK s \in Spaces :
          \/ protect(s) \/ unprotect(s)
          \/ \E va \in UserVa : unmap(s, va) \/ \E pa \in Data, w \in BOOLEAN : map(s, va, pa, w)
    BY <1>8 DEF X86Next
  <2>2. ASSUME Abstract!Change(space[s], space'[s]), \A t \in Spaces \ {s} : space'[t] = space[t]
        PROVE  Abstract!Next
    BY <2>2 DEF Abstract!Next
  <2>3. CASE protect(s)
    <3>1. CASE NoPage
      <4>1. PanicOnPage
        BY <2>3, <3>1 DEF protect
      <4> QED BY <1>2, <1>3, <1>6, <4>1 DEF PanicOnPage
    <3>2. CASE ~NoPage
      <4>1. /\ s \notin live /\ live' = live \cup {s}
            /\ \A v \in UserVa : Reach(pt', ptr', s, v) = Empty
            /\ \A t \in live, v \in UserVa : Reach(pt', ptr', t, v) = Reach(pt, ptr, t, v)
        BY <1>1, <2>3, <3>2, ProtectMem
      <4>2. SeenBy(pt', ptr', s) = Abstract!NoPages
        BY <4>1, Recs DEF SeenBy, Abstract!NoPages
      <4>3. space[s] = NULL /\ space'[s] = Abstract!NoPages
        BY <1>2, <1>3, <4>1, <4>2
      <4>4. ASSUME NEW t \in Spaces \ {s}
            PROVE  space'[t] = space[t]
        BY <1>2, <1>3, <4>1, SeenSame
      <4>5. Abstract!Change(space[s], space'[s])
        BY <4>3 DEF Abstract!Change, Abstract!Protect
      <4> QED BY <2>2, <4>4, <4>5
    <3> QED BY <3>1, <3>2
  <2>4. CASE unprotect(s)
    <3>1. /\ s \in live /\ live' = live \ {s}
          /\ \A t \in live', v \in UserVa : Reach(pt', ptr', t, v) = Reach(pt, ptr, t, v)
      BY <1>1, <2>4, UnprotectMem
    <3>2. space[s] # NULL /\ space'[s] = NULL
      BY <1>1, <1>2, <1>3, <3>1, SeenFits
    <3>3. ASSUME NEW t \in Spaces \ {s}
          PROVE  space'[t] = space[t]
      BY <1>2, <1>3, <3>1, SeenSame
    <3>4. Abstract!Change(space[s], space'[s])
      BY <3>2 DEF Abstract!Change, Abstract!Unprotect
    <3> QED BY <2>2, <3>3, <3>4
  <2>5. ASSUME NEW va \in UserVa, NEW e, UserEntry(e), SetEntry(s, va, e)
        PROVE  \/ space' = space
               \/ /\ Reach(pt, ptr, s, va).p # e.p
                  /\ \A v \in UserVa :
                       Reach(pt', ptr', s, v) = IF v = va THEN e ELSE Reach(pt, ptr, s, v)
                  /\ space[s] = SeenBy(pt, ptr, s) /\ space'[s] = SeenBy(pt', ptr', s)
                  /\ space[s] # NULL /\ space'[s] # NULL
                  /\ \A t \in Spaces \ {s} : space'[t] = space[t]
    <3>1. /\ s \in live /\ live' = live
          /\ \/ \A t \in live, v \in UserVa : Reach(pt', ptr', t, v) = Reach(pt, ptr, t, v)
             \/ /\ Reach(pt, ptr, s, va).p # e.p
                /\ \A t \in live, v \in UserVa :
                     Reach(pt', ptr', t, v) = IF t = s /\ v = va THEN e ELSE Reach(pt, ptr, t, v)
      <4>1. s \in live /\ UNCHANGED <<twice, live>>
        BY <1>1, <2>5, SetEntryMem
      <4>2. \/ \A t \in live, v \in UserVa : Reach(pt', ptr', t, v) = Reach(pt, ptr, t, v)
            \/ /\ Reach(pt, ptr, s, va).p # e.p
               /\ \A t \in live, v \in UserVa :
                    Reach(pt', ptr', t, v) = IF t = s /\ v = va THEN e ELSE Reach(pt, ptr, t, v)
        BY <1>1, <2>5, SetEntryMem
      <4> QED BY <4>1, <4>2
    <3>2. CASE \A t \in live, v \in UserVa : Reach(pt', ptr', t, v) = Reach(pt, ptr, t, v)
      <4>1. ASSUME NEW t \in Spaces
            PROVE  space'[t] = space[t]
        BY <1>2, <1>3, <3>1, <3>2, SeenSame
      <4> QED BY <1>6, <4>1
    <3>3. CASE /\ Reach(pt, ptr, s, va).p # e.p
               /\ \A t \in live, v \in UserVa :
                    Reach(pt', ptr', t, v) = IF t = s /\ v = va THEN e ELSE Reach(pt, ptr, t, v)
      <4>1. space[s] = SeenBy(pt, ptr, s) /\ space'[s] = SeenBy(pt', ptr', s)
        BY <1>2, <1>3, <3>1
      <4>2. space[s] # NULL /\ space'[s] # NULL
        BY <1>1, <1>4, <3>1, <4>1, SeenFits
      <4>3. ASSUME NEW t \in Spaces \ {s}
            PROVE  space'[t] = space[t]
        BY <1>2, <1>3, <3>1, <3>3, SeenSame
      <4>4. \A v \in UserVa : Reach(pt', ptr', s, v) = IF v = va THEN e ELSE Reach(pt, ptr, s, v)
        BY <3>1, <3>3
      <4> QED BY <3>3, <4>1, <4>2, <4>3, <4>4
    <3> QED BY <3>1, <3>2, <3>3
  <2>6. ASSUME NEW va \in UserVa, unmap(s, va)
        PROVE  [Abstract!Next]_space
    <3>1. CASE space' = space
      BY <3>1
    <3>2. CASE space' # space
      <4>1. /\ Reach(pt, ptr, s, va).p # Empty.p
            /\ \A v \in UserVa :
                 Reach(pt', ptr', s, v) = IF v = va THEN Empty ELSE Reach(pt, ptr, s, v)
            /\ space[s] = SeenBy(pt, ptr, s) /\ space'[s] = SeenBy(pt', ptr', s)
            /\ space[s] # NULL /\ space'[s] # NULL
            /\ \A t \in Spaces \ {s} : space'[t] = space[t]
        BY <2>5, <2>6, <3>2, MapEntries DEF unmap
      <4>2. Reach(pt, ptr, s, va).p
        <5>1. UserEntry(Reach(pt, ptr, s, va)) /\ Empty.p = FALSE
          <6>1. s \in live
            BY <2>6 DEF unmap, SetEntry
          <6> QED BY <1>1, <6>1, ReachType, Recs
        <5>2. Reach(pt, ptr, s, va) # Empty
          BY <4>1
        <5> QED BY <5>1, <5>2 DEF UserEntry, Entry
      <4>3. Erased(space[s], space'[s], va)
        BY <4>1, <4>2, SeenErased
      <4>4. Abstract!Change(space[s], space'[s])
        BY <4>1, <4>3 DEF Abstract!Change, Abstract!Unmap, Erased
      <4> QED BY <2>2, <4>1, <4>4
    <3> QED BY <3>1, <3>2
  <2>7. ASSUME NEW va \in UserVa, NEW pa \in Data, NEW w \in BOOLEAN, map(s, va, pa, w)
        PROVE  [Abstract!Next]_space
    <3> DEFINE e == Entry(pa, TRUE, w)
    <3>1. UserEntry(e) /\ e.p = TRUE /\ SetEntry(s, va, e)
      BY <2>7, MapEntries DEF map, Entry
    <3> HIDE DEF e
    <3>2. CASE space' = space
      BY <3>2
    <3>3. CASE space' # space
      <4>1. /\ Reach(pt, ptr, s, va).p # e.p
            /\ \A v \in UserVa :
                 Reach(pt', ptr', s, v) = IF v = va THEN e ELSE Reach(pt, ptr, s, v)
            /\ space[s] = SeenBy(pt, ptr, s) /\ space'[s] = SeenBy(pt', ptr', s)
            /\ space[s] # NULL /\ space'[s] # NULL
            /\ \A t \in Spaces \ {s} : space'[t] = space[t]
        BY <2>5, <3>1, <3>3
      <4>2. ~Reach(pt, ptr, s, va).p
        BY <3>1, <4>1
      <4>3. Stored(space[s], space'[s], va, pa, w)
        BY <4>1, <4>2, SeenStored DEF e
      <4>4. Abstract!Map(space[s], space'[s])
        BY <4>1, <4>3 DEF Abstract!Map, Stored
      <4>5. Abstract!Change(space[s], space'[s])
        BY <4>4 DEF Abstract!Change
      <4> QED BY <2>2, <4>1, <4>5
    <3> QED BY <3>2, <3>3
  <2> QED BY <2>1, <2>3, <2>4, <2>6, <2>7
<1> QED BY <1>7, <1>8

(* What user code of a space can reach, by the processor's walk of the     *)
(* tables, only map changes: vme.c's protect, unprotect and map implement  *)
(* AddrSpaces.                                                             *)
THEOREM MapsAsTold == X86VmeSpec => X86Maps
<1>1. X86Init => VmeInv /\ Abstract!Init
  BY VmeInitInv, MapsInit
<1>2. VmeInv /\ [X86Next]_x86vars => VmeInv'
  BY VmeNextInv
<1>3. VmeInv /\ VmeInv' /\ [X86Next]_x86vars => [Abstract!Next]_space
  BY MapsStep
<1> QED BY <1>1, <1>2, <1>3, PTL DEF X86VmeSpec, X86Maps, Abstract!Spec
=============================================================================
