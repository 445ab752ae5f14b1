-------------------------------- MODULE MCPmm -------------------------------
(* Instances of Pmm for TLC. *)
EXTENDS PmmInd, TLC

CONSTANTS t1, t2

\* One thread per CPU, as the kernel runs before it has threads.
OwnCpu == t1 :> 0 @@ t2 :> 1
OneThread == t1 :> 0
=============================================================================
