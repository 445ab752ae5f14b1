\* x86 vme: two spaces with two tables of two pages each, and too few page
\* frames for all of them.  native vme: two processors, two spaces, two pages.
\* cte: two processors, a kernel thread and a user thread, and on x86 a trap
\* that comes before the cli of another.
CONSTANTS
  s1 = s1  s2 = s2
  f1 = f1  f2 = f2  f3 = f3  f4 = f4  f5 = f5  f6 = f6  d1 = d1
  c1 = c1  c2 = c2  k1 = k1  u1 = u1
  NULL = NULL
  Spaces = {s1, s2}
  Frame = {f1, f2, f3, f4, f5, f6, d1}
  Data = {d1}
  Kernel = {0}
  User = {1, 2}
  Index = {0, 1}
  Cpu = {0, 1}
  VmHead = {s1, s2}
  Page = {1, 2}
  Phys = {d1}
  Prot = {"none", "read"}
  Core = {c1, c2}
  KThread = {k1}
  UThread = {u1}
  Irq = {"timer", "syscall"}
  MaxNest = 2
  Work = 2
  Process = {c1, c2}
  KernelThread = {k1}
  UserThread = {u1}
  Signo = {"SIGUSR2", "SIGVTALRM", "fault"}
  Steps = 2
SPECIFICATION Spec
INVARIANTS TablesExact NativeShows RunsAsSaved EventMatches
PROPERTY X86Maps
\* A panic halts the machine.
CHECK_DEADLOCK FALSE
