\* Two CPUs and their slabs (two objects each), with two free pages for
\* new slabs and two-page blocks to compete for.
CONSTANTS
  t1 = t1  t2 = t2
  Thread = {t1, t2}
  NCPU = 2
  cpu_current <- OwnCpu
  GPAGE_SZ = 16
  META_SZ = 5
  MAX_ALLOC = 32
  HDR = 11
  MIN_SZ = 2
  SLAB_SIZE = 1
  GP = 2
  HeapSize = 64
  Requests = {1, 20}
  Uninit = {FALSE}
  NULL = NULL
SPECIFICATION Spec
INVARIANTS NoOverlap AssertsHold SlabsSound NoLeak
PROPERTIES SlabsStay NullOnlyWhenFull
