\* heap.end is no multiple of the block size: page 3 is the last of the heap
\* and starts the aligned two-page run 3 .. 4.
CONSTANTS
  t1 = t1  t2 = t2
  Thread = {t1}
  NCPU = 1
  cpu_current <- OneThread
  GPAGE_SZ = 16
  META_SZ = 6
  MAX_ALLOC = 32
  HDR = 11
  MIN_SZ = 2
  SLAB_SIZE = 1
  GP = 1
  HeapSize = 64
  Requests = {20}
  Uninit = {TRUE, FALSE}
  NULL = NULL
SPECIFICATION Spec
INVARIANT InHeap
