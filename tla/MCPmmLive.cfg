\* Two slab classes and one free page that a new slab and a one-page block
\* compete for; too large requests are refused.
CONSTANTS
  t1 = t1  t2 = t2
  Thread = {t1, t2}
  NCPU = 2
  cpu_current <- OwnCpu
  GPAGE_SZ = 16
  META_SZ = 6
  MAX_ALLOC = 32
  HDR = 7
  MIN_SZ = 2
  SLAB_SIZE = 2
  GP = 1
  HeapSize = 80
  Requests = {3, 8, 33}
  Uninit = {TRUE, FALSE}
  NULL = NULL
SPECIFICATION FairSpec
INVARIANT IInv
PROPERTIES Refines Drains
