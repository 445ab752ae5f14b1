\* POOL can be full: main and three coroutines in four slots.
CONSTANTS
  co_main = co_main  c1 = c1  c2 = c2  c3 = c3
  Co = {co_main, c1, c2, c3}
  MAXCO = 4
  NULL = NULL
SPECIFICATION FairSpec
INVARIANTS PoolExact WaiterSound NoHang
PROPERTY Served
