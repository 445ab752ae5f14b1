\* Two readers, the daemon and interrupts around a ring of three slots.
CONSTANTS
  r1 = r1  r2 = r2
  Reader = {r1, r2}
  Keys = {"a", "1"}
  NEVENTS = 3
  KeysAhead = 1
  IrqsAhead = 1
  NULL = NULL
SPECIFICATION FairSpec
INVARIANT SemExact
PROPERTIES InOrder KeysTaken EventsRead
\* A failed panic_on halts the machine.
CHECK_DEADLOCK FALSE
