\* Every kind of key, held and released in any order.
CONSTANTS
  r1 = r1  r2 = r2
  Reader = {r1}
  Keys = {"a", "CAPSLOCK", "LCTRL", "LSHIFT"}
  NEVENTS = 2
  KeysAhead = 2
  IrqsAhead = 1
  NULL = NULL
SPECIFICATION Spec
PROPERTY TypedAsPressed
\* A failed panic_on halts the machine.
CHECK_DEADLOCK FALSE
