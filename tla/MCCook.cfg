\* Lines of up to three characters and several short ones in a ring of five.
CONSTANTS
  r1 = r1  r2 = r2
  Reader = {r1, r2}
  SZ = 5
  Char = {"x", "y"}
  Counts = {1, 2}
  NULL = NULL
SPECIFICATION FairSpec
PROPERTIES Refines LinesRead
\* "tty queue full" halts the machine.
CHECK_DEADLOCK FALSE
