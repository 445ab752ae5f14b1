\* A writer on the tty that the daemon switches to.
CONSTANTS
  Ttys = {1, 2}
  Writer = {w1}
  lines = 2
  columns = 2
  Char = {"x"}
  NULL = NULL
SPECIFICATION Spec
INVARIANT TextShown
