\* The daemon alone on two ttys of two lines, or on one with two writers.
CONSTANTS
  w1 = w1  w2 = w2
  Ttys = {1, 2}
  Writer = {w1, w2}
  lines = 2
  columns = 2
  Char = {"x", "y"}
  NULL = NULL
SYMMETRY Alike
SPECIFICATION MCSpec
INVARIANTS Displayed TextShown
PROPERTY Frozen
