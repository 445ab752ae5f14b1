\* The division of 8-bit numbers by halves, the counts of 16-bit ones, and
\* the printing of 5-bit ones, the least and the largest among them.
\* Two crepl sessions of three lines; five processes, one of them with a
\* space in its name, and two more that may come; four names of calls
\* for a table of three.
CONSTANTS
  NULL = NULL
  Args <- Edges
  WORD = 1073741824
  WordBits = 4
  CountBits = 8
  IntBits = 5
  Number = {0, 13, 16, 31}
  Conversion <- Conversions
  Session = {1, 2}
  Func = {"f"}
  MaxLines = 3
  Pid = {1, 2, 3, 4, 5, 6, 7}
  Alive <- Family
  Spaced = {4}
  Spare = 1
  call1 = call1  call2 = call2  call3 = call3  call4 = call4
  Name = {call1, call2, call3, call4}
  Us = {1, 2}
  CALL_SZ = 3
  TOP = 2
  MaxCalls = 4
  Path = 2
SPECIFICATION Spec
INVARIANTS RequestFits DivMod ReadsBack AnswersOwn TreePrinted TableExact
\* Every call and every tool ends, and then nothing is left to do.
CHECK_DEADLOCK FALSE
