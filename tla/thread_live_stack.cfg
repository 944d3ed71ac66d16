SPECIFICATION Spec
CONSTANTS
  r1 = r1  r2 = r2  a1 = a1   c1 = c1
  Regions = {r1, r2}
  MaxPages = 3
  Sizes = {0}
  DefaultPages = 2
  Storage = 1
  MmapMayFail = FALSE
  MaxStarts = 1
  Callers = {c1}
  Args = {a1}
  NoResult = NoResult
  NoHead = NoHead
INVARIANTS NoFault
CHECK_DEADLOCK FALSE
