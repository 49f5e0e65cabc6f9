SPECIFICATION RoSpec
CONSTANTS
  Objs = {o1, o2, o3}
  Ptrs = {p1, p2, p3}
  Null = Null
  NoObj = NoObj
  ClearInEach = FALSE
SYMMETRY Symmetry
INVARIANT ResultsOwned
INVARIANT NoUseAfterClear
CHECK_DEADLOCK FALSE
