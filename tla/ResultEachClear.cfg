SPECIFICATION RoSpec
CONSTANTS
  Objs = {o1, o2}
  Ptrs = {p1, p2}
  Null = Null
  NoObj = NoObj
  ClearInEach = TRUE
SYMMETRY Symmetry
INVARIANT NoUseAfterClear
CHECK_DEADLOCK FALSE
