SPECIFICATION QpSpec
CONSTANTS
  ClzOfZero = 63
  PoolSize = 64
  ParamLists <- MCParamLists
  QueryMaps <- FromBase64Maps
  None = None
  ProcNil = ProcNil
  Inherit = Inherit
  NotACoder = NotACoder
INVARIANT WritesFit
CHECK_DEADLOCK FALSE
