SPECIFICATION Spec
SYMMETRY Sym
CONSTANTS
  AllStrings = AllStrings
  o1 = o1
  o2 = o2
  k1 = k1
  r1 = r1
  k2 = k2
  c1 = c1
  c2 = c2
  OidMaps = {o1, o2}
  ColumnMaps <- MCColumnMaps
  Results <- MCResults
  Coders = {c1, c2}
  NoCoder = NoCoder
  OidOf <- MCOidOf
  CacheSize = 1
  MaxRows = {1, 2}
  Changes = 4
  Base = Base
  Mixin = Mixin
  Derived = Derived
  Classes = {Base, Mixin, Derived}
  Encoders = {e1, e2}
  Procs = {proc}
  Nil = Nil
  Addresses = {1, 2, 3, 4}
  Slots = 2
  Lineages <- MCLineages
  NameLists <- MCNameLists
  Threads = {t1, t2}
  TypeMaps = {m1, m2}
  Undef = Undef
  MaxCalls = 2
  ClzOfZero = 63
  PoolSize = 64
  ParamLists <- MCParamLists
  QueryMaps <- MCQueryMaps
  None = None
  ProcNil = ProcNil
  Inherit = Inherit
  NotACoder = NotACoder
INVARIANT ReadsFitColumns
INVARIANT ReadsLiveCoder
INVARIANT OidCacheAgrees
INVARIANT ClassCacheAgrees
INVARIANT DetachedComplete
INVARIANT TupleValuesFixed
INVARIANT EncodersObey
INVARIANT WritesFit
INVARIANT ParamsIntact
INVARIANT AskedColumnExists
CHECK_DEADLOCK FALSE
