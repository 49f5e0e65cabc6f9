SPECIFICATION Spec
CONSTANTS
  Request = 5
  Answer = 3
  Capacity = 2
  Timeouts <- MCTimeouts
  Forever = Forever
  MaxNotes = 2
  MaxNoise = 1
  MaxQueries = 1
  MaxFlush = 1
  MaxStops = 1
  StartBy = 1
  ConnectTimeout = 2
  MaxSockets = 4
  Handlers = {h1, h2}
  NoHandler = NoHandler
  Descriptors = {3, 4}
  NoFd = NoFd
  EncTable <- MCEncTable
  ServerDefault = "UTF8"
  DefaultInternal = "EUC-JP"
  NoEncoding = NoEncoding
  ResetNonblocking = TRUE
INVARIANT ModeAgrees
CHECK_DEADLOCK FALSE
