SPECIFICATION MCSpec
CONSTANTS
  Kinds <- PlainKinds
  Setups <- PresetBinary
  MaxStatements = 1
  MaxInterrupts = 0
  MaxData = 1
INVARIANT CoderRestored
CHECK_DEADLOCK FALSE
