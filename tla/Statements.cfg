SPECIFICATION MCFairSpec
CONSTANTS
  Kinds <- PlainKinds
  Setups <- SupportedSetups
  MaxStatements = 3
  MaxInterrupts = 1
  MaxData = 2
 
INVARIANT CoderRestored
PROPERTY ExecIsSerial
PROPERTY CallEnds
PROPERTY RescueEnds
CHECK_DEADLOCK FALSE
