SPECIFICATION FairSpec
CONSTANTS
  Kinds <- BlockKinds
  MaxStatements = 4
  MaxInterrupts = 2
  MaxData = 1
INVARIANT TransactionClosed
INVARIANT NotCommittedAfterException
PROPERTY CleanupEnds
CHECK_DEADLOCK FALSE
