SPECIFICATION FairSpec
CONSTANTS
  MaxEvents = 5
  CHANNEL_CAP = 2
  DEGRADED_BUFFER_CAP = 2
  Faults = TRUE
INVARIANTS
  TypeOK
  Accounting
  LatestKeptInOrder
PROPERTIES
  ImplementsLossyLog
  WriterEnds
CHECK_DEADLOCK FALSE
