SPECIFICATION FairSpec
CONSTANTS
  p = p
  q = q
  h1 = h1
  h2 = h2
  Names = {p, q}
  Handlers = {h1}
  Owns <- OneClient
  MaxInst = 1
  MaxConns = 1
  MaxCrashes = 0
  IOErrors = FALSE
PROPERTIES
  ShutdownNeverHangs
CHECK_DEADLOCK FALSE
