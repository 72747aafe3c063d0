SPECIFICATION Spec
CONSTANTS
  p = p
  q = q
  h1 = h1
  h2 = h2
  Names = {p}
  Handlers = {h1, h2}
  Owns <- Shared
  MaxInst = 2
  MaxConns = 1
  MaxCrashes = 0
  IOErrors = FALSE
INVARIANTS
  RegisteredHasSocket
CHECK_DEADLOCK FALSE
