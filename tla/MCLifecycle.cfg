SPECIFICATION Spec
CONSTANTS
  p = p
  q = q
  h1 = h1
  h2 = h2
  Names = {p, q}
  Handlers = {h1, h2}
  Owns <- OnePerClient
  MaxInst = 2
  MaxConns = 1
  MaxCrashes = 1
  IOErrors = TRUE
INVARIANTS
  TypeOK
  RegisteredIsServed
  NothingOutlivesUnregister
  CleanExit
CHECK_DEADLOCK FALSE
