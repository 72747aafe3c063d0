SPECIFICATION Spec
CONSTANTS
  a = a
  b = b
  v = v
  c1 = c1
  r1 = r1
  r2 = r2
  Names = {a, b}
  Values = {v}
  Caps <- MCCaps
  TTLs <- MCTTLs
  TicksPerSec = 1
  MaxTime = 1
  Conns = {c1}
  Reloaders = {r1, r2}
  Rotators = {}
  Manifests <- MCManifests
  Defaults <- MCDefaults
  MaxVersions = 1
INVARIANTS
  ReloadTakesEffect
