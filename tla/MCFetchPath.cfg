SPECIFICATION FairSpec
CONSTANTS
  a = a
  b = b
  v = v
  c1 = c1
  r1 = r1
  r2 = r2
  Names = {a, b}
  Values = {v}
  Caps <- MCCaps
  TTLs <- MCTTLs
  TicksPerSec = 1
  MaxTime = 2
  Conns = {c1}
  Reloaders = {r1}
  Rotators = {r2}
  Manifests <- MCManifests
  Defaults <- MCDefaults
  MaxVersions = 2
INVARIANTS
  TypeOK
  AuditMatchesReply
  BoundsFollowManifest
  ReloadTakesEffect
  RotationTakesEffect
PROPERTIES
  ImplementsGate
  GetsFinish
