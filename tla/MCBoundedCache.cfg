SPECIFICATION Spec
CONSTANTS
  a = a
  b = b
  c = c
  v = v
  w = w
  Names <- MCNames
  Values <- MCValues
  Caps <- MCCaps
  TTLs <- MCTTLs
  TicksPerSec = 2
  MaxTime = 5
SYMMETRY Symmetry
INVARIANTS
  TypeOK
  HitIsLive
  NeverAboveLargestCap
PROPERTIES
  GrowsOnlyToCap
  OldestLeavesFirst
  RefreshEvictsNothing
  EntryChangesOnlyByRefetch
