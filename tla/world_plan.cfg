CONSTANTS
  a = a
  b = b
  c = c
  d = d
  gone = gone
  ba = ba
  bb = bb
  bx = bx
  bc = bc
  bd = bd
  by = by
  Sources <- MCSources
  Binaries <- MCBinaries
  Indices <- MCIndices
  Worlds <- MCWorlds
SPECIFICATION Spec
INVARIANTS
  DependenciesFirst
  NoIdleWave
  ForcedByCycles
PROPERTY
  PlanEnds
CHECK_DEADLOCK FALSE
