CONSTANTS
  u1 = u1
  u2 = u2
  o = o
  userns = userns
  old = old
  f = f
  fix = fix
  Main = Main
  Detached = Detached
  Patches <- MCPatches
  Rewrites <- MCRewrites
  Brushes <- MCBrushes
  Stuck <- MCStuck
  Sets <- MCSets
  Series <- MCSeries
  Declares <- MCDeclares
  Wants <- MCWants
  LastRelease = 2
  Upstream <- MCUpstream
  MaxCommands = 3
  MaxNames = 2
SPECIFICATION Spec
INVARIANTS
  FailedApplyRestores
  AppliedIsCarried
  PresentSetsPass
CHECK_DEADLOCK FALSE
