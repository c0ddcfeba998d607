SPECIFICATION FairSpec
CONSTANTS
  libA = libA
  libB = libB
  app = app
  Units = {libA, libB, app}
  Stock = {}
  NDebs = 2
  Keys = {k1, k2}
  Configs <- MCConfigs
  Selections <- MCSelections
  Wave <- MCWave
  Parallel = 2
  MaxRuns = 2
INVARIANTS
  DoneIsServed
  SignedIndexMatchesPool
PROPERTIES
  EarlierWaveInputsStay
  PaidOnce
  ImplementsLedger
  RunEnds
CHECK_DEADLOCK FALSE
