SPECIFICATION FairSpec
CONSTANTS
  fs = fs
  btf = btf
  snd = snd
  wifi = wifi
  lto = lto
  None = None
  Torn = Torn
  Symbols = {fs, btf, snd, wifi, lto}
  Running = {fs, btf, snd, wifi}
  LoadBearing = {fs, btf}
  Unloaded = {wifi}
  Forced = {}
  Proposals <- MCProposals
  Answers <- MCAnswers
  Size <- MCSize
  Options <- MCOptions
  MaxRounds = 3
  MaxStarts = 2
  MaxVerbs = 2
INVARIANTS
  LoadBearingKept
  HistoryHasNoHoles
  ConvergedIsStable
PROPERTIES
  ImplementsRoundLog
  LoopEnds
CHECK_DEADLOCK FALSE
