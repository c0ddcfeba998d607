SPECIFICATION EnrichSpec
CONSTANTS
  Names <- MCNames
  Hashes = {"a", "b"}
  Trees <- MCTrees
  ScanLimits = {0, 2}
  Commands <- MCCommands
  Answers <- MCAnswers
  MaxAttempts = 2
  TornRow = TornRow
  MaxFaults = 3
  MaxScans = 3
  MaxForced = 1
CHECK_DEADLOCK FALSE
INVARIANTS
  DoneIsComplete
  NotAskedAgain
PROPERTY
  Enriched
