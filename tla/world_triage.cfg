SPECIFICATION FairSpec
CONSTANTS
  bash = bash
  nodoc = nodoc
  Units = {bash, curl}
  Remedies = {nodoc}
  Patches = {p1}
  Manifest <- MCManifest
  Flags = {O3}
  None = None
  Torn = Torn
  MaxRounds = 2
  MaxRuns = 2
INVARIANTS
  RemediesConfirmed
PROPERTIES
  ImplementsTable
  GivenUpForThisRun
  FixedStaysFixed
  TriageEnds
CHECK_DEADLOCK FALSE
