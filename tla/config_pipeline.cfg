SPECIFICATION Spec
CONSTANTS
  Symbols <- MCSymbols
  Texts = {"stock", "mine", "PRE"}
  Modules <- MCModules
  Canonical <- MCCanonical
  Candidates <- MCCandidates
  BuiltBy <- MCBuiltBy
  Blocklist = {}
  Hosts <- MCHosts
  Advice <- MCAdvice
  Vetoed = {"PRE"}
  Fragile = {"LTO_THIN", "LTO_FULL", "BBR"}
  LtoNone = "LTO_NONE"
  LtoThin = "LTO_THIN"
  LtoFull = "LTO_FULL"
  LtoDerived = {"LTO"}
  ObjtoolWerror = "WERROR"
  Commands <- MCCommands
  LocalVersion = "REL"
  NoFile = NoFile
  MaxBuilds = 1
CHECK_DEADLOCK FALSE
INVARIANTS
  PreparedAsAsked
  ModulesInUseSurvive
PROPERTIES
  LoadBearingWritten
  FragmentIsTheReview
