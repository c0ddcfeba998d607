SPECIFICATION FairSpec
CONSTANTS
  distro = distro
  good = good
  bad = bad
  Builds = {good, bad}
  Distro = distro
  Version <- MCVersion
  Bootable = {distro, good}
  MaxRecords = 3
INVARIANTS
  
  InstalledIsRecorded
  RolledBackIsGone

  
