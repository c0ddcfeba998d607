SPECIFICATION SmokeSpec
CONSTANTS
  v12 = v12
  v125 = v125
  Versions = {v12, v125}
  MajorMinor <- MCMajorMinor
  NoVersion = NoVersion
  NoFile = NoFile
  GivenTrees = {v125}
  Options <- MCOptions
  InitialDeps <- MCInitialDeps
  Settings = {"grub_default_saved"}
  MaxBuilds = 2
  MaxFaults = 1
PROPERTIES InstallsWhatItTested CandidateInstallsDeps FailedTestIsNotFinal
