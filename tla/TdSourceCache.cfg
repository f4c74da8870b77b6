SPECIFICATION Spec
CONSTANTS
  dev = dev
  release = release
  CMakeLists = CMakeLists
  file1 = file1
  Profiles <- MCProfiles
  Files <- MCFiles
  MaxKills = 3
  MaxFaults = 2
SYMMETRY Symmetry
INVARIANTS
  TypeOK
  UsedTreeIsComplete
  PanicHasCause
