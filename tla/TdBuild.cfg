SPECIFICATION Spec
CONSTANTS
  dev = dev
  release = release
  tdjson = tdjson
  tdcore = tdcore
  opt = opt
  opt2 = opt2
  musl_local = musl_local
  unset = unset
  Profiles <- MCProfiles
  Envs <- MCEnvs
  Roots <- MCRoots
  MuslLocal <- musl_local
  Unset <- unset
  Machines <- MCMachines
  Archives <- MCArchives
  MaxBuilds = 3
SYMMETRY MCSymmetry
INVARIANTS TypeOK StaticIsStatic NeedsAreNamed ZlibIsTheConfiguredOne
 
