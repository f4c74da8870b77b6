SPECIFICATION Spec
CONSTANTS
  row = row
  v3 = v3
  NoCommit = NoCommit
  Commits <- MCCommits
  TDs <- MCTDs
  Fingerprints <- MCFingerprints
  Groups <- MCGroups
  MuslGroups <- MCGroups
  Legs <- MCLegs
  LegGroup <- MCLegGroup
  Tags <- MCTags
  Malformed <- MCMalformed
  MaxRuns = 2
  MaxReruns = 1
  MaxPacks = 1
SYMMETRY MCSymmetry
INVARIANTS TypeOK CompiledOnce StaleArchiveHasCause PublishesWhatSucceeded
