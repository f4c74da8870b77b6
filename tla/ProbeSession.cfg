SPECIFICATION Spec
CONSTANTS
  Settings <- EverySetting
  ReportedStates <- MCReportedStates
  MaxReports = 3
  MaxNoise <- NoiseIfAnonymous
  MaxInbox = 2
INVARIANTS
  TypeOK
  AtMostOnce
  PingNeedsProxy
  NoLostWakeUp
  VerdictJustified
  ClosedBeforeReturn
PROPERTIES
  ProxyOnlyWhenReady
  KeepsPromise
