SPECIFICATION FairSpec
CONSTANTS
  Settings <- AuthSession
  ReportedStates <- MCReportedStates
  MaxReports = 1
  MaxNoise <- NoNoise
  MaxInbox = 1
PROPERTIES
  TimeoutIsWallClockLimit
