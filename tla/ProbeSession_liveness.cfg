SPECIFICATION FairSpec
CONSTANTS
  Settings <- EverySetting
  ReportedStates <- MCReportedStates
  MaxReports = 2
  MaxNoise <- OneNoise
  MaxInbox = 1
PROPERTIES
  DeadlineEndsProbe
