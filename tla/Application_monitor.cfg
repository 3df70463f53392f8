SPECIFICATION Spec
CONSTANTS
  Names = {sprayer}
  Demands <- Two
  LogInterval = 2
  DemandTimeout = 2
  CheckInterval = 1
  WarningAfter = 3
  ScanInterval = 2
  Oldest = 6
PROPERTIES
  UnaskedWorkIsWarned
  LogCatchesUp
  AnnouncementsCatchUp
