SPECIFICATION Spec
CONSTANTS
  CF = {c1}
  Pools <- ControlPools
  SectionsPerMessage = 2
  DemandSize = 3
  MaxUploads = 1
  ReportedElements = {2, 4}
  ReportedStates <- NoReports
  GnssQualities = {4}
INVARIANTS
  CondensedFollowsDemand
  WorkStateFollowsDemand
  MappedExactlyWhenMeasured
  ElementFollowsDemand
  ElementReportIsReported
