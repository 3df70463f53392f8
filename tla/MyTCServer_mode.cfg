SPECIFICATION Spec
CONSTANTS
  CF = {c1}
  Pools <- ModernPools
  SectionsPerMessage = 2
  DemandSize = 1
  MaxUploads = 1
  ReportedElements = {1}
  ReportedStates <- NoReports
  GnssQualities = {4}
INVARIANTS
  ModePropagated
