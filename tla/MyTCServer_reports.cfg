SPECIFICATION Spec
CONSTANTS
  CF = {c1}
  Pools <- ReportingModernPools
  SectionsPerMessage = 2
  DemandSize = 1
  MaxUploads = 2
  ReportedElements = {0, 3}
  ReportedStates <- Reports
  GnssQualities = {4}
INVARIANTS
  TypeOK
  TractorUntouched
  MasterOffIsReported
PROPERTIES
  EventuallyMeasured
