SPECIFICATION Spec
CONSTANTS
  Speeds <- SomeSpeeds
  Qualities = {4}
  Reports = {sprayer}
  QualityMax = 8
  ConflictInterval = 2
  GnssTimeout = 2
  GnssInterval = 2
  MaxDisturbances = 2
  Configurations <- Few
  ClaimDelay = 2
  MaxClaimWait = 2
INVARIANTS
  LostFixIsSent
  QuietAfterClaim
  StopsCleanly
PROPERTIES
  ConflictCatchesUp
  HeartbeatCatchesUp
  BusSpeedCatchesUp
  ClaimFailureIsReported
  SignalEnds
