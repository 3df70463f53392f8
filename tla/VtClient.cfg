SPECIFICATION Spec
CONSTANTS
  Main = main
  Can = can
  Subnets = {5, 7}
  Edits <- UserFiles
  Facts <- TwoFacts
  StatusInterval = 1
  WarningAfter = 2
  MaxDisturbances = 3
INVARIANTS
  SendingFollowsSetting
PROPERTIES
  SettingsAreAtomic
  StringsCatchUp
  ConfigCatchesUp
  MissingTerminalIsReported
