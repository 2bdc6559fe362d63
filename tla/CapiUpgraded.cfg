SPECIFICATION FairSpec

CONSTANTS
  MaxRetries = 2
  Upgrades = TRUE
  OtherCrds = 0
  MaxFaults = 2
  MaxChanges = 1

CHECK_DEADLOCK FALSE

PROPERTIES
  EventuallyReconciling
