SPECIFICATION FairSpec

CONSTANTS
  MaxRetries = 2
  Upgrades = FALSE
  OtherCrds = 1
  MaxFaults = 0
  MaxChanges = 0

CHECK_DEADLOCK FALSE

PROPERTIES
  EventuallyRestsWithCrds
