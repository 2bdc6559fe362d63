SPECIFICATION ProcessSpec

CONSTANTS
  sveltos1 = sveltos1
  capi1 = capi1
  s1 = s1
  Clusters = {sveltos1, capi1}
  KindOf <- MCKindOf
  Shards = {s1}
  NoShard = NoShard
  NumComponents = 2
  None = None
  Moves <- ForwardMoves
  MaxEdits = 1
  MaxRetries = 1
  Upgrades = FALSE
  OtherCrds = 1
  MaxFaults = 1
  MaxChanges = 1

INVARIANTS
  TypeOK
  NothingMissed
  SettledServed

PROPERTIES
  EventuallyReconciling
  EventuallySettled
  KeepsFleet
  EventuallyServed
