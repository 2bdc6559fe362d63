SPECIFICATION RolloutSpec

CONSTANTS
  sveltos1 = sveltos1
  capi1 = capi1
  s1 = s1
  s2 = s2
  Clusters = {sveltos1, capi1}
  KindOf <- MCKindOf
  Shards = {s1, s2}
  NoShard = NoShard
  BadShards = {}
  NumComponents = 2
  Configs = {noConfigMap}
  Unparsable = {}
  Misfits <- NoMisfits
  NoConfigMap = noConfigMap
  None = None
  Moves <- AnyMove
  FaultKinds = {}
  MaxFaults = 0
  MaxChanges = 3
  Patient = TRUE
  CalmMoves <- Joins

SYMMETRY ShardSymmetry

INVARIANTS
  RolloutClean
  RolloutProvisioned

PROPERTIES
  NoOutage
