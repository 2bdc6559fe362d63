SPECIFICATION FairSpec

CONSTANTS
  sveltos1 = sveltos1
  sveltos2 = sveltos2
  capi1 = capi1
  s1 = s1
  s2 = s2
  misfit = misfit
  Clusters = {sveltos1, capi1}
  KindOf <- MCKindOf
  Shards = {s1, s2}
  NoShard = NoShard
  BadShards = {s1}
  NumComponents = 2
  Configs = {noConfigMap, bad}
  Unparsable = {bad}
  Misfits <- MCMisfits
  NoConfigMap = noConfigMap
  None = None
  Moves <- ForwardMoves
  FaultKinds = {"apply", "crash"}
  MaxFaults = 1
  MaxChanges = 2

PROPERTIES
  EventuallyProvisioned
