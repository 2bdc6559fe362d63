SPECIFICATION Spec

CONSTANTS
  Options <- MCOptions
  Shards = {"a #b", "b"}
  Rendered <- MCRendered
  Keys = {x1, x2}
  Labels = {v1, v2}
  Targets = {{1, 4}}
  NoLabel = NoLabel
  NoTarget = NoTarget
  Hole = Hole
  None = None
  Invalid = Invalid
  MaxCalls = 3
  MaxEdits = 1

SYMMETRY Symmetry

CHECK_DEADLOCK FALSE

INVARIANTS
  TypeOK
  ArgumentsKept
  AgentOptionPassed
  ConfigsPassed
  PatchesReach
  CompleteSets
  

PROPERTIES
  OtherShardsKept
  RedeployStable
