SPECIFICATION Spec
CONSTANTS
  p1 = p1
  p2 = p2
  snap1 = snap1
  snap2 = snap2
  lvm1 = lvm1
  Target <- MCTarget
  Sources <- MCFewSources
  Pods <- MCPods
  CrdSets <- MCCrdSets
  Options <- MCPlainOptions
  BackoffLimit = 2
INVARIANT PartialRebuildRespected
