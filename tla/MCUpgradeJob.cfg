SPECIFICATION Spec
CONSTANTS
  p1 = p1
  p2 = p2
  snap1 = snap1
  snap2 = snap2
  lvm1 = lvm1
  Target <- MCTarget
  Sources <- MCSources
  Pods <- MCPods
  CrdSets <- MCCrdSets
  Options <- MCOptions
  BackoffLimit = 2
SYMMETRY MCSymmetry
INVARIANTS
  TypeOK
  SuccessIsComplete
  SuccessEventHolds
PROPERTIES
  BrokenReleaseFrozen
  OldLokiGone
  HookNeverStuck
  ForeignCrdsRespected
  OwnedCrdsKept
  NoDowngrade
  ControlPlaneFirst
  ImplementsContract
