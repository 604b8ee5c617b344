SPECIFICATION SystemSpec
CONSTANTS
  c1 = c1
  p1 = p1
  crd1 = crd1
  Clients <- MCClients
  Kinds <- MCKinds
  Ops <- MCOps
  SetFile <- MCSetFile
  JobActions <- MCJobActions
  Target <- MCTarget
  Sources <- MCSources
  Pods <- MCPods
  CrdSets <- MCCrdSets
  Options <- MCOptions
  BackoffLimit = 1
  MaxPolls = 1
  MaxCalls = 3
  MaxEvents = 2
VIEW MCView
INVARIANTS
  StatusTellsTruth
  RefusedJobIsSilent
PROPERTIES
  NewJobStartsCovered
  PlainDeleteAfterCompletion
