SPECIFICATION Spec
CONSTANTS
  c1 = c1
  c2 = c2
  Clients <- MCOneClient
  Kinds <- MCFiveKinds
  Ops <- MCOps
  JobActions <- MCNoValidation
  SetFile <- MCPlainFiles
  MaxPolls = 1
  MaxCalls = 3
  MaxEvents = 1
PROPERTY ForceDeletes
