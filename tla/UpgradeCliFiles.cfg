SPECIFICATION Spec
CONSTANTS
  c1 = c1
  c2 = c2
  Clients <- MCOneClient
  Kinds <- MCFiveKinds
  Ops <- MCOps
  JobActions <- MCNoValidation
  SetFile <- MCSetFile3
  MaxPolls = 1
  MaxCalls = 3
  MaxEvents = 1
INVARIANT JobUsesItsOwnFiles
