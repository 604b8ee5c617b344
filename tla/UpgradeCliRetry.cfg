SPECIFICATION FairSpec
CONSTANTS
  c1 = c1
  c2 = c2
  Clients <- MCClients
  Kinds <- MCThreeKinds
  Ops <- MCNoDelete
  JobActions <- MCNoValidation
  SetFile <- MCSetFile
  MaxPolls = 2
  MaxCalls = 4
  MaxEvents = 1
INVARIANT SetFilesResolve
PROPERTIES
  CallsReturn
  AcceptedUpgradeRuns
