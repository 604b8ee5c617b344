SPECIFICATION Spec
CONSTANTS
  c1 = c1
  c2 = c2
  Clients <- MCClients
  Kinds <- MCTwoKinds
  Ops <- MCOps
  JobActions <- MCJobActions
  SetFile <- MCPlainFiles
  MaxPolls = 1
  MaxCalls = 4
  MaxEvents = 1
SYMMETRY MCSymmetry
INVARIANTS
  TypeOK
  RetryCompletesResources
PROPERTIES
  DeleteIsComplete
  PlainDeleteSparesUnfinished
  PolledEventIsFresh
