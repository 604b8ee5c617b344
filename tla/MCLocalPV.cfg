SPECIFICATION Spec
CONSTANTS
  NumVolumes = 3
  NumNodes = 3
  Profiles <- MCProfiles
  NodeGroups <- MCNodeGroups
  MaxEntries = 2
  MaxChanges = 2
INVARIANTS
  TypeOK
  SteadyVolumesListed
  OnlyAskedListed
  FailureExplained
  GroupsOfNodesListed
