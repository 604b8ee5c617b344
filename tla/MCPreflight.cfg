SPECIFICATION Spec
CONSTANTS
  v1 = v1
  v2 = v2
  v3 = v3
  n1 = n1
  Vols <- MCVols
  Single <- MCSingle
  Nodes <- MCNodes
  PageSize = 2
  Flags <- MCFlags
  Tags <- MCTags
  Releases <- MCReleases
  MaxChanges = 2
INVARIANT TypeOK
PROPERTIES
  RebuildNotOverlooked
  SingleReplicaNotOverlooked
  OnlyBypassedWhenOff
  PreflightEnds
