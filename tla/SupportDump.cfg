SPECIFICATION FairSpec
CONSTANTS
  MaxPages = 3
  MaxFaults = 3
INVARIANTS
  TypeOK
  EveryCollectorTried
  OkMeansCollected
  ErrorsReachCaller
PROPERTY DumpEnds
