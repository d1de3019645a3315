\* Three pages over an arena of two, of which two can be mapped at once.
SPECIFICATION FairSpec
CONSTANTS
  PageCount = 3
  MappedLimit = 2
  FaultBatch = 2
  Region = {arena}
  RegionPages = 2
  NoSource = NoSource
  Thread = {t1}
INVARIANTS
  TableMatchesKernel
PROPERTY
  ImplementsView
  FaultsAreAnswered
