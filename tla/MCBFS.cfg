SPECIFICATION FairSpec
CONSTANTS
  Trees <- TreesOfShape
  Shape = "all"
  Visitors = {0, 1, 2}
  PerLevel = {1}
  MaxDepth = 3
  NoNode = NoNode
  SizeTypeSize = 256
INVARIANTS
  BfsTypeOK
  RecordAgrees
  PathNotPruned
  CanonicalLeafFound
  KeptAreReleased
  MemoryIsLimited
PROPERTIES
  KeepsPromise
  Terminates
