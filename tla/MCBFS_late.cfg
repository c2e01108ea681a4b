SPECIFICATION FairSpec
CONSTANTS
  Trees <- TreesOfShape
  Shape = "late"
  Visitors = {0, 1}
  PerLevel = {1}
  MaxDepth = 9
  NoNode = NoNode
  SizeTypeSize = 256
INVARIANTS
  CanonicalLeafFound
