SPECIFICATION Spec
CONSTANTS
  n = 4
  Graphs <- JustPath
  DifferenceWraps = TRUE
  SizeTypeSize = 8
  Nobody = Nobody
  MaxPrunes = 0
INVARIANTS
  CanonicalOrder
