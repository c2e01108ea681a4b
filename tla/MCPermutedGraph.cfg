SPECIFICATION Spec
CONSTANTS
  n = 4
  Graphs <- MCGraphs
  DifferenceWraps = FALSE
  SizeTypeSize = 8
  Nobody = Nobody
  MaxPrunes = 1
INVARIANTS
  ViewsAreCurrent
  AutomorphismsAreReal
  CanonicalOrder
