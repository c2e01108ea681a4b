SPECIFICATION Spec
CONSTANTS
  Leaf = {l1, l2, l3, l4}
  Ranks = {1, 2, 3}
  NoLeaf = NoLeaf
  Inputs <- Rankings
  Leaves <- Ranked
  AtLeast <- NotAfter
INVARIANTS
  Covered
  CandidateIsBest
