SPECIFICATION FairSpec
CONSTANTS
  n = 6
  None = None
  Inputs <- GraphInputs
  Size = 6
  Kind = "six"
INVARIANTS
  CoarsestReached
  ResultIsTrue
PROPERTIES
  RefinementEnds
