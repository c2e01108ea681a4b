SPECIFICATION Spec
CONSTANTS
  n = 8
  None = None
  Inputs <- GraphInputs
  Size = 8
  Kind = "eight"
INVARIANTS
  PartitionAgrees
  ScratchClean
PROPERTIES
  DependsOnCellsOnly
