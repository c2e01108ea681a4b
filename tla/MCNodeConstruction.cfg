SPECIFICATION Spec
CONSTANTS
  n = 8
  None = None
  Inputs <- NodeInputs
  Refiners <- NodeRefiners
  Selectors = {"f", "fl", "flm", "flmcr"}
  Size = 8
  Kind = "node"
INVARIANTS
  ClaimsAreReal
  BuiltIsStable
  TargetDependsOnCellsOnly
  AutIsReset
  LeftOutAreEquivalent
  CellsServe
