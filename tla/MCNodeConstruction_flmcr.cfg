SPECIFICATION Spec
CONSTANTS
  n = 8
  None = None
  Inputs <- NodeInputs
  Refiners <- NodeRefiners
  Selectors = {"flmcr"}
  Size = 8
  Kind = "joined"
INVARIANTS
  TargetIsOfMaxDegree
