SPECIFICATION Spec
CONSTANTS
  n = 9
  None = None
  Inputs <- GraphInputs
  Size = 9
  Kind = "loop"
INVARIANTS
  ScratchClean
