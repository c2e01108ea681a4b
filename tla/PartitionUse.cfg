SPECIFICATION Spec
CONSTANTS
  n = 4
INVARIANTS
  AlwaysAgree
