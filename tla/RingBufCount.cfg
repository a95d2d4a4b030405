SPECIFICATION Spec
CONSTANTS
  Cap = 2
  Modulus = 4
  MaxSlice = 2
INVARIANT CountIsCurrent
