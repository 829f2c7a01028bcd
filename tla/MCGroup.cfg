CONSTANTS
  Members = {a, b, c}
  MaxMembers = 3
  MaxDirect = 1
  MaxBlocks = 2
SPECIFICATION Spec
SYMMETRY Symmetry
INVARIANTS
  StepsHandedOut
  TakenIsRead
