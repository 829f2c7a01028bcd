CONSTANTS
  Blocks = {b1, b2, b3}
  NoBlock = none
  Pages = {1, 2, 3}
  Regions = {{2}, {1, 2}, {2, 3}}
SPECIFICATION Spec
SYMMETRY Symmetry
INVARIANTS
  Protected
  GivenBack
