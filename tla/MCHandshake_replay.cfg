CONSTANTS
  Party = {alice, bob}
  Suites = {3, 4}
  MaxHistory = 2
  Prekeys = 1
  MaxOpen = 2
  MaxReset = 2
  MaxRotate = 2
  MaxCard = 2
  MaxOther = 1
SPECIFICATION Spec
CHECK_DEADLOCK FALSE
SYMMETRY Symmetry
INVARIANTS
  TypeOK
  AcceptedOnce
  OneTimeUsedOnce
PROPERTIES
  NoDowngrade
