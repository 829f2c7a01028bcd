CONSTANTS
  Party = {alice, bob}
  Suites = {4}
  MaxHistory = 2
  Prekeys = 1
  MaxOpen = 3
  MaxReset = 0
  MaxRotate = 1
  MaxCard = 2
  MaxOther = 0
SPECIFICATION FairSpec
CHECK_DEADLOCK FALSE
INVARIANTS
  ConfirmedAgree
PROPERTIES
  Converges
