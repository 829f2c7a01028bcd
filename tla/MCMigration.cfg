CONSTANTS
  MaxFault = 3
  MaxSeal = 4
SPECIFICATION Spec
CHECK_DEADLOCK FALSE
INVARIANTS
  NeverLockedOut
PROPERTIES
  NothingLeftBehind
