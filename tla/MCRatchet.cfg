CONSTANTS
  MaxSkip = 2
  MaxMsg = 7
  MaxWeek = 1
SPECIFICATION Spec
CHECK_DEADLOCK FALSE
INVARIANTS
  TypeOK
  KeysUnique
  ReadOnce
  Readable
  ForgetsUsedKeys
  SkippedBounded
