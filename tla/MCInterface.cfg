CONSTANTS
  Aliases = {a, b}
  None = none
  MaxMishap = 1
  Grace = 1
  MaxFiles = 1
SPECIFICATION FairSpec
CHECK_DEADLOCK FALSE
INVARIANTS
  LockLeavesNothing
  VaultWhereNeeded
  SentToChosen
  MarkedAreVerified
PROPERTIES
  KeptUntilDue
  StagedPlaintextGoes
