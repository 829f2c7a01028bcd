CONSTANTS
  Cli = {c}
  Gui = {}
  Ui = {u}
  PowerLoss = TRUE
  MaxGen = 3
  MaxBlock = 2
  MaxDraw = 1
  MaxFault = 2
SPECIFICATION Spec
INVARIANTS
  StaleOutboxNeverMatches
  LockExclusive
  VaultOpenable
PROPERTIES
  HandedOutAfterFlush
