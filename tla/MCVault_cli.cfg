CONSTANTS
  Cli = {c1}
  Gui = {}
  Ui = {}
  PowerLoss = FALSE
  MaxGen = 4
  MaxBlock = 3
  MaxDraw = 0
  MaxFault = 3
SPECIFICATION FairSpec
INVARIANTS
  TypeOK
  NoStepExportedTwice
  CommittedIsRecoverable
  NoFalseRollback
PROPERTIES
  GenerationAdvances
  KeepsMessageLog
  LockReleased
