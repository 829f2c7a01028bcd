CONSTANTS
  Cli = {c}
  Gui = {}
  Ui = {}
  PowerLoss = FALSE
  MaxGen = 4
  MaxBlock = 1
  MaxDraw = 1
  MaxFault = 1
SPECIFICATION Spec
INVARIANTS
  FailedCardUnseen
