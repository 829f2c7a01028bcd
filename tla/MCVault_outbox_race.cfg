CONSTANTS
  Cli = {c1, c2}
  Gui = {}
  Ui = {}
  PowerLoss = FALSE
  MaxGen = 4
  MaxBlock = 2
  MaxDraw = 0
  MaxFault = 2
SPECIFICATION Spec
SYMMETRY Symmetry
INVARIANTS
  ExportedIsCommitted
