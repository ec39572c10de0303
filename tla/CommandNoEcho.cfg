SPECIFICATION Spec
CONSTANTS
  Writes <- AllWrites
  HasRelay = TRUE
  FirstBaud = 115200
  MaxLinks = 2
  MaxWrites = 3
  MaxBoots = 0
CHECK_DEADLOCK FALSE
INVARIANTS
  NoEchoNotApplied
