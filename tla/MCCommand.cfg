SPECIFICATION FairSpec
CONSTANTS
  Writes <- AllWrites
  HasRelay = TRUE
  FirstBaud = 115200
  MaxLinks = 3
  MaxWrites = 3
  MaxBoots = 1
CHECK_DEADLOCK FALSE
INVARIANTS
  CorruptionDetected
  EchoMeansApplied
  OneEcho
  OnlyDataForwarded
PROPERTIES
  HandlerReturns
