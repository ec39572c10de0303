SPECIFICATION Spec
CONSTANTS
  Leds = {"connected", "advertising", "error"}
  HoldPolls = 3
  MaxLinks = 2
  MaxFaults = 2
CHECK_DEADLOCK FALSE
INVARIANTS
  LedsShowLink
