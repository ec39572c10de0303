SPECIFICATION TimedSpec
CONSTANTS
  Phones = {A}
  NoPhone = NoPhone
  HasRelay = TRUE
  MaxLinks = 3
  MaxFaults = 1
  MaxBoots = 0
  RetryDelay = 1
  FastDuration = 2
  Window = 3
  Grace = 2
INVARIANTS
  ReleasedAfterGrace
