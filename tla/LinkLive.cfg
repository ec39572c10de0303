SPECIFICATION FairSpec
CONSTANTS
  Phones = {A}
  NoPhone = NoPhone
  HasRelay = TRUE
  MaxLinks = 2
  MaxFaults = 1
  MaxBoots = 0
PROPERTIES
  Reachable
  UnsecuredLinkEnds
  RelayReleased
