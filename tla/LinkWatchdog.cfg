SPECIFICATION FairSpec
CONSTANTS
  Phones = {A}
  NoPhone = NoPhone
  HasRelay = FALSE
  MaxLinks = 1
  MaxFaults = 1
  MaxBoots = 0
PROPERTIES
  UnsecuredAlwaysEnds
