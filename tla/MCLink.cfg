SPECIFICATION Spec
CONSTANTS
  Phones = {A, B}
  NoPhone = NoPhone
  HasRelay = TRUE
  MaxLinks = 3
  MaxFaults = 1
  MaxBoots = 1
SYMMETRY Symmetry
INVARIANTS
  TypeOK
  OneAdvertiser
  RestartComing
  AcceptListNotInUse
  OwnerAdmitted
  OwnerOnly
  NoStalePointer
  SecureOnly
  WatchdogArmed
  RelayCovered
PROPERTIES
  OwnerKeepsRelay
  IsService
