SPECIFICATION FairSpec
CONSTANTS
  Bauds = {B9600, B115200}
  FirstBaud = B115200
  NumBufs = 2
  TxCap = 3
  TxBuf = 2
  MaxBytes = 3
  MaxFaults = 2
INVARIANTS
  SlabConserved
  RxRecoverable
  OneTransfer
  TxAccounted
  TxPumped
PROPERTIES
  RxNeverDead
  ConfiguredQuiet
