SPECIFICATION Spec
CONSTANTS
  Bauds = {B9600, B115200}
  FirstBaud = B115200
  NumBufs = 4
  TxCap = 2
  TxBuf = 2
  MaxBytes = 3
  MaxFaults = 2
INVARIANTS
  StaleBytesDropped
