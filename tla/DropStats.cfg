SPECIFICATION Spec
CONSTANTS
  Wrap = 8
  Interval = 3
  MaxDrops = 2
PROPERTIES
  ReportWhenDue
