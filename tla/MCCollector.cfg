SPECIFICATION FairSpec
CONSTANTS
  a = a
  b = b
  noEvent = noEvent
  Domains = {a, b}
  NoEvent = noEvent
  PipeCap = 1
  LineBuffer = 1
  MaxBatch = 2
  ReconnectAfter = 2
  MaxRows = 2
  PruneBatch = 1
  Retention = 1
  MaxLines = 3
  MaxClock = 2
  MaxFaults = 2
INVARIANTS
  RecordsAreSound
  HealsInTime
PROPERTIES
  PipeNeverStalls
CHECK_DEADLOCK FALSE
