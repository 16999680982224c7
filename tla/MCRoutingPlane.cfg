SPECIFICATION FairSpec
CONSTANTS
  FailClosed = TRUE
  MaxRepairs = 2
  MaxFaults = 2
INVARIANTS
  MarkedNeverDirect
  CleanAfterRepair
PROPERTIES
  RepairedOrGivenUp
