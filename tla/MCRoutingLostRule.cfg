SPECIFICATION Spec
CONSTANTS
  FailClosed = TRUE
  MaxRepairs = 1
  MaxFaults = 1
INVARIANT
  LostRuleIsSeen
