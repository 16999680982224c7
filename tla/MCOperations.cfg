SPECIFICATION Spec
CONSTANTS
  Calls = {c1, c2}
  ExecSlots = 2
  TTLs = {1, 2}
  NoCall = noCall
  Readers = {r1, r2}
  Flights = {f1, f2}
  MaxVersion = 3
  NoFlight = noFlight
  Upgraders = {u1, u2}
  MaxBuild = 3
  Good = {1, 3}
  Nobody = nobody
  Watchdog = watchdog
  MaxUpgrades = 2
  MaxKills = 1
  MaxSilent = 1
  Problems <- ProblemSets
  MaxChanges = 3
  MaxAlertFaults = 2
  MaxIssue = 3
  MaxMaintFaults = 2
INVARIANTS
  SettingsAgree
  FreshAfterForget
  
PROPERTIES
  EveryCallEnds
  OperatorIsTold
  MaintenanceCatchesUp
CHECK_DEADLOCK FALSE
