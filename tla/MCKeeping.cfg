SPECIFICATION Spec
CONSTANTS
  Makers = {a, i}
  Automatic = a
  Importer = i
  DailyKeep = 2
  WeeklyKeep = 1
  MaxMade = 3
  MaxBackupFaults = 1
  Restorers = {r1, r2}
  Targets = {p, q}
  Foreign = f
  Contents = {1, 2}
  Nothing = 0
  Day = 1
  MaxSeconds = 1
  MaxTouches = 4
  Editors = {e1, e2}
  NoEditor = none
  Names = {n1, n2}
  MaxEdits = 3
  MaxListFaults = 1
  Commands = {c1, c2}
  Hosts = {h1, h2}
  Addresses = {a1, a2}
  MaxCommands = 2
  MaxRecordFaults = 2
  Reports = {rp1, rp2}
  Spans = {1, 3}
  Retention = 3
  MaxTime = 4
  MaxRows = 2
  Judged = {"s", "t", "z"}
  Parent <- Tree
  NoParent = "top"
  PublicSuffixes = {"x"}
  SuffixFiles <- Files
  Unreadable = missing
  MinRules = 2
  MainlandHosts = {"cn"}
  OffshoreHosts = {"off"}
  PrivateHosts = {"lan"}
  Worlds <- AuthorityWorlds
  Answers <- FinalWorlds
  Concurrency = 2
  MaxLost = 1
INVARIANTS
  GoodArchiveStays
  
  RestoreIsSafe
  FinishedEditsHold
  ServedAsWritten
  RecordsAgree
  ReportIsExact
  CnIsEarned
CHECK_DEADLOCK FALSE
