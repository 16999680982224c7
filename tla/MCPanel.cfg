CONSTANTS
  Requests = {q1, q2}
  GitHubUsers = {u}
  Accounts = {a}
  ClientIds = {i}
  None = none
  MaxRequests = 3
  SessionTTL = 1
  RememberTTL = 4
  Grace = 1
  MaxClock = 4
  MaxKey = 2
  MaxCookies = 2
  Addresses = {x, y}
  Attempts = {t1, t2}
  FreeTries = 2
  Second = 2
  FirstWait = 3
  LongestWait = 5
  ScryptSlots = 1
  TableSize = 1
  MaxTime = 8
  MaxFailures = 3
SPECIFICATION Spec
SYMMETRY RequestSymmetry
INVARIANTS
  RecordStaysSound
  SpentStaysSpent
PROPERTIES
  ThrottleHolds
CHECK_DEADLOCK FALSE
