SPECIFICATION FairSpec
CONSTANTS
  timer = timer
  operator = operator
  router = router
  noproc = noproc
  N = 3
  Needs <- MCNeeds
  Every <- MCEvery
  Critical = {1}
  PreviewWrites = {}
  Authority = 3
  Timer = timer
  Operators = {operator}
  Routers = {router}
  Requests <- MCRequests
  NoProc = noproc
  MaxRound = 1
  MaxStarts = 1
  MaxFaults = 1
  AgeCap = 3
INVARIANTS
  NoStaleDownstream
PROPERTIES
  ImplementsSerialRounds
  EveryStepKeepsRunning
  EditsTakeEffect
