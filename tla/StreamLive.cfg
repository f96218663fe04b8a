SPECIFICATION StreamFairSpec
CONSTANTS
  Pids = {p1, p2}
  NoPid = NoPid
  NWorkers = 2
  MaxGone = 1
  Type = "tcp"
  CheckInterval = 2
  CheckTimeout = 1
  RiseCount = 1
  FallCount = 1
  DefaultDown = TRUE
  KeepaliveRequests = 1
  InitAges = {32}
  MaxLag = 0
INVARIANTS NoCheckRestarted CheckHasTimeout
PROPERTIES StreamPeerKeepsBeingChecked
