SPECIFICATION FairSpec
CONSTANTS
  Pids = {p1, p2, p3}
  NoPid = NoPid
  NWorkers = 1
  MaxGone = 2
  Type = "http"
  CheckInterval = 2
  CheckTimeout = 1
  RiseCount = 1
  FallCount = 1
  DefaultDown = TRUE
  KeepaliveRequests = 2
  InitAges = {32}
  MaxLag = 0
INVARIANTS RequestsWithinBound
PROPERTIES PeerKeepsBeingChecked
