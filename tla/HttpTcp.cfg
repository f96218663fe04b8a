SPECIFICATION Spec
CONSTANTS
  Pids = {p1, p2}
  NoPid = NoPid
  NWorkers = 2
  MaxGone = 0
  Type = "tcp"
  CheckInterval = 2
  CheckTimeout = 1
  RiseCount = 1
  FallCount = 1
  DefaultDown = TRUE
  KeepaliveRequests = 1
  InitAges = {33}
  MaxLag = 1
SYMMETRY Symmetry
INVARIANTS TypeOK LiveOwnerIsChecking NoCheckRestarted CheckHasTimeout
