SPECIFICATION PunctualSpec
CONSTANTS
  Pids = {p1, p2, p3}
  NoPid = NoPid
  NWorkers = 3
  MaxGone = 0
  Type = "fastcgi"
  CheckInterval = 2
  CheckTimeout = 3
  RiseCount = 2
  FallCount = 2
  DefaultDown = TRUE
  KeepaliveRequests = 1
  InitAges = {0, 27}
  MaxLag = 0
SYMMETRY Symmetry
INVARIANTS AtMostOneChecker
PROPERTIES StatusUpdatesAtomic
