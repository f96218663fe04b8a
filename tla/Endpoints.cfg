SPECIFICATION VsFairSpec
CONSTANTS
  Pods = {p, q}
  p = p
  q = q
  Svc = Svc
  MaxChanges = 1
  MaxRestarts = 1
INVARIANTS NoAddressTwice
PROPERTIES NoAddressLost QueuedPodListed LabelsFollow
CHECK_DEADLOCK FALSE
