SPECIFICATION SpecListener
CONSTANTS
  Peers = {p1, p2}
  Connections = {c1, c2, c3}
  Absent = Absent
  Burst = 2
  Refill = 2
  MaxTracked = 0
  MaxTime = 6
  MaxConcurrent = 2
  MaxPerPeer = 1
INVARIANTS AdmittedBounded RetryAfterHonoured PermitsAccounted
SYMMETRY Symmetry
CHECK_DEADLOCK FALSE
