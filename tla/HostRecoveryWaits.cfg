CONSTANTS
  p1 = p1
  p2 = p2
  p3 = p3
  oldDirect = oldDirect
  oldProxy = oldProxy
  None = None
  Procs = {p1, p2, p3}
  Olds = {oldDirect, oldProxy}
  DirectOwners = {p1, oldDirect}
  SelfSigned = {p2}
  Sessions <- DeadlockSessions
  MaxFaults = 2
SPECIFICATION Spec
INVARIANT NeverWaitsForLockTaker
