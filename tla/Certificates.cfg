SPECIFICATION FairSpecAll
CONSTANTS
  c1 = c1
  c2 = c2
  Commands = {c1, c2}
  Stopped = Stopped
  None = None
  ReuseInodes = FALSE
  MaxRenewals = 2
  MaxFaults = 2
  Sessions <- MCSessions
INVARIANTS UnrefreshedIsMarked ActiveIsItsGeneration
PROPERTIES RetryCompletes LastValidRetained EventuallyServed
