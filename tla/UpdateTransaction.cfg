SPECIFICATION Spec
CONSTANTS
  old = old
  new = new
  dead = dead
  plain = plain
  modern = modern
  Updaters = {u1, u2}
  Versions = {old, new, dead}
  Configs = {plain, modern}
  Accepts <- MCAccepts
  Unhealthy = {dead}
  None = None
  Down = Down
  Kept = 1
  MaxRenewals = 1
  MaxFaults = 2
  MaxCrashes = 1
  MaxUpdates = 3
SYMMETRY Symmetry
CHECK_DEADLOCK FALSE
INVARIANTS QuietHostRunsWhatIsInstalled InstalledAcceptsActive PairsStayWhole
PROPERTIES FailedUpdateRestores UpdateKeepsItsPoint
