SPECIFICATION Spec
CONSTANTS
  Timer = Timer
  Admins = {c1}
  Interfaces = {i1}
  Months <- MCMonths
  Zones <- MCZones
  Schedules <- MCNatural
  Moments <- MCBoundary
  TotalTargets = {0, 4}
  DirectionTargets <- MCDirectionTargets
  None = None
  Top = 4
  MaxBytes = 3
  MaxCommands = 2
  MaxFaults = 1
INVARIANTS CountsWhatWasCarried TotalOnTopOfCorrection
