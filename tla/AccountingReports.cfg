SPECIFICATION FairSpecAll
CONSTANTS
  Timer = Timer
  Admins = {c1}
  Hourly = Hourly
  Checkers = {m1}
  Interfaces = {i1, i2}
  Months <- MCMonths
  Zones <- MCZones
  Schedules <- MCSchedules
  Moments <- MCMoments
  DisplayZone <- MCZone
  ReminderWindow = 24
  TotalTargets = {}
  DirectionTargets = {}
  None = None
  Top = 4
  MaxBytes = 0
  MaxCommands = 2
  MaxFaults = 1
INVARIANTS MailedAsRecorded
PROPERTIES Converges NothingOwed
