CONSTANTS
  a = a
  Names = {a}
  Host = Host
  Nothing = Nothing
  Courses <- Three
  MaxFailures = 1
  MaxRenewals = 1
SPECIFICATION SpecAccess
INVARIANTS ServicesReachTheirFiles OnlyOwnersOpen
CHECK_DEADLOCK FALSE
