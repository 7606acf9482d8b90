SPECIFICATION Spec
CONSTANTS
  None = None
  Domains = {"d1", "d2"}
  Addresses = {"a1"}
  DefaultSni = "default"
  Ports = {10, 11, 12, 13, 14}
  HighPorts = {2, 3}
  DefaultPort = 2
  ApiPorts = {11, 12, 13, 14}
  Interfaces = {"i1", "i2"}
  Ranges <- MCRanges
  Months <- MCMonths
  Zones <- MCZones
  Anchors <- MCAnchors
  Moments <- MCMoments
  Sessions <- MCSessions
CHECK_DEADLOCK FALSE
INVARIANTS OnlyAnswersChange PacketsReachTheirNode SchedulesFollowTheClock
