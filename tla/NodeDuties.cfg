SPECIFICATION NodesFairSpec
CONSTANTS
  Subnets = {"lan"}
  Targets = {"printer"}
  Versions = {"v1", "v2"}
  Counters = {"name", "uptime"}
  Asks <- MCAsks
  Nothing = Nothing
  MaxMoves = 4
  MaxFaults = 2
  Numbers <- MCNumbers
  Oids <- MCOids
  TextSizes = {0, 1, 126, 127, 128, 255, 256}
  Retries = 1
INVARIANTS TargetsReachNode SnmpIsExact
PROPERTIES ReadingsFollowTargets
CHECK_DEADLOCK FALSE
