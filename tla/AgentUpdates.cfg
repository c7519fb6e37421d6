SPECIFICATION AgentFairSpec
CONSTANTS
  MaxVersion = 2
  Settings = {"old", "new"}
  Unset = Unset
  Slots = {1, 2}
  FirstSlot = 1
  MaxMoves = 3
  MaxMishaps = 2
INVARIANTS NoWayBack
PROPERTIES AgentReturns UpdatesSettle
CHECK_DEADLOCK FALSE
