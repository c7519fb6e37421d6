SPECIFICATION FairSpec
CONSTANTS
  j1 = j1
  q1 = q1
  d1 = d1
  k1 = k1
  None = None
  Loop = Loop
  Jobs = {j1}
  Policies = {q1}
  Devices = {d1}
  Remediated = {q1}
  Requests = {k1}
  MaxMoves = 3
  MaxFaults = 1
INVARIANTS ExecutionsAreTold
PROPERTIES DueIsExecuted
