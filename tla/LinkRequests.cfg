SPECIFICATION FairSpec
CONSTANTS
  q1 = q1
  q2 = q2
  c1 = c1
  c2 = c2
  None = None
  Requests = {q1, q2}
  Tasks = {q2}
  Conns = {c1, c2}
  MaxFaults <- MCMaxFaults
  Small = 2
  LengthBase = 2
  Sizes = {0, 1, 2, 3, 4, 9}
  Mask <- MCMask
INVARIANTS SocketIsExact
PROPERTIES RequestsKept NothingHangs
CHECK_DEADLOCK FALSE
