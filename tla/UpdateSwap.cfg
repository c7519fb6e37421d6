SPECIFICATION FairSpec
CONSTANTS
  c0 = c0
  h1 = h1
  h2 = h2
  h3 = h3
  None = None
  First = c0
  Helpers = {h1, h2, h3}
  MaxAtOnce = 3
  MaxFaults = 1
  MaxCuts = 2
CHECK_DEADLOCK FALSE
INVARIANTS WorkingServerIsKept StartResumes
PROPERTIES ServerComesBack
