SPECIFICATION SignInSpec
CONSTANTS
  Addresses = {a1}
  Keys = {k1}
  Tickets = {t1}
  Codes = {c1, c2}
  KeyIds = {i1, i2}
  Docs = {d1}
  Nil = Nil
  Second = 2
  Window = 3
  MaxFails = 2
  AlertFails = 2
  Quiet = 2
  TicketSeconds = 1
  PairTTL = 1
  MaxTime = 5
  MaxRequests = 5
INVARIANTS ThrottleHolds
PROPERTIES HandOffsOnce
CHECK_DEADLOCK FALSE
