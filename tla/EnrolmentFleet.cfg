SPECIFICATION Spec
CONSTANTS
  d1 = d1
  d2 = d2
  o1 = o1
  o2 = o2
  t1 = t1
  c1 = c1
  c2 = c2
  None = None
  Devices = {d1, d2}
  Orgs = {o1, o2}
  Tokens = {t1}
  Conns = {c1, c2}
  TokenOrg <- MCTokenOrg
  RequireApproval = TRUE
  RequireSecret = FALSE
  Legacy = {d2}
  MaxAdmin = 2
  MaxUp = 1
INVARIANTS RegistryTracksLast DeliveredSecretIsCurrent OrgIsGranted OneKeyPerDevice
PROPERTIES PendingUntilApproved LostAgentGoesOffline
CHECK_DEADLOCK FALSE
