SPECIFICATION FairSpec
CONSTANTS
  d1 = d1
  r1 = r1
  r2 = r2
  r3 = r3
  None = None
  BackupKey = BackupKey
  Devices = {d1}
  Rules = {r1, r2, r3}
  Kind <- MCKind
  Notify = {r1}
  Fix <- MCFix
  MaxMoves = 4
  MaxErrors = 1
  MaxFaults = 1
INVARIANTS EpisodesAreTold RemediationOnce NoAlertWithoutRule
PROPERTIES AlertFollowsReading
