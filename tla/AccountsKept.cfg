SPECIFICATION Spec
CONSTANTS
  n1 = n1
  n2 = n2
  None = None
  Names = {n1, n2}
  Emails = {e1}
  Invites = {i1}
  Requests = {r1, r2}
  Secrets = {s1}
  MaxMoves = 5
  Users = {u1}
  Orgs = {o1}
  Groups = {g1, g2}
  OtherRoles = {"other"}
  Permissions = {"terminal", "agent_delete"}
  NoRow = NoRow
SYMMETRY Symmetry
INVARIANTS SecondFactorHasCodes AccessIsConsistent
PROPERTIES AdminRemains InvitationOnce
CHECK_DEADLOCK FALSE
