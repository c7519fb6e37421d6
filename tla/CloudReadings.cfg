SPECIFICATION FairSpec
CONSTANTS
  a1 = a1
  i1 = i1
  i2 = i2
  p1 = p1
  p2 = p2
  None = None
  Services = {"unifi", "m365"}
  Accounts = {a1}
  Items = {i1, i2}
  Owner <- MCOwner
  Part <- MCPart
  Polls = {p1, p2}
  MaxMoves = 4
  MaxErrors = 1
  HostPages <- MCHostPages
  DevicePages <- MCDevicePages
  SitesOf <- MCSitesOf
  GearOf <- MCGearOf
  NetsOf <- MCNetsOf
  VpnsOf <- MCVpnsOf
  Role <- MCRole
  Uplink <- MCUplink
  UplinkPort <- MCUplinkPort
  Managed <- MCManaged
  Router <- MCRouter
  Dhcp <- MCDhcp
  VpnKind <- MCVpnKind
  ListedAs <- MCListedAs
  KeptAs <- MCKeptAs
  PortsOf <- MCPortsOf
  ProfilesOf <- MCProfilesOf
  Profile <- MCProfile
  Client <- MCClient
  DefaultNet <- MCDefaultNet
  Nobody = "nobody"
  MaxPages = 2
  MaxDetails = 1
  MaxTopology = 2
  Licensed = {"ann", "bob"}
  Candidates <- MCCandidates
  Purpose <- MCPurpose
  RoleHolders <- MCRoleHolders
  Groups <- MCGroups
  Laptop = {"bob"}
  MaxMailboxChecks = 2
  MaxMemberLists = 2
INVARIANTS AlertsMatchReading ReadingIsHonest PartsAreNamed
PROPERTIES TroubleIsRaised
CHECK_DEADLOCK FALSE
