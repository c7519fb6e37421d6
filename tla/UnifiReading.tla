---------------------------- MODULE UnifiReading -----------------------------
(***************************************************************************)
(* One reading of a UniFi account (collect in server/app/unifi.py): a      *)
(* score of requests to Site Manager and, through it, to the APIs of each  *)
(* console, nearly all of which may fail on their own.  The module is a    *)
(* function from what fails to the snapshot that is stored; CloudPolls     *)
(* says when readings are taken and what they do to the alerts.            *)
(*                                                                         *)
(* The account is the same throughout: consoles with their sites, and on   *)
(* each site devices, networks and VPNs in the order in which the APIs     *)
(* list them.  A failure is <<request, how>>: "error", or "busy" and       *)
(* "busyAgain" for a 429 to the first and to the second try.               *)
(***************************************************************************)
EXTENDS Naturals, Sequences, FiniteSets, SequencesExt, FiniteSetsExt, TLC

CONSTANTS
  HostPages, DevicePages,  \* the pages of consoles and of devices
  SitesOf,                 \* the sites of each console
  GearOf, NetsOf,          \* the devices and the networks of each site
  VpnsOf,                  \* the VPNs of each site, the clients included
  Role,                    \* "gateway", "switch" or "ap"
  Uplink, UplinkPort,      \* the device above each device, or Nobody, and the
                           \* port there
  Managed,                 \* of each network: "gateway", "switch" or "vlan"
  Router,                  \* the switch that routes a network, or Nobody
  Dhcp,                    \* "server", "relay" or "off"
  VpnKind,                 \* "remote-access", "site-to-site" or "client"
  ListedAs, KeptAs,        \* the name of each VPN, in lower case, in the
                           \* integration API and in the classic API
  PortsOf,                 \* of each device: port -> [own, override, profile]
  ProfilesOf, Profile,     \* the port profiles of each site, their settings
  Client,                  \* of each device: port -> the wired clients on it
  DefaultNet,              \* the untagged network of each console (VLAN 1)
  Nobody,
  MaxPages, MaxDetails, MaxTopology  \* the code's limits, scaled down

UConsoles == DOMAIN SitesOf
USites == DOMAIN GearOf
Gear == DOMAIN Role
Nets == DOMAIN Managed
Rows(f, sites) == UNION {ToSet(f[s]) : s \in sites}
At(f) == [x \in Rows(f, USites) |-> CHOOSE s \in USites : x \in ToSet(f[s])]
GearSite == At(GearOf)
NetSite == At(NetsOf)
VpnSite == At(VpnsOf)

\* An account: a device, a network and a VPN are at one site, a site at one console.
Apart(f, places) == \A s, t \in places : ToSet(f[s]) \cap ToSet(f[t]) # {} => s = t
ASSUME AccountAssumption ==
  /\ Nobody \notin Gear
  /\ DevicePages \in Seq(ToSet(DevicePages)) /\ MaxPages \in Nat
  /\ \A page \in ToSet(DevicePages) : ToSet(page) \subseteq Gear
  /\ Rows(SitesOf, UConsoles) \subseteq USites
  /\ Apart(SitesOf, UConsoles) /\ Apart(NetsOf, USites) /\ Apart(VpnsOf, USites)

\* The console a device is listed under, or names itself (_extract_devices).
Console == [g \in Gear |-> CHOOSE c \in UConsoles : GearSite[g] \in ToSet(SitesOf[c])]

SiteRequests == {"topology", "switches", "networks", "servers", "tunnels",
                 "networkconf", "portconf", "device", "sta"}
UnifiRequests ==
  ({"hosts", "devices"} \X (1 .. MaxPages)) \cup {<<"isp", 1>>}
  \cup ({"topologySites", "sites"} \X UConsoles)
  \cup (SiteRequests \X USites)
  \cup ({"deviceDetail"} \X Gear) \cup ({"networkDetail"} \X Nets)

\* _request: a refusal for the rate is waited out once.
Got(w, kind, x) ==
  LET fails(how) == <<<<kind, x>>, how>> \in w
  IN ~fails("error") /\ ~(fails("busy") /\ fails("busyAgain"))

\* _paged: every page, up to the limit, or an exception.
Pages(w, kind, pages) ==
  LET n == Min({Len(pages), MaxPages})
  IN [ok |-> \A k \in 1 .. n : Got(w, kind, k),
      rows |-> UNION {ToSet(pages[k]) : k \in 1 .. n}]

-----------------------------------------------------------------------------
(* Which device hangs under which (_console_topology, _enrich_topology).   *)

\* The devices of the reading whose detail is asked for: the first of each site.
FirstAt(gear, s) ==
  LET wanted == SelectSeq(GearOf[s], LAMBDA h : h \in gear)
  IN ToSet(SubSeq(wanted, 1, Min({MaxTopology, Len(wanted)})))
Detailed(w, gear) ==
  {g \in gear : /\ Got(w, "topologySites", Console[g])
                /\ Got(w, "topology", GearSite[g])
                /\ g \in FirstAt(gear, GearSite[g])}

UplinkRead(w, gear, g) ==
  IF g \in Detailed(w, gear) /\ Got(w, "deviceDetail", g) THEN Uplink[g] ELSE Nobody

Edges(w, gear) ==
  {<<g, UplinkRead(w, gear, g)>> : g \in {h \in gear :
     UplinkRead(w, gear, h) \in gear \ {h}}}

-----------------------------------------------------------------------------
(* The networks of a console (_console_networks, _norm_network).           *)

NetSites(w, c) == {s \in ToSet(SitesOf[c]) : Got(w, "networks", s)}

\* The networks of these sites whose detail is asked for: the list leaves out
\* the subnet and DHCP.  A network that is a VLAN only has neither.
AskedFor(sites, c) ==
  LET listed == SelectSeq(SitesOf[c], LAMBDA s : s \in sites)
      nets == FlattenSeq([i \in DOMAIN listed |-> NetsOf[listed[i]]])
      routed == SelectSeq(nets, LAMBDA n : Managed[n] # "vlan")
  IN ToSet(SubSeq(routed, 1, Min({MaxDetails, Len(routed)})))

\* Mutant of DhcpRead: no detail is no DHCP.
DhcpOrOff(w, c, n) ==
  IF n \in AskedFor(NetSites(w, c), c) /\ Got(w, "networkDetail", n) THEN Dhcp[n] ELSE "off"

\* DHCP is "off" only where the detail says so.
DhcpRead(w, c, n) ==
  IF n \in AskedFor(NetSites(w, c), c) /\ Got(w, "networkDetail", n) THEN Dhcp[n] ELSE "unknown"

\* The device that routes a network: a switch by its address in the site's
\* list, otherwise the console's gateway.
RouterRead(w, c, n, gear) ==
  LET s == NetSite[n]
      gateways == {g \in gear : Role[g] = "gateway" /\ Console[g] = c}
      switch == IF DhcpRead(w, c, n) # "unknown" /\ Got(w, "switches", s)
                   THEN Router[n] ELSE Nobody
  IN IF switch # Nobody \/ Managed[n] # "gateway" \/ gateways = {}
        THEN switch ELSE CHOOSE g \in gateways : TRUE

ConsoleNetworks(w, c, gear) ==
  {[net |-> n, dhcp |-> DhcpRead(w, c, n), router |-> RouterRead(w, c, n, gear)] :
     n \in Rows(NetsOf, NetSites(w, c))}

-----------------------------------------------------------------------------
(* What the classic API adds (_classic_of, _port_vlans, _classic_ports,    *)
(* _apply_classic_ports) and the VPNs (_console_vpns).                     *)

\* The sites of a console whose part of the classic API answered.
ClassicSites(w, kind, c) == {s \in ToSet(SitesOf[c]) : Got(w, kind, s)}

\* Settings are partial: the first of srcs that has the key decides.
PickOr(srcs, key, none) ==
  LET having == SelectSeq(srcs, LAMBDA x : key \in DOMAIN x)
  IN IF having = <<>> THEN none ELSE Head(having)[key]
Pick(srcs, key) == PickOr(srcs, key, Nobody)
PickSet(srcs, key) == PickOr(srcs, key, {})

PortVlans(srcs, nets, default) ==
  LET forward == Pick(srcs, "forward")
      mgmt == Pick(srcs, "mgmt")
      set == Pick(srcs, "native")
      native == IF set \in nets THEN set
                ELSE IF default \in nets THEN default ELSE Nobody
      only(tagged) == [native |-> native, all |-> FALSE, tagged |-> tagged]
  IN CASE forward = "disabled" -> [native |-> Nobody, all |-> FALSE, tagged |-> {}]
       [] mgmt = "block_all" \/ forward = "native" -> only({})
       [] forward = "customize" /\ mgmt = Nobody -> only(PickSet(srcs, "tagged") \cap nets)
       [] mgmt = "custom" \/ PickSet(srcs, "excluded") # {} ->
            only(nets \ (PickSet(srcs, "excluded") \cup {native}))
       [] OTHER -> [native |-> native, all |-> TRUE, tagged |-> {}]

\* A port profile decides when the port has one, and was read.
PortSources(port, profiles) ==
  IF port.profile \in profiles THEN <<Profile[port.profile], port.override, port.own>>
                               ELSE <<port.override, port.own>>

\* The ports of a gateway or switch that the classic API lists, with what is
\* plugged in: a device below it, or wired clients.
ClassicPorts(w, g) ==
  LET c == Console[g]
      answered == ClassicSites(w, "device", c)
      nets == Rows(NetsOf, ClassicSites(w, "networkconf", c))
      profiles == Rows(ProfilesOf, ClassicSites(w, "portconf", c))
      below(i) == {h \in Rows(GearOf, answered) : Uplink[h] = g /\ UplinkPort[h] = i}
      clients(i) == IF Got(w, "sta", GearSite[g]) THEN Client[g][i] ELSE {}
  IN IF GearSite[g] \notin answered THEN <<>>
     ELSE [i \in DOMAIN PortsOf[g] |->
             [vlans |-> PortVlans(PortSources(PortsOf[g][i], profiles), nets, DefaultNet[c]),
              plugged |-> below(i) \cup clients(i)]]

\* A device as the snapshot has it.  Its ports are those of its own detail,
\* or of the classic API, which alone gives what is on them.
DeviceRow(w, gear, g) ==
  LET classic == IF Role[g] # "ap" /\ Got(w, "sites", Console[g])
                    THEN ClassicPorts(w, g) ELSE <<>>
      detail == g \in Detailed(w, gear) /\ Got(w, "deviceDetail", g) /\ Role[g] # "ap"
  IN [dev |-> g, vlans |-> classic,
      uplink |-> IF UplinkRead(w, gear, g) \in gear THEN UplinkRead(w, gear, g) ELSE Nobody,
      ports |-> IF detail \/ classic # <<>> THEN DOMAIN PortsOf[g] ELSE {}]

\* The VPNs of a console that the integration API lists (servers and tunnels),
\* and those of the classic API (the clients as well).
ListedVpns(w, c) ==
  LET at(kind, request) ==
        {v \in Rows(VpnsOf, ClassicSites(w, request, c)) : VpnKind[v] = kind}
  IN at("remote-access", "servers") \cup at("site-to-site", "tunnels")
ClassicVpns(w, c) == Rows(VpnsOf, ClassicSites(w, "networkconf", c))

\* Where a VPN is in the lists: site by site, and in the integration API the
\* servers of a site before its tunnels.  The last of several takes their place.
IndexIn(x, seq) == CHOOSE i \in DOMAIN seq : seq[i] = x
VpnPlace(api, c, v) ==
  <<IndexIn(VpnSite[v], SitesOf[c]),
    IF api = "integration" /\ VpnKind[v] = "site-to-site" THEN 1 ELSE 0,
    IndexIn(v, VpnsOf[VpnSite[v]])>>
Before(p, q) ==
  \/ p[1] < q[1]
  \/ p[1] = q[1] /\ p[2] < q[2]
  \/ p[1] = q[1] /\ p[2] = q[2] /\ p[3] < q[3]
LastOf(api, c, vs) ==
  CHOOSE v \in vs : \A u \in vs \ {v} : Before(VpnPlace(api, c, u), VpnPlace(api, c, v))

\* The VPNs of the classic API that have the name of a listed one; they are
\* joined to the last listed one of that name (by_name).
Joined(w, c, v) ==
  IF v = LastOf("integration", c, {u \in ListedVpns(w, c) : ListedAs[u] = ListedAs[v]})
     THEN {u \in ClassicVpns(w, c) : KeptAs[u] = ListedAs[v]} ELSE {}

\* A listed VPN keeps its id; of the classic VPNs joined to it, the last gives the
\* settings, and a client among them its kind.
ListedRow(w, c, v) ==
  [vpn |-> v, name |-> ListedAs[v], id |-> "integration",
   kind |-> IF \E u \in Joined(w, c, v) : VpnKind[u] = "client" THEN "client" ELSE VpnKind[v],
   settings |-> IF Joined(w, c, v) = {} THEN {} ELSE {LastOf("classic", c, Joined(w, c, v))}]
ClassicRow(v) ==
  [vpn |-> v, name |-> KeptAs[v], id |-> "classic", kind |-> VpnKind[v], settings |-> {v}]

\* Mutant of ConsoleVpns: every VPN of the classic API is a row of its own.
ConsoleVpnsTwice(w, c) ==
  {ListedRow(w, c, v) : v \in ListedVpns(w, c)} \cup {ClassicRow(v) : v \in ClassicVpns(w, c)}

\* _console_vpns: a VPN of the classic API is a row of its own when no listed one
\* has its name.
ConsoleVpns(w, c) ==
  {ListedRow(w, c, v) : v \in ListedVpns(w, c)}
  \cup {ClassicRow(v) : v \in
          {u \in ClassicVpns(w, c) : \A x \in ListedVpns(w, c) : ListedAs[x] # KeptAs[u]}}

-----------------------------------------------------------------------------
(* The reading.                                                            *)

\* Mutant of NetworksAnswered: a console that does not answer has none.
NetworksAlwaysAnswered(w, c) == TRUE

\* A console without an answer is told apart from one without networks
\* (_sites, _console_networks: None).
NetworksAnswered(w, c) == Got(w, "sites", c) /\ NetSites(w, c) # {}

VpnsAnswered(w, c) ==
  /\ Got(w, "sites", c)
  /\ \E kind \in {"servers", "tunnels", "networkconf"} : ClassicSites(w, kind, c) # {}

\* _read_networks: per console with devices in the reading.
NetworkPart(w, gear) ==
  LET consoles == {Console[g] : g \in gear}
      read == {c \in consoles : NetworksAnswered(w, c)}
      vpnsRead == {c \in consoles : VpnsAnswered(w, c)}
      with(c, rows) == {[console |-> c, row |-> x] : x \in rows}
  IN [networks |-> UNION {with(c, ConsoleNetworks(w, c, gear)) : c \in read},
      read |-> read, unread |-> consoles \ read,
      vpns |-> UNION {with(c, ConsoleVpns(w, c)) : c \in vpnsRead},
      vpnsRead |-> vpnsRead, vpnsUnread |-> consoles \ vpnsRead]

\* The consoles whose lines the ISP metrics tell of; without them there are
\* none, and the reading goes on.
IspRead(w, chosen) == IF Got(w, "isp", 1) THEN chosen ELSE {}

Nothing == [ok |-> FALSE, error |-> TRUE, hosts |-> {}, devices |-> {}, isp |-> {},
            edges |-> {}, networks |-> {}, read |-> {}, unread |-> {},
            vpns |-> {}, vpnsRead |-> {}, vpnsUnread |-> {}]

\* The devices of the consoles that are selected; none is all.
Chosen(selected) == IF selected = {} THEN UConsoles ELSE selected
GearRead(w, selected) ==
  LET devices == Pages(w, "devices", DevicePages)
  IN IF devices.ok THEN {g \in devices.rows : Console[g] \in Chosen(selected)} ELSE {}

UnifiSnapshot(w, selected) ==
  LET hosts == Pages(w, "hosts", HostPages)
      gear == GearRead(w, selected)
      net == NetworkPart(w, gear)
  IN IF ~hosts.ok THEN Nothing ELSE
     [ok |-> TRUE, error |-> ~Pages(w, "devices", DevicePages).ok, hosts |-> hosts.rows,
      devices |-> {DeviceRow(w, gear, g) : g \in gear},
      isp |-> IspRead(w, Chosen(selected)), edges |-> Edges(w, gear),
      networks |-> net.networks, read |-> net.read, unread |-> net.unread,
      vpns |-> net.vpns, vpnsRead |-> net.vpnsRead, vpnsUnread |-> net.vpnsUnread]

\* What /api/v1/networks says of each console: read, or not read.
PublishedConsoles(snap) ==
  LET listed == snap.read \cup snap.unread \cup {Console[d.dev] : d \in snap.devices}
  IN [c \in listed |-> c \in snap.read]

-----------------------------------------------------------------------------
(* Properties.                                                             *)

\* What may go wrong in one reading (a bound): up to two requests fail, or one
\* is refused for the rate, once or twice.
Weathers ==
  {{}} \cup {{<<r, "error">>, <<q, "error">>} : r, q \in UnifiRequests}
  \cup {{<<r, "busy">>} : r \in UnifiRequests}
  \cup {{<<r, "busy">>, <<r, "busyAgain">>} : r \in UnifiRequests}

Selections == {{}} \cup {{c} : c \in UConsoles}
FairSnapshot == [selected \in Selections |-> UnifiSnapshot({}, selected)]

AllGot(w, kinds, s) == \A kind \in kinds : Got(w, kind, s)

\* The devices stay the same unless their own pages fail.
DevicesStay(snap, fair) ==
  snap.ok /\ ~snap.error => {d.dev : d \in snap.devices} = {d.dev : d \in fair.devices}

\* A console is read or named as not read, and then has no networks or VPNs.
ConsolesNamed(w, snap) ==
  /\ snap.read \cup snap.unread = {Console[d.dev] : d \in snap.devices}
  /\ snap.read \cap snap.unread = {} /\ snap.vpnsRead \cap snap.vpnsUnread = {}
  /\ \A n \in snap.networks : PublishedConsoles(snap)[n.console]
  /\ {v.console : v \in snap.vpns} \cap snap.vpnsUnread = {}
  /\ \A c \in snap.read : \E s \in ToSet(SitesOf[c]) : Got(w, "networks", s)

\* What is above a device, and the VLANs of its ports, are right or unknown; the
\* VLANs if the profiles and the networks were read.
DevicesTrue(w, snap, fair) ==
  /\ snap.edges \subseteq fair.edges
  /\ \A d \in snap.devices :
       LET row == CHOOSE x \in fair.devices : x.dev = d.dev
       IN /\ d.uplink \in {row.uplink, Nobody}
          /\ d.ports \in {row.ports, {}}
          /\ (\A s \in ToSet(SitesOf[Console[d.dev]]) : AllGot(w, {"portconf", "networkconf"}, s))
               => \A i \in DOMAIN d.vlans : d.vlans[i].vlans = row.vlans[i].vlans

\* DHCP is right or unknown, and so is the router, unless the console's gateway
\* stands in for it.  Of a console that is read, a network is missing only when its
\* site did not answer.
NetworksTrue(w, snap, fair) ==
  /\ \A n \in snap.networks :
       /\ n.row.dhcp \in {Dhcp[n.row.net], "unknown"}
       /\ n.row.router \in {Nobody, Router[n.row.net]} \cup
            {g \in Gear : Role[g] = "gateway" /\ Console[g] = n.console}
  /\ \A f \in fair.networks :
       f.console \in snap.read /\ Got(w, "networks", NetSite[f.row.net])
         => \E n \in snap.networks : n.row.net = f.row.net

\* A VPN that both APIs call by one name, which no other of its console has.
OwnName(c, v) ==
  /\ ListedAs[v] = KeptAs[v]
  /\ \A u \in Rows(VpnsOf, ToSet(SitesOf[c])) \ {v} : KeptAs[v] \notin {ListedAs[u], KeptAs[u]}

\* A VPN with a name of its own is there once, and as it is, unless its site
\* failed to answer.  Of VPNs that share a name or have two, one row or another
\* has each name that the answers of its site gave.
VpnsTrue(w, snap, fair) ==
  \A f \in fair.vpns :
    LET answered == /\ f.console \in snap.vpnsRead
                    /\ AllGot(w, {"servers", "tunnels", "networkconf"}, VpnSite[f.row.vpn])
    IN /\ answered => \E v \in snap.vpns : v.console = f.console /\ v.row.name = f.row.name
       /\ OwnName(f.console, f.row.vpn) =>
            /\ Cardinality({v \in snap.vpns : v.row.vpn = f.row.vpn}) < 2
            /\ answered => f \in snap.vpns

\* Whatever fails, and whatever consoles are chosen, a reading agrees with the one
\* without failures as far as what it took was answered: a console without an
\* answer is named, a topology and a DHCP setting are right or unknown.  It does
\* not name everything: when the pages of devices fail it lists no console, and
\* port VLANs are only right if profiles and networks were read.  A refusal for
\* the rate that ends costs nothing.
EveryReadingIsHonest ==
  \A w \in Weathers, selected \in Selections :
     LET snap == UnifiSnapshot(w, selected)
         fair == FairSnapshot[selected]
     IN /\ (\A f \in w : f[2] = "busy") => snap = fair
        /\ DevicesStay(snap, fair) /\ ConsolesNamed(w, snap)
        /\ DevicesTrue(w, snap, fair) /\ NetworksTrue(w, snap, fair)
        /\ VpnsTrue(w, snap, fair)
=============================================================================
