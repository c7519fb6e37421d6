----------------------------- MODULE MCCloudPolls -----------------------------
EXTENDS CloudReadings

CONSTANTS a1, i1, i2, p1, p2

MCOwner == i1 :> a1 @@ i2 :> a1

\* i1 and i2 are read by two requests.
MCPart == i1 :> "first" @@ i2 :> "second"

\* A UniFi account: a console with two sites, and one with one.
MCHostPages == <<<<"c1">>, <<"c2">>>>
MCDevicePages == <<<<"gw1", "sw1">>, <<"ap1", "gw2">>>>
MCSitesOf == "c1" :> <<"s1", "s2">> @@ "c2" :> <<"s3">>
MCGearOf == "s1" :> <<"gw1", "sw1">> @@ "s2" :> <<"ap1">> @@ "s3" :> <<"gw2">>
MCNetsOf == "s1" :> <<"lan", "lab">> @@ "s2" :> <<"guest">> @@ "s3" :> <<"shop">>
MCVpnsOf == "s1" :> <<"dialin", "branch">> @@ "s2" :> <<"twin", "moved">>
            @@ "s3" :> <<"uplink">>
MCRole == "gw1" :> "gateway" @@ "sw1" :> "switch" @@ "ap1" :> "ap" @@ "gw2" :> "gateway"
MCUplink == "gw1" :> "nobody" @@ "sw1" :> "gw1" @@ "ap1" :> "sw1" @@ "gw2" :> "nobody"
MCUplinkPort == "gw1" :> 0 @@ "sw1" :> 1 @@ "ap1" :> 2 @@ "gw2" :> 0
MCManaged == "lan" :> "gateway" @@ "lab" :> "switch" @@ "guest" :> "vlan" @@ "shop" :> "gateway"
MCRouter == "lan" :> "nobody" @@ "lab" :> "sw1" @@ "guest" :> "nobody" @@ "shop" :> "nobody"
MCDhcp == "lan" :> "server" @@ "lab" :> "off" @@ "guest" :> "off" @@ "shop" :> "relay"
MCVpnKind == "dialin" :> "remote-access" @@ "branch" :> "site-to-site" @@ "uplink" :> "client"
             @@ "twin" :> "site-to-site" @@ "moved" :> "remote-access"

\* Two tunnels of one name, and a server that the two APIs call differently.
MCListedAs == "dialin" :> "dial" @@ "branch" :> "branch" @@ "uplink" :> "up"
              @@ "twin" :> "branch" @@ "moved" :> "new"
MCKeptAs == [MCListedAs EXCEPT !["moved"] = "old"]

\* sw1's second port has a profile that tags one network only, its own
\* settings being another; the others have settings of their own or none.
Plain == [own |-> <<>>, override |-> <<>>, profile |-> "nobody"]
MCPortsOf ==
  "gw1" :> (1 :> [Plain EXCEPT !.own = "native" :> "lan"]) @@ "ap1" :> <<>>
  @@ "sw1" :> (1 :> Plain @@ 2 :> [own |-> "forward" :> "disabled",
                                   override |-> "excluded" :> {"lab"},
                                   profile |-> "trunk"])
  @@ "gw2" :> (1 :> [Plain EXCEPT !.override = "mgmt" :> "block_all"])
MCProfilesOf == "s1" :> <<"trunk">> @@ "s2" :> <<>> @@ "s3" :> <<>>
MCProfile == "trunk" :> ("forward" :> "customize" @@ "tagged" :> {"guest"})
MCClient == "gw1" :> (1 :> {}) @@ "sw1" :> (1 :> {} @@ 2 :> {"pc1"}) @@ "ap1" :> <<>> @@ "gw2" :> (1 :> {})
MCDefaultNet == "c1" :> "lan" @@ "c2" :> "shop"
\* A tenant: two users, two mailboxes that may be shared and one past the limit.
MCCandidates == <<"info", "gone", "late">>
MCPurpose == "info" :> "shared" @@ "gone" :> "user" @@ "late" :> "room"
MCRoleHolders == <<{"ann"}, {"ann", "bob"}>>
MCGroups == <<[kind |-> "team", members |-> {"ann", "bob"}],
              [kind |-> "security", members |-> {"ann"}],
              [kind |-> "distribution", members |-> {"bob"}],
              [kind |-> "team", members |-> {"ann"}]>>
=============================================================================
