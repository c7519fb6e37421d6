------------------------------ MODULE Enrolment ------------------------------
(***************************************************************************)
(* How a device gets into the fleet and stays there: the first message of  *)
(* an agent's WebSocket (agent_ws in server/app/main.py), the enrolment    *)
(* token it spends, the per-device secret it is issued, the row it is      *)
(* given in the devices table, the entry it takes in the connection        *)
(* registry (server/app/manager.py), and what the administrator's own      *)
(* requests do to all of these while the handshake is running.             *)
(*                                                                         *)
(* The agents' handlers are coroutines of one event loop, so a handler is  *)
(* interleaved with the others only where it awaits.  The administrator's  *)
(* endpoints are plain functions, which FastAPI runs on worker threads:    *)
(* they are interleaved with a handler between any two of its database     *)
(* calls.  The handshake is split accordingly: from the register message   *)
(* to the first send it awaits nothing that another handler could run in   *)
(* (At), but the administrator may act between its steps.                  *)
(***************************************************************************)
EXTENDS Naturals, Sequences, FiniteSets

CONSTANTS
  Devices,          \* device ids (one agent runs per device)
  Orgs,             \* organisations
  Tokens,           \* one-time enrolment keys
  Conns,            \* agent connections over the life of the system; a secret
                    \* is named by the connection it is issued on
  None,             \* the absence of a row, a connection, a secret
  TokenOrg,         \* the organisation each key was minted in
  RequireApproval,  \* RMM_REQUIRE_APPROVAL
  RequireSecret,    \* RMM_REQUIRE_DEVICE_SECRET
  Legacy,           \* devices whose agent predates the per-device secret
  MaxAdmin,         \* bound: administrator's requests in a behaviour
  MaxUp             \* bound: messages under way from an agent

ASSUME NoneAssumption ==
  /\ None \notin Devices
  /\ None \notin Orgs
  /\ None \notin Conns
ASSUME ParameterAssumption ==
  /\ TokenOrg \in [Tokens -> Orgs]
  /\ RequireApproval \in BOOLEAN
  /\ RequireSecret \in BOOLEAN
  /\ Legacy \subseteq Devices
  /\ MaxAdmin \in Nat
  /\ MaxUp \in Nat

\* The message a connection opens with.
Hello == [key : Tokens, secret : Conns \cup {None}]

ASSUME NoneIsNoRecord == None \notin Hello

VARIABLES
  \* the database
  orgs,         \* organisations that exist
  row,          \* row[d]: the device's row, or None
  tokens,       \* keys that exist and have not expired
  spentBy,      \* spentBy[t]: the device that spent key t, or None
  secretHash,   \* secretHash[d]: the secret stored for d, or None
  \* the server process
  phase,        \* phase[c]: how far the handler of connection c has come
  peer,         \* peer[c]: the device on connection c
  hello,        \* hello[c]: the key and secret its first register presented
  org,          \* org[c]: the organisation the handler captured
  issue,        \* issue[c]: a new secret still has to be sent
  registry,     \* registry[d]: the device's current connection, or None
  \* the agents and the network
  agentSecret,  \* agentSecret[d]: the secret file on the device, or None
  open,         \* open[c]: the agent still holds connection c
  up,           \* up[c]: messages on their way to the server
  down,         \* down[c]: the secret issued on c is on its way to the agent
  \* bounds and history
  admin,        \* requests the administrator has made
  granted,      \* granted[d]: organisations a key or a move has put d into
  last,         \* last[d]: the connection registered last for d
  forgotten     \* the settings, secrets included, have been wiped

database == <<orgs, row, tokens, spentBy, secretHash>>
server == <<phase, peer, hello, org, issue, registry>>
network == <<agentSecret, open, up, down>>
history == <<granted, last, forgotten>>
vars == <<database, server, network, admin, history>>

Phases ==
  {"unused", "hello", "admitted", "checked", "greeting", "serving", "closed"}
Row == [org : Orgs, approved : BOOLEAN]
Serving == {"greeting", "serving"}   \* between register and unregister
Alive == {"hello", "admitted", "checked", "greeting", "serving"}

Init ==
  /\ orgs = Orgs
  /\ row = [d \in Devices |-> None]
  /\ tokens = Tokens
  /\ spentBy = [t \in Tokens |-> None]
  /\ secretHash = [d \in Devices |-> None]
  /\ phase = [c \in Conns |-> "unused"]
  /\ peer = [c \in Conns |-> None]
  /\ hello = [c \in Conns |-> None]
  /\ org = [c \in Conns |-> None]
  /\ issue = [c \in Conns |-> FALSE]
  /\ registry = [d \in Devices |-> None]
  /\ agentSecret = [d \in Devices |-> None]
  /\ open = [c \in Conns |-> FALSE]
  /\ up = [c \in Conns |-> <<>>]
  /\ down = [c \in Conns |-> FALSE]
  /\ admin = 0
  /\ granted = [d \in Devices |-> {}]
  /\ last = [d \in Devices |-> None]
  /\ forgotten = FALSE

-----------------------------------------------------------------------------
(* Shared operations.                                                      *)

\* The handler of c returns without having registered.
Refuse(c) ==
  /\ phase' = [phase EXCEPT ![c] = "closed"]
  /\ open' = [open EXCEPT ![c] = FALSE]
  /\ UNCHANGED <<registry, up, down>>

\* Mutants of IsCurrent: unregister pops whatever is there, or nothing.
AnyIsCurrent(c) == TRUE
NoneIsCurrent(c) == FALSE

\* Whether c is the connection the registry holds for its device.
IsCurrent(c) == registry[peer[c]] = c

\* ConnectionManager.unregister(device_id, conn)
Unregister(c) ==
  registry' = IF IsCurrent(c) THEN [registry EXCEPT ![peer[c]] = None]
                              ELSE registry

\* The handler of c leaves its loop, by the end of the socket or by an
\* exception, and cleans up.  Whether the agent's end notices is up to the
\* network: the handler does not close the socket.
Finish(c) ==
  /\ phase' = [phase EXCEPT ![c] = "closed"]
  /\ up' = [up EXCEPT ![c] = <<>>]
  /\ Unregister(c)

\* Mutant of Upserted: an update writes the approval too.
UpsertedAnew(d, o, needsApproval) == [org |-> o, approved |-> ~needsApproval]

\* upsert_device: a new row is queued for approval when the caller asks for
\* it; an existing row keeps its approval and is filed under the caller's org.
Upserted(d, o, needsApproval) ==
  IF row[d] = None THEN [org |-> o, approved |-> ~needsApproval]
                   ELSE [row[d] EXCEPT !.org = o]

\* Mutant of OrgExists: foreign keys off, as SQLite has them by default.
OrgUnchecked(o) == TRUE

\* The foreign key on devices.org_id.
OrgExists(o) == o \in orgs

\* Mutant of Spendable: used_at is not looked at.
SpendableAgain(t) == t \in tokens

\* consume_enroll_token's test of the row it read.
Spendable(t) == t \in tokens /\ spentBy[t] = None

\* The stored secret is what the agent presented.
SecretMatches(c) == hello[c].secret = secretHash[peer[c]]

\* Mutant of LacksSecret: going by what the agent presents.
PresentsNone(c) == hello[c].secret = None

\* No secret is on file for the device.
LacksSecret(c) == secretHash[peer[c]] = None

-----------------------------------------------------------------------------
(* The agent.                                                              *)

\* run: connect and send the register message at once.
AgentConnect(d, c, t) ==
  /\ phase[c] = "unused"
  /\ \A other \in Conns : peer[other] = d => ~open[other]
  /\ phase' = [phase EXCEPT ![c] = "hello"]
  /\ peer' = [peer EXCEPT ![c] = d]
  /\ hello' = [hello EXCEPT ![c] = [key |-> t, secret |-> agentSecret[d]]]
  /\ open' = [open EXCEPT ![c] = TRUE]
  /\ UNCHANGED <<database, org, issue, registry, agentSecret, up, down,
                 admin, history>>

\* _metrics_loop sends a sample; _sync_now, on the tray's request, registers
\* again on the same connection.  (What is sent to a handler that has gone
\* reaches nobody.)
AgentSend(c, m) ==
  /\ open[c]
  /\ phase[c] # "closed"
  /\ Len(up[c]) < MaxUp
  /\ up' = [up EXCEPT ![c] = Append(@, m)]
  /\ UNCHANGED <<database, server, agentSecret, open, down, admin, history>>

\* _handle, "device_secret": write the file.  A failed write is swallowed.
AgentSaveSecret(c, saved) ==
  /\ open[c]
  /\ down[c]
  /\ down' = [down EXCEPT ![c] = FALSE]
  /\ agentSecret' = IF saved THEN [agentSecret EXCEPT ![peer[c]] = c]
                             ELSE agentSecret
  /\ UNCHANGED <<database, server, open, up, admin, history>>

\* The agent's end of c goes away: what was on its way down is lost, and of
\* what was on its way up only some prefix arrives.
LoseConn(c, arrives) ==
  /\ open[c]
  /\ arrives \in 0 .. Len(up[c])
  /\ open' = [open EXCEPT ![c] = FALSE]
  /\ up' = [up EXCEPT ![c] = SubSeq(@, 1, arrives)]
  /\ down' = [down EXCEPT ![c] = FALSE]
  /\ UNCHANGED <<database, server, agentSecret, admin, history>>

-----------------------------------------------------------------------------
(* The handler of a connection, agent_ws.                                  *)

\* The handler of c has come to p, and the event loop is not busy with
\* another handler that has yet to reach an await.
At(c, p) ==
  /\ phase[c] = p
  /\ \A other \in Conns \ {c} : phase[other] \notin {"admitted", "checked"}

\* The socket ends before the register message arrived.
HelloLost(c) ==
  /\ At(c, "hello")
  /\ ~open[c]
  /\ phase' = [phase EXCEPT ![c] = "closed"]
  /\ UNCHANGED <<database, peer, hello, org, issue, registry, network, admin,
                 history>>

\* A device with a row comes back by its id, into the org of that row.
AdmitKnown(c) ==
  LET d == peer[c] IN
  /\ At(c, "hello")
  /\ row[d] # None
  /\ org' = [org EXCEPT ![c] = row[d].org]
  /\ phase' = [phase EXCEPT ![c] = "admitted"]
  /\ UNCHANGED <<database, peer, hello, issue, registry, network, admin,
                 history>>

\* A device without a row spends its key; the key is spent whatever the rest
\* of the handshake brings.  (RMM_LEGACY_ENROLL is off: with it, the reusable key
\* of an organisation would do when there is no one-time key to spend.)
AdmitNew(c) ==
  LET d == peer[c]
      t == hello[c].key
  IN
  /\ At(c, "hello")
  /\ row[d] = None
  /\ Spendable(t)
  /\ spentBy' = [spentBy EXCEPT ![t] = d]
  /\ org' = [org EXCEPT ![c] = TokenOrg[t]]
  /\ granted' = [granted EXCEPT ![d] = @ \cup {TokenOrg[t]}]
  /\ phase' = [phase EXCEPT ![c] = "admitted"]
  /\ UNCHANGED <<orgs, row, tokens, secretHash, peer, hello, issue, registry,
                 network, admin, last, forgotten>>

RefuseUnknown(c) ==
  /\ At(c, "hello")
  /\ row[peer[c]] = None
  /\ ~Spendable(hello[c].key)
  /\ Refuse(c)
  /\ UNCHANGED <<database, peer, hello, org, issue, agentSecret, admin,
                 history>>

\* The secret on file must be presented.
CheckSecret(c) ==
  /\ At(c, "admitted")
  /\ ~LacksSecret(c)
  /\ IF SecretMatches(c)
        THEN /\ phase' = [phase EXCEPT ![c] = "checked"]
             /\ UNCHANGED <<open, registry, up, down>>
        ELSE Refuse(c)
  /\ UNCHANGED <<database, peer, hello, org, issue, agentSecret, admin,
                 history>>

\* Trust on first use: none is on file, so one is made and stored; it is
\* sent only once the device has been registered.
IssueSecret(c) ==
  LET d == peer[c] IN
  /\ At(c, "admitted")
  /\ LacksSecret(c)
  /\ d \notin Legacy
  /\ secretHash' = [secretHash EXCEPT ![d] = c]
  /\ issue' = [issue EXCEPT ![c] = TRUE]
  /\ phase' = [phase EXCEPT ![c] = "checked"]
  /\ UNCHANGED <<orgs, row, tokens, spentBy, peer, hello, org, registry,
                 network, admin, history>>

\* An agent that cannot keep a secret is let in unless one is required.
WithoutSecret(c) ==
  /\ At(c, "admitted")
  /\ LacksSecret(c)
  /\ peer[c] \in Legacy
  /\ IF RequireSecret
        THEN Refuse(c)
        ELSE /\ phase' = [phase EXCEPT ![c] = "checked"]
             /\ UNCHANGED <<open, registry, up, down>>
  /\ UNCHANGED <<database, peer, hello, org, issue, agentSecret, admin,
                 history>>

\* upsert_device and manager.register: whichever handler registers last
\* holds the device's entry.
Register(c) ==
  LET d == peer[c] IN
  /\ At(c, "checked")
  /\ OrgExists(org[c])
  /\ row' = [row EXCEPT ![d] = Upserted(d, org[c], RequireApproval)]
  /\ registry' = [registry EXCEPT ![d] = c]
  /\ last' = [last EXCEPT ![d] = c]
  /\ phase' = [phase EXCEPT ![c] = "greeting"]
  /\ UNCHANGED <<orgs, tokens, spentBy, secretHash, peer, hello, org, issue,
                 network, admin, granted, forgotten>>

\* The organisation was deleted since it was read: the insert fails, and
\* there is nothing to unregister.
RegisterFails(c) ==
  /\ At(c, "checked")
  /\ ~OrgExists(org[c])
  /\ phase' = [phase EXCEPT ![c] = "closed"]
  /\ UNCHANGED <<database, peer, hello, org, issue, registry, network, admin,
                 history>>

\* Send the new secret.  On a socket that has gone the send is lost, or
\* raises and ends the handler.
SendSecret(c) ==
  /\ At(c, "greeting")
  /\ issue[c]
  /\ issue' = [issue EXCEPT ![c] = FALSE]
  /\ \/ /\ down' = [down EXCEPT ![c] = open[c]]
        /\ UNCHANGED <<phase, registry, up>>
     \/ /\ ~open[c]
        /\ Finish(c)
        /\ UNCHANGED down
  /\ UNCHANGED <<database, peer, hello, org, agentSecret, open, admin, history>>

\* Push the policy and the node's role, both read from the row: a row that
\* has been deleted meanwhile ends the handler.
Greet(c) ==
  /\ At(c, "greeting")
  /\ ~issue[c]
  /\ IF row[peer[c]] # None
        THEN /\ phase' = [phase EXCEPT ![c] = "serving"]
             /\ UNCHANGED <<registry, up>>
        ELSE Finish(c)
  /\ UNCHANGED <<database, peer, hello, org, issue, agentSecret, open, down,
                 admin, history>>

\* _handle_agent_msg, "metrics": the sample refers to the row, and its
\* foreign key ends the handler of a device that has been deleted.
HandleMetrics(c) ==
  /\ At(c, "serving")
  /\ up[c] # <<>>
  /\ Head(up[c]) = "metrics"
  /\ IF row[peer[c]] # None
        THEN /\ up' = [up EXCEPT ![c] = Tail(@)]
             /\ UNCHANGED <<phase, registry>>
        ELSE Finish(c)
  /\ UNCHANGED <<database, peer, hello, org, issue, agentSecret, open, down,
                 admin, history>>

\* _handle_agent_msg, "register": upsert_device with the org the handler
\* captured when the connection opened, and without require_approval.
HandleRegister(c) ==
  LET d == peer[c] IN
  /\ At(c, "serving")
  /\ up[c] # <<>>
  /\ Head(up[c]) = "register"
  /\ IF OrgExists(org[c])
        THEN /\ row' = [row EXCEPT ![d] = Upserted(d, org[c], FALSE)]
             /\ up' = [up EXCEPT ![c] = Tail(@)]
             /\ UNCHANGED <<phase, registry>>
        ELSE Finish(c) /\ UNCHANGED row
  /\ UNCHANGED <<orgs, tokens, spentBy, secretHash, peer, hello, org, issue,
                 agentSecret, open, down, admin, history>>

\* The socket has ended and everything that arrived has been read.
HandleDisconnect(c) ==
  /\ At(c, "serving")
  /\ ~open[c]
  /\ up[c] = <<>>
  /\ Finish(c)
  /\ UNCHANGED <<database, peer, hello, org, issue, agentSecret, open, down,
                 admin, history>>

\* The server stops and starts: its memory goes, its database stays.
ServerRestart ==
  /\ \E c \in Conns : phase[c] \in Alive
  /\ phase' = [c \in Conns |-> IF phase[c] \in Alive THEN "closed" ELSE phase[c]]
  /\ registry' = [d \in Devices |-> None]
  /\ open' = [c \in Conns |-> FALSE]
  /\ up' = [c \in Conns |-> <<>>]
  /\ down' = [c \in Conns |-> FALSE]
  /\ UNCHANGED <<database, peer, hello, org, issue, agentSecret, admin, history>>

-----------------------------------------------------------------------------
(* The administrator.  Each endpoint is one transaction.                   *)

Request ==
  /\ admin < MaxAdmin
  /\ admin' = admin + 1

\* approve_device
Approve(d) ==
  /\ Request
  /\ row[d] # None
  /\ row' = [row EXCEPT ![d].approved = TRUE]
  /\ UNCHANGED <<orgs, tokens, spentBy, secretHash, server, network, history>>

\* reject_device and delete_device: the row goes; the secret and the
\* connection stay.
DeleteDevice(d) ==
  /\ Request
  /\ row[d] # None
  /\ row' = [row EXCEPT ![d] = None]
  /\ UNCHANGED <<orgs, tokens, spentBy, secretHash, server, network, history>>

\* move_device_org
MoveDevice(d, o) ==
  /\ Request
  /\ row[d] # None
  /\ o \in orgs
  /\ row' = [row EXCEPT ![d].org = o]
  /\ granted' = [granted EXCEPT ![d] = @ \cup {o}]
  /\ UNCHANGED <<orgs, tokens, spentBy, secretHash, server, network, last,
                 forgotten>>

\* delete_org: never the last one; its devices and keys go with it.
DeleteOrg(o) ==
  LET gone == {d \in Devices : row[d] # None /\ row[d].org = o} IN
  /\ Request
  /\ o \in orgs
  /\ orgs # {o}
  /\ orgs' = orgs \ {o}
  /\ row' = [d \in Devices |-> IF d \in gone THEN None ELSE row[d]]
  /\ tokens' = {t \in tokens : TokenOrg[t] # o}
  /\ UNCHANGED <<spentBy, secretHash, server, network, history>>

\* delete_token, and a key whose time has run out
DropToken(t) ==
  /\ Request
  /\ t \in tokens
  /\ tokens' = tokens \ {t}
  /\ UNCHANGED <<orgs, row, spentBy, secretHash, server, network, history>>

\* reset_config: every setting goes, and the device secrets are settings.
ResetConfig ==
  /\ Request
  /\ secretHash' = [d \in Devices |-> None]
  /\ forgotten' = TRUE
  /\ UNCHANGED <<orgs, row, tokens, spentBy, server, network, granted, last>>

-----------------------------------------------------------------------------
Handler(c) ==
  \/ HelloLost(c)
  \/ AdmitKnown(c)
  \/ AdmitNew(c)
  \/ RefuseUnknown(c)
  \/ CheckSecret(c)
  \/ IssueSecret(c)
  \/ WithoutSecret(c)
  \/ Register(c)
  \/ RegisterFails(c)
  \/ SendSecret(c)
  \/ Greet(c)
  \/ HandleMetrics(c)
  \/ HandleRegister(c)
  \/ HandleDisconnect(c)

Agent(c) ==
  \/ \E d \in Devices, t \in Tokens : AgentConnect(d, c, t)
  \/ \E m \in {"register", "metrics"} : AgentSend(c, m)
  \/ \E saved \in BOOLEAN : AgentSaveSecret(c, saved)
  \/ \E n \in 0 .. MaxUp : LoseConn(c, n)

Admin ==
  \/ \E d \in Devices : Approve(d)
  \/ \E d \in Devices : DeleteDevice(d)
  \/ \E d \in Devices, o \in Orgs : MoveDevice(d, o)
  \/ \E o \in Orgs : DeleteOrg(o)
  \/ \E t \in Tokens : DropToken(t)
  \/ ResetConfig

Next ==
  \/ \E c \in Conns : Handler(c)
  \/ \E c \in Conns : Agent(c)
  \/ ServerRestart
  \/ Admin

\* The event loop runs every handler that has something to do, the end of a
\* socket included (the WebSocket's keep-alive finds a dead one).
Spec == Init /\ [][Next]_vars /\ \A c \in Conns : WF_vars(Handler(c))

-----------------------------------------------------------------------------
(* Properties.                                                             *)

\* Every variable keeps its type, and the captured and stored references
\* are of the kind the code stores.
TypeOK ==
  /\ orgs \subseteq Orgs
  /\ row \in [Devices -> Row \cup {None}]
  /\ tokens \subseteq Tokens
  /\ spentBy \in [Tokens -> Devices \cup {None}]
  /\ secretHash \in [Devices -> Conns \cup {None}]
  /\ phase \in [Conns -> Phases]
  /\ peer \in [Conns -> Devices \cup {None}]
  /\ hello \in [Conns -> Hello \cup {None}]
  /\ org \in [Conns -> Orgs \cup {None}]
  /\ issue \in [Conns -> BOOLEAN]
  /\ registry \in [Devices -> Conns \cup {None}]
  /\ agentSecret \in [Devices -> Conns \cup {None}]
  /\ open \in [Conns -> BOOLEAN]
  /\ up \in [Conns -> Seq({"register", "metrics"})]
  /\ down \in [Conns -> BOOLEAN]
  /\ admin \in 0 .. MaxAdmin
  /\ granted \in [Devices -> SUBSET Orgs]
  /\ last \in [Devices -> Conns \cup {None}]
  /\ forgotten \in BOOLEAN
  /\ \A c \in Conns : phase[c] # "unused" => peer[c] # None /\ hello[c] # None

\* A device is online exactly while the handler that registered last for it
\* runs: a replaced handler's cleanup never evicts its successor, and no
\* handler leaves its entry behind (ConnectionManager.unregister).
RegistryTracksLast ==
  /\ \A d \in Devices : registry[d] # None =>
       /\ registry[d] = last[d]
       /\ peer[registry[d]] = d
       /\ phase[registry[d]] \in Serving
  /\ \A c \in Conns :
       phase[c] \in Serving /\ last[peer[c]] = c => registry[peer[c]] = c

\* A secret an agent has stored is the one the server checks it against: a
\* register that arrives late, from before the agent had a secret, never makes
\* the server replace the one it has delivered since (agent_ws).
DeliveredSecretIsCurrent ==
  ~forgotten => \A d \in Devices :
    agentSecret[d] # None => agentSecret[d] = secretHash[d]

\* A device is only ever filed under an organisation whose key it spent or
\* that an administrator moved it to, and under one that exists.
OrgIsGranted ==
  \A d \in Devices : row[d] # None =>
    row[d].org \in orgs /\ row[d].org \in granted[d]

\* A pending device leaves the approval queue by an administrator's approval
\* or by losing its row, whatever its agent sends (upsert_device).
PendingUntilApproved ==
  [][\A d \in Devices :
       row[d] # None /\ row'[d] # None /\ ~row[d].approved /\ row'[d].approved
         => Approve(d)]_vars

\* Every device has an enrolment key of its own: a key two machines were set
\* up with lets one of them in, however their handshakes overlap, and no row
\* appears that no key was spent for (agent_ws, consume_enroll_token).
OneKeyPerDevice ==
  \A d \in Devices : row[d] # None => \E t \in Tokens : spentBy[t] = d

\* A device whose agent has lost its connection is shown offline in the end,
\* or has come back on another connection.
LostAgentGoesOffline ==
  \A c \in Conns, d \in Devices :
    registry[d] = c /\ ~open[c] ~> registry[d] # c
=============================================================================
