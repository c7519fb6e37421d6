-------------------------------- MODULE Nodes --------------------------------
(***************************************************************************)
(* Network nodes: an agent that is promoted scans subnets, polls SNMP      *)
(* targets and relays Wake-on-LAN (the endpoints under "Nodes & network    *)
(* discovery" and "SNMP monitoring" and agent_ws in server/app/main.py;    *)
(* _handle, _do_scan and _snmp_loop in agent/agent.py; netscan.scan).      *)
(*                                                                         *)
(* What a node has to do is kept twice: as rows in the server's database,  *)
(* and in the memory of the agent, which is told of changes in messages    *)
(* while it is connected.  The connection delivers in order what it        *)
(* delivers; when it is lost, so is what is on the way, while the agent    *)
(* goes on with the role it had.  Every endpoint changes the rows and puts *)
(* its message on the connection without awaiting anything in between, so  *)
(* each is one step.  The module follows one device.  EnrolmentProofs      *)
(* extends it together with Enrolment, so the two share no name.           *)
(***************************************************************************)
EXTENDS Naturals, Sequences

CONSTANTS
  Subnets,    \* each stands for the one host in it, too
  Targets,    \* rows of SNMP targets; a row's id is never used again
  Versions,   \* what a target may be set to (host, port, community, OIDs)
  Counters,   \* the OIDs that there are
  Asks,       \* Asks[v]: those that version v asks for
  Nothing,
  MaxMoves,   \* bound: requests of the administrators
  MaxFaults   \* bound: lost connections and agents started anew

ASSUME NodesAssumption == MaxMoves \in Nat /\ MaxFaults \in Nat
ASSUME NoVersion == Nothing \notin Versions
ASSUME AsksAssumption == Asks \in [Versions -> SUBSET Counters]

\* How the host of a version takes a query: it has all values, or answers with an
\* error and no values, or nothing it sends is understood; or there is no sending
\* one, to a port beyond 65535, say.
Ways == {"well", "error", "silent", "unasked"}

\* What an agent is told of a target; the list of them may be left out of a message.
Duties == [id : Targets, version : Versions \cup {Nothing}]

ASSUME NoDuties == \A duties \in SUBSET Duties : duties # Nothing

VARIABLES
  isNode, subnets,  \* the device's row, and its subnets
  target,    \* target[t]: [row, version], row one of "new", "on", "off", "gone"
  host,      \* host[s]: "unseen", "online" or "offline"
  reading,   \* reading[t][c]: the latest reading of t there is for the OID c, the
             \* version it is of and whether it is from long ago; or Nothing
  lastOk,    \* lastOk[t]: whether the latest poll of t was answered well, or Nothing
  connected, \* the agent is connected
  inbox,     \* the messages on their way to the agent
  outbox,    \* and to the server
  agent,     \* [role, subnets, targets]: what the agent has been told
  scans, polls,  \* the scans and polls under way in the agent
  alive,     \* the subnets whose host is there
  replies,   \* replies[v]: how the host of v takes a query
  told,      \* the connection has told the agent the targets
  moves, faults

nodeRows == <<isNode, subnets, target, host, reading, lastOk>>
world == <<alive, replies>>
nodesVars == <<nodeRows, connected, inbox, outbox, agent, scans, polls, world, told, moves,
               faults>>

Unstarted == [role |-> "agent", subnets |-> {}, targets |-> {}]

NoReading == [c \in Counters |-> Nothing]

NodesInit ==
  /\ isNode = FALSE
  /\ subnets = {}
  /\ target = [t \in Targets |-> [row |-> "new", version |-> Nothing]]
  /\ host = [s \in Subnets |-> "unseen"]
  /\ reading = [t \in Targets |-> NoReading]
  /\ lastOk = [t \in Targets |-> Nothing]
  /\ connected = FALSE
  /\ inbox = <<>>
  /\ outbox = <<>>
  /\ agent = Unstarted
  /\ scans = {}
  /\ polls = {}
  /\ alive = Subnets
  /\ replies = [v \in Versions |-> "well"]
  /\ told = FALSE
  /\ moves = 0
  /\ faults = 0

\* _node_snmp_targets: the enabled ones
Enabled(rows) == {[id |-> t, version |-> rows[t].version] : t \in {u \in Targets : rows[u].row = "on"}}

-----------------------------------------------------------------------------
(* The connection.                                                         *)

Send(msg) == inbox' = IF connected THEN Append(inbox, msg) ELSE inbox

\* The agent connects and registers; a node is told its duties, as the rows are
\* when that message is sent.  A device that is not a node is told nothing.
Connect ==
  /\ ~connected
  /\ connected' = TRUE
  /\ inbox' = IF isNode THEN <<[type |-> "set_role", role |-> "node", subnets |-> subnets,
                                targets |-> Enabled(target)]>>
                        ELSE <<>>
  /\ told' = isNode
  /\ UNCHANGED <<nodeRows, outbox, agent, scans, polls, world, moves, faults>>

Lose ==
  /\ connected
  /\ connected' = FALSE
  /\ inbox' = <<>>
  /\ outbox' = <<>>
  /\ told' = FALSE

\* The connection is lost; or the agent ends and is started again.
ConnectionLost ==
  /\ faults < MaxFaults
  /\ faults' = faults + 1
  /\ Lose
  /\ UNCHANGED <<nodeRows, agent, scans, polls, world, moves>>

AgentRestarts ==
  /\ faults < MaxFaults
  /\ faults' = faults + 1
  /\ Lose
  /\ agent' = Unstarted
  /\ scans' = {}
  /\ polls' = {}
  /\ UNCHANGED <<nodeRows, world, moves>>

-----------------------------------------------------------------------------
(* The administrators.                                                     *)

Move ==
  /\ moves < MaxMoves
  /\ moves' = moves + 1
  /\ UNCHANGED <<reading, lastOk, host, connected, outbox, agent, scans, polls, world, faults>>

Role(role, subs) == [type |-> "set_role", role |-> role, subnets |-> subs, targets |-> Nothing]

Promote ==
  /\ Move
  /\ isNode' = TRUE
  /\ Send(Role("node", subnets))
  /\ UNCHANGED <<subnets, target, told>>

Demote ==
  /\ Move
  /\ isNode' = FALSE
  /\ Send(Role("agent", {}))
  /\ UNCHANGED <<subnets, target, told>>

\* Whether the device is a node does not matter here.
AddSubnet(s) ==
  /\ Move
  /\ subnets' = subnets \cup {s}
  /\ Send(Role("node", subnets'))
  /\ UNCHANGED <<isNode, target, told>>

\* delete_subnet does not tell the agent.
DeleteSubnet(s) ==
  /\ Move
  /\ s \in subnets
  /\ subnets' = subnets \ {s}
  /\ UNCHANGED <<isNode, target, inbox, told>>

Scan ==
  /\ Move
  /\ connected
  /\ Send([type |-> "scan", subnets |-> subnets])
  /\ UNCHANGED <<isNode, subnets, target, told>>

\* Mutant of PushConfig: the targets are sent as they were before.
PushOldConfig(t, row) ==
  /\ target' = [target EXCEPT ![t] = row]
  /\ Send([type |-> "snmp_config", targets |-> Enabled(target)])
  /\ told' = connected
  /\ UNCHANGED <<isNode, subnets>>

\* _push_snmp_config, after a row is written
PushConfig(t, row) ==
  /\ target' = [target EXCEPT ![t] = row]
  /\ Send([type |-> "snmp_config", targets |-> Enabled(target')])
  /\ told' = connected
  /\ UNCHANGED <<isNode, subnets>>

CreateTarget(t, v) ==
  /\ Move
  /\ isNode
  /\ target[t].row = "new"
  /\ PushConfig(t, [row |-> "on", version |-> v])

UpdateTarget(t, v, row) ==
  /\ Move
  /\ target[t].row \in {"on", "off"}
  /\ row \in {"on", "off"}
  /\ [row |-> row, version |-> v] # target[t]
  /\ PushConfig(t, [row |-> row, version |-> v])

\* The row's readings go with it.
DeleteTarget(t) ==
  /\ moves < MaxMoves
  /\ moves' = moves + 1
  /\ target[t].row \in {"on", "off"}
  /\ PushConfig(t, [row |-> "gone", version |-> Nothing])
  /\ reading' = [reading EXCEPT ![t] = NoReading]
  /\ lastOk' = [lastOk EXCEPT ![t] = Nothing]
  /\ UNCHANGED <<host, connected, outbox, agent, scans, polls, world, faults>>

PollNow(t) ==
  /\ Move
  /\ target[t].row \in {"on", "off"}
  /\ connected
  /\ Send([type |-> "snmp_poll", id |-> t])
  /\ UNCHANGED <<isNode, subnets, target, told>>

-----------------------------------------------------------------------------
(* The agent.                                                              *)

Receives(type) == inbox # <<>> /\ Head(inbox).type = type

AgentReads ==
  /\ inbox' = Tail(inbox)
  /\ UNCHANGED <<nodeRows, connected, outbox, world, told, moves, faults>>

\* Mutant of SetRole: a message without targets is one of no targets.
SetRoleClears ==
  LET msg == Head(inbox) IN
  /\ Receives("set_role")
  /\ agent' = [role |-> msg.role, subnets |-> msg.subnets,
               targets |-> IF msg.targets = Nothing THEN {} ELSE msg.targets]
  /\ UNCHANGED <<scans, polls>>
  /\ AgentReads

\* set_role: the targets stay unless the message has them.
SetRole ==
  LET msg == Head(inbox) IN
  /\ Receives("set_role")
  /\ agent' = [role |-> msg.role, subnets |-> msg.subnets,
               targets |-> IF msg.targets = Nothing THEN agent.targets ELSE msg.targets]
  /\ UNCHANGED <<scans, polls>>
  /\ AgentReads

SnmpConfig ==
  /\ Receives("snmp_config")
  /\ agent' = [agent EXCEPT !.targets = Head(inbox).targets]
  /\ UNCHANGED <<scans, polls>>
  /\ AgentReads

\* A scan of no subnets is one of those the agent knows.
StartScan ==
  LET subs == IF Head(inbox).subnets # {} THEN Head(inbox).subnets ELSE agent.subnets IN
  /\ Receives("scan")
  /\ scans' = IF subs = {} THEN scans ELSE scans \cup {subs}
  /\ UNCHANGED <<agent, polls>>
  /\ AgentReads

SnmpPoll ==
  /\ Receives("snmp_poll")
  /\ polls' = polls \cup {g \in agent.targets : g.id = Head(inbox).id}
  /\ UNCHANGED <<agent, scans>>
  /\ AgentReads

\* _snmp_loop, when the target's interval is over
LoopPolls(g) ==
  /\ agent.role = "node"
  /\ g \in agent.targets \ polls
  /\ outbox = <<>>
  /\ polls' = polls \cup {g}
  /\ UNCHANGED <<nodeRows, connected, inbox, outbox, agent, scans, world, told, moves, faults>>

\* A result goes out on the connection of the moment, or is lost.
Report(msg) == outbox' = IF connected THEN Append(outbox, msg) ELSE outbox

\* snmp.get: what a poll that is taken in this way reads, an error's values being
\* none; without OIDs to ask for it has failed.
Outcome(g, way) ==
  [type |-> "snmp_result", target |-> g,
   ok |-> way = "well" /\ Asks[g.version] # {},
   oids |-> IF way = "silent" THEN {} ELSE Asks[g.version]]

\* A poll that raises an exception is reported to nobody.
PollEnds(g) ==
  /\ g \in polls
  /\ polls' = polls \ {g}
  /\ IF replies[g.version] = "unasked" THEN UNCHANGED outbox
     ELSE Report(Outcome(g, replies[g.version]))
  /\ UNCHANGED <<nodeRows, connected, inbox, agent, scans, world, told, moves, faults>>

\* All tries of a poll are lost.
PollIsLost(g) ==
  /\ faults < MaxFaults
  /\ faults' = faults + 1
  /\ g \in polls
  /\ replies[g.version] \in {"well", "error"}
  /\ polls' = polls \ {g}
  /\ Report(Outcome(g, "silent"))
  /\ UNCHANGED <<nodeRows, connected, inbox, agent, scans, world, told, moves>>

\* A ping, or else a port that answers or refuses.
Answers(s) == s \in alive

\* The sweep of the agent's own: who answers, and of the others those that are
\* still in the ARP cache.
Sweep(subs, cached) == {s \in subs : Answers(s) \/ s \in cached}

\* nmap's, where it is there, works and finds any; or else the sweep.
Found(subs, cached) == ({{s \in subs : s \in alive}} \ {{}}) \cup {Sweep(subs, cached)}

ScanEnds(subs, cached) ==
  /\ subs \in scans
  /\ scans' = scans \ {subs}
  /\ \E hosts \in Found(subs, cached) : Report([type |-> "scan_result", hosts |-> hosts])
  /\ UNCHANGED <<nodeRows, connected, inbox, agent, polls, world, told, moves, faults>>

\* A host is switched off, or on.
HostChanges(s) ==
  /\ moves < MaxMoves
  /\ moves' = moves + 1
  /\ alive' = IF s \in alive THEN alive \ {s} ELSE alive \cup {s}
  /\ UNCHANGED <<nodeRows, connected, inbox, outbox, agent, scans, polls, replies, told,
                 faults>>

\* The host of a version takes queries otherwise.
RepliesChange(v) ==
  /\ moves < MaxMoves
  /\ moves' = moves + 1
  /\ \E way \in Ways \ {replies[v]} : replies' = [replies EXCEPT ![v] = way]
  /\ UNCHANGED <<nodeRows, connected, inbox, outbox, agent, scans, polls, alive, told, faults>>

-----------------------------------------------------------------------------
(* The server takes the results (_handle_agent_msg).                       *)

ServerReads ==
  /\ outbox' = Tail(outbox)
  /\ UNCHANGED <<isNode, subnets, target, connected, inbox, agent, scans, polls, world, told,
                 moves, faults>>

\* upsert_network_hosts: what this scan did not find has left.
SaveScan ==
  /\ outbox # <<>>
  /\ Head(outbox).type = "scan_result"
  /\ host' = [s \in Subnets |-> IF s \in Head(outbox).hosts THEN "online"
                                ELSE IF host[s] = "unseen" THEN "unseen" ELSE "offline"]
  /\ UNCHANGED <<reading, lastOk>>
  /\ ServerReads

\* Mutant of Kept: nothing is pruned.
KeptForGood(was) == was

\* What there was stays, unless it is older than SNMP_READING_RETENTION.
Kept(was) == IF was # Nothing /\ was.old THEN Nothing ELSE was

\* save_snmp_result and latest_snmp_readings: nothing of a target that has gone.
\* What the poll has read is the latest of its OIDs; of the others, which were not
\* asked for or not answered, what there was is kept.
SaveReading ==
  LET result == Head(outbox)
      g == result.target
      fresh == [version |-> g.version, old |-> FALSE]
  IN
  /\ outbox # <<>>
  /\ result.type = "snmp_result"
  /\ IF target[g.id].row \in {"on", "off"}
     THEN /\ lastOk' = [lastOk EXCEPT ![g.id] = result.ok]
          /\ reading' = [reading EXCEPT ![g.id] =
               [c \in Counters |-> IF c \in result.oids THEN fresh ELSE Kept(@[c])]]
     ELSE UNCHANGED <<reading, lastOk>>
  /\ UNCHANGED host
  /\ ServerReads

\* Time: the reading comes to be older than that.
ReadingAges(t, c) ==
  /\ reading[t][c] # Nothing /\ ~reading[t][c].old
  /\ reading' = [reading EXCEPT ![t][c].old = TRUE]
  /\ UNCHANGED <<isNode, subnets, target, host, lastOk, connected, inbox, outbox, agent, scans,
                 polls, world, told, moves, faults>>

-----------------------------------------------------------------------------
Polled == [id : Targets, version : Versions]

AgentSteps == SetRole \/ SnmpConfig \/ StartScan \/ SnmpPoll
ServerSteps == SaveScan \/ SaveReading

NodesNext ==
  \/ Connect \/ ConnectionLost \/ AgentRestarts
  \/ Promote \/ Demote \/ Scan
  \/ \E s \in Subnets : AddSubnet(s) \/ DeleteSubnet(s) \/ HostChanges(s)
  \/ \E t \in Targets :
       \/ DeleteTarget(t) \/ PollNow(t)
       \/ \E c \in Counters : ReadingAges(t, c)
       \/ \E v \in Versions :
            CreateTarget(t, v) \/ UpdateTarget(t, v, "on") \/ UpdateTarget(t, v, "off")
  \/ AgentSteps \/ ServerSteps
  \/ \E v \in Versions : RepliesChange(v)
  \/ \E g \in Polled : LoopPolls(g) \/ PollEnds(g) \/ PollIsLost(g)
  \/ \E subs \in SUBSET Subnets, cached \in SUBSET Subnets : ScanEnds(subs, cached)

NodesSpec == NodesInit /\ [][NodesNext]_nodesVars

\* Messages are read, tasks end (every probe and every query has a timeout),
\* the loop comes round again, an agent that is not connected connects, and time
\* passes.
NodesFairness ==
  /\ WF_nodesVars(Connect)
  /\ WF_nodesVars(AgentSteps)
  /\ WF_nodesVars(ServerSteps)
  /\ \A g \in Polled : SF_nodesVars(LoopPolls(g)) /\ WF_nodesVars(PollEnds(g))
  /\ \A subs \in SUBSET Subnets : WF_nodesVars(ScanEnds(subs, {}))
  /\ \A t \in Targets, c \in Counters : WF_nodesVars(ReadingAges(t, c))

NodesFairSpec == NodesSpec /\ NodesFairness

-----------------------------------------------------------------------------
(* Properties.                                                             *)

\* Every variable keeps its type.
NodesTypeOK ==
  /\ isNode \in BOOLEAN /\ connected \in BOOLEAN /\ told \in BOOLEAN
  /\ subnets \subseteq Subnets /\ alive \subseteq Subnets
  /\ target \in [Targets -> [row : {"new", "on", "off", "gone"}, version : Versions \cup {Nothing}]]
  /\ host \in [Subnets -> {"unseen", "online", "offline"}]
  /\ reading \in [Targets -> [Counters ->
       [version : Versions, old : BOOLEAN] \cup {Nothing}]]
  /\ lastOk \in [Targets -> BOOLEAN \cup {Nothing}]
  /\ replies \in [Versions -> Ways]
  /\ agent \in [role : {"agent", "node"}, subnets : SUBSET Subnets, targets : SUBSET Polled]
  /\ scans \subseteq SUBSET Subnets /\ polls \subseteq Polled
  /\ moves \in 0 .. MaxMoves /\ faults \in 0 .. MaxFaults

\* A message with targets.
Carries(msg) == msg.type \in {"set_role", "snmp_config"} /\ msg.targets # Nothing

\* With these messages to come, an agent that holds these targets ends up with
\* exactly the rows: those of the last message that has any, or else what it holds.
ComesTo(msgs, targets, rows) ==
  \/ \E k \in DOMAIN msgs :
       /\ Carries(msgs[k]) /\ msgs[k].targets = rows
       /\ \A l \in DOMAIN msgs : l > k => ~Carries(msgs[l])
  \/ targets = rows /\ \A k \in DOMAIN msgs : ~Carries(msgs[k])

\* Once a connection has told an agent its SNMP targets, what the agent holds
\* and what is on the way to it come to the rows of the database, whatever
\* promotions, changes and reconnections cross each other: it does not poll a
\* target that is deleted or switched off, nor an old version of one.
TargetsReachNode ==
  connected /\ told => ComesTo(inbox, agent.targets, Enabled(target))

\* If the device stays a connected node that has been told, and a target as it is,
\* then in the end what is shown of it is of its present version alone, and for no
\* other OIDs, whether its host answers or not: polls of older versions that end
\* late are overtaken, and what only they asked for is gone once it is old, failed
\* polls clearing it too.  A host that keeps answering is shown with all the OIDs
\* asked for; and what is said of the latest poll is how the host stays.  (An edit
\* after which there is no sending a query is never seen in the readings.)
ReadingsFollowTargets ==
  \A t \in Targets, v \in Versions, way \in Ways \ {"unasked"} :
    LET poll == Outcome([id |-> t, version |-> v], way)
        IsShown(c) == IF reading[t][c] = Nothing THEN c \notin poll.oids
                      ELSE reading[t][c].version = v /\ c \in Asks[v]
    IN  <>[](/\ connected /\ told /\ isNode
             /\ target[t] = [row |-> "on", version |-> v] /\ replies[v] = way)
          => <>[](lastOk[t] = poll.ok /\ \A c \in Counters : IsShown(c))
=============================================================================
