# Leuffenrrm: TLA+ specifications, model checks and proofs

Leuffenrrm is a remote monitoring and management system: one Python server
(FastAPI on one event loop, one SQLite database), an agent on every managed
device that holds a WebSocket to it, and a dashboard in the browser.  This
directory holds TLA+ modules of the parts of it whose correctness depends on
order, overlap and failure; TLC configurations that check them on small
instances; and theorems about all twelve state machines among them that TLAPS
proves for instances of any size.  `PROJECT.json` maps every definition to the lines it stands for and
lists the runs, the hazards they are about, and the theorems.

Contents

1. The system: parts, state, operations, hazards
2. The modules
3. The runs: questions, bounds, results
4. Fairness
5. The proofs
6. Where the code and its documents disagree
7. What is only model-checked, and what is not modelled
8. Plan

## 1. The system

### How it runs

Everything follows from how the server schedules its work, so the models all
use the same three rules.

* Coroutines (the WebSocket handlers, the background loops, `async def`
  endpoints) share one event loop.  One runs until it awaits something that
  really waits.  `alerts.evaluate_once`, `manager.fanout` and the stretch of
  `agent_ws` from the register message to its first send await nothing, so no
  other coroutine runs in the middle of them.
* Endpoints that are plain `def` functions run on FastAPI's worker threads, so
  they may run between any two database calls of a coroutine.
* A database call is one SQLite transaction: atomic, and durable when it has
  returned.  Everything else (the connection registry, queued events, jobs,
  executions under way) is memory that a restart loses.

Which endpoint is `def` and which is `async def` therefore decides what can
interleave with what; the modules follow the code on each.

### Parts

| Part | State it keeps | Operations | Talks to | What makes it correct |
|---|---|---|---|---|
| Enrolment and connection registry (`main.agent_ws`, `manager.register/unregister`, `database.upsert_device`, tokens, secrets) | rows of devices, organisations, keys, secrets; one live connection per device; the handler's captured organisation | handshake, repeated register, metrics, disconnect; approve, reject, delete, move, delete organisation, drop key, reset | agents by WebSocket, administrators by HTTP, the database | one key enrols one device; filed where a key or administrator said; the queue is left by approval only; a stored secret is the current one; a device is online while its last handler runs, and goes offline when it is lost |
| Viewer relay (`manager.fanout`, `_ViewerPipe`) | each viewer's queue, its counters, whether it waits for a keyframe; when the agent was last asked | offer, purge, take, send, subscribe, unsubscribe, ask for a keyframe | the agent's capture loop, the browsers | bounded queues; counters that match; control messages never dropped; a stream that decodes; whoever waits is served |
| Alert engine (`alerts.evaluate_once`, `_apply`, `main._alert_loop`) | `alert_state`, rules, readings; webhook events, remediations | evaluate, raise, clear, mail, record, remediate, deliver; add, edit, switch, delete a rule | mail, webhooks, agents | an alert follows its reading in the end; one mail, event, incident and remediation per episode, and a failure costs what was being told only; no alert without its rule |
| Cloud readings (`_unifi_loop`, `_m365_loop`, `evaluate_unifi_account`, `evaluate_m365_tenant`) | accounts, the last good reading, its alerts; tasks under way | poll by the loop, on creation, on request; store; judge; delete | two cloud services | the alerts are those of the reading on show; a failed reading changes none; lasting trouble is an alert |
| Scheduled jobs and script policies (`_schedule_loop`, `_execute_schedule`, `_execute_monitor`, `_monitor_notify`) | rows of jobs, policies and script runs; executions under way | fetch what is due, run, remediate, mail, mark; run on request; edit, switch, delete | agents, mail | rows follow runs; the last mail is the status; what is due is executed |
| Server update (`docker_update`) | containers, their names and states; the helper's place in its plan | pull, launch; stop, rename, create, start, wait, remove; roll back | the Docker daemon | a version that works is never lost; one server is left; the server comes back |
| Requests and replies (`manager.request/resolve`, the agent's `_handle`) | futures by request id | send, handle, reply, resolve, time out | agents | each is carried out at most once and answered with its own outcome; none waits for ever |
| Screen sessions (`_bridge_ws`, `Agent._screen_start`, `_win_bridge`, the helper) | the viewers' handlers; the agent's session with its flag and thread; the helper process, its socket, its banner | open, start, replace, close; launch, connect, relay; Disconnect at the device | agents, browsers, a helper on a loopback socket | a session that is over is silent, its helper and banner go, its end is told |
| The node role: discovery and SNMP (`set_role`, subnets, targets, `_do_scan`, `_snmp_loop`) | rows of subnets, targets, hosts, readings; the agent's copy of them | promote, demote, scan, poll, edit | agents, the network | the agent's copy comes to what the rows say; what is shown comes to the present target |
| Agent main loop and self-update (`Agent.run`, `_self_update`, `updater.py`, the installer) | the connection; the settings in four places; helpers at work | connect, serve, reconnect; download, remove, install, start | the server, Windows | it comes back, with its settings, unless its installation breaks off; it ends up current |
| Accounts, permissions and sign-in (`auth.py`, `totp.py`, the endpoints of `main.py`) | users, second factors, recovery codes, invitations, groups and their rights, sessions, throttles, tickets, keys | sign in, enable, issue, accept, invite, demote, delete; ask for access; redeem, link | browsers, the desktop console, the companion app | no one request takes the last administrator away; an invitation that is over stays so, a ticket counts once; questions on access agree |
| Database and migrations (`database.init_db`, `_migrate`) | the file | upgrade at each start | every part | what starts that are cut short leave, a later one takes up |
| Mail and webhooks, collectors, capture, tray, TLS, dashboard, packaging | | | | I/O, parsing, configuration |

### What is hard to test

`PROJECT.json`, "hazards", has each at its line.  In short: what a handler has
read before an await or between two transactions and uses afterwards (the
organisation of a connection, the rows a loop has fetched, the status a policy
had); old and new connections of one device at the same time; two executions,
two readings or two updates of the same thing at the same time; a stop or an
exception between storing a fact and telling about it; counters kept by hand
over a queue that is purged; requests that are carried out although their
answer is lost; parties that learn of each other's end through a flag and a
socket only; the same fact kept in several places (the settings of an agent, the
rows of a node); readings put together from a score of requests, any of which
may fail; and loops that must get round to everything although parts of them
fail.

## 2. The modules

Each `MC` module only gives names to model values and constant functions for
the configurations, and brings together the modules of one run.  `...Proofs`
modules hold the theorems; four of them extend two components that have nothing
to do with each other, and prove about one after the other, which is why
SignIn, ScreenSession, Nodes and AgentUpdate have names of their own for their
specification and parameters (`ScreenSpec`, `Nothing`, and so on).  Definitions whose comment begins "Mutant of" are not
part of a specification: each is a plausible mistake in the code behind the
definition it stands next to, and is used to establish that the properties
notice.

Seven modules have no variables: Access, Migration, FramePace, UnifiReading,
M365Reading, SnmpCodec and WsClient.  They hold algorithms, as operators on the
data they work on, and what is said of them (`EveryStartResumes`,
`EveryReadingIsHonest` and so on) is said of all data of the instance: a
formula without variables, which TLC evaluates once.  The MC module of the
component that uses an algorithm (of the readings, the module CloudReadings) ties
it to that component's state, where what it does takes effect: a reading that has been stored is honest
(`ReadingIsHonest`), a version that is up has taken over the database
(`StartResumes`), and so on.

### Enrolment, EnrolmentProofs

The first message of an agent's socket until its handler has ended.  A
connection `c` has a `phase`: "hello" (accepted, register not yet handled),
"admitted" (known row or spent key), "checked" (secret compared or issued),
"greeting" (upserted and registered; secret, policy and role are being sent),
"serving", "closed".  `At(c, p)` is the event loop: while one handler is between
"admitted" and "checked" no other handler moves, but the administrator's
endpoints, which are threads, do.  From "greeting" on handlers interleave.

| Action | Code |
|---|---|
| `AgentConnect`, `AgentSend`, `AgentSaveSecret`, `LoseConn` | the agent's `run`, `_metrics_loop`, `_sync_now`, `_handle("device_secret")`, the network |
| `AdmitKnown`, `AdmitNew`, `RefuseUnknown` | token check of `agent_ws`, `consume_enroll_token` |
| `CheckSecret`, `IssueSecret`, `WithoutSecret` | per-device secret, trust on first use |
| `Register`, `RegisterFails` | `upsert_device`, `manager.register` |
| `SendSecret`, `Greet`, `HandleMetrics`, `HandleRegister`, `HandleDisconnect` | the rest of the handler, `_handle_agent_msg`, the `finally` |
| `Approve`, `DeleteDevice`, `MoveDevice`, `DeleteOrg`, `DropToken`, `ResetConfig` | the endpoints of those names |
| `ServerRestart` | loses the memory and keeps the database |

A secret is named by the connection it is issued on; that is enough to tell a
current one from an old one.  Metrics stand for every message that writes a row
which refers to the device.

### ViewerPipe, ViewerPipeProofs

One device's screen and its viewers.  `pipe[v]` is the `_ViewerPipe`: items with
their ages, the counters `frames` and `bytes`, `waiting`, `wants`, `asked`, what
the task is sending.  `Offer` is `offer` with its purge, catch-up and limits,
`Fanout` is `fanout` with the removal of dead pipes and the rate-limited request
for a keyframe.  The capture loop is reduced to what it sends next and to the
window between its test and its clear of `want_key` (`AskOverlooked`).
`StaleFrameArrives` is a frame that the handler of a replaced connection still
reads.  `tail` and `garbled` are history: whether the stream put together for a
viewer still reaches the last frame ("whole"), has lost one ("cut"), or has had
a frame of a replaced connection put into it ("mixed"), and whether a delta ever
entered a cut stream.

### ScreenSession, FramePace (proofs in ViewerPipeProofs)

`ScreenSession` is where those frames come from and when they end.  A session
has three parties: the agent's object with its `stop` flag, the thread that
relays (`bridge`), and, on Windows, a helper process with a capture thread, an
input reader and a banner (`helper`).  They learn of an end from each other
only, through the flag and the loopback socket.  On other systems the thread
captures by itself; `platform` is chosen in Init.  On the server, a viewer's
handler (`_bridge_ws`) starts the capture, or replaces it if it wants to
control, and stops it when it leaves, whoever else is watching.

| Action | Code |
|---|---|
| `Open`, `StartCapture`, `Close`, `Finish` | `_bridge_ws`: accept and subscribe; `screen_start`; the socket's end; the `finally` with `screen_stop` |
| `Bridge` (launch, accept, relay, end) | `_win_bridge`, `_session_loop` |
| `HelperStep` | the helper's capture loop, sender, input reader, banner, exit |
| `DirectFails` | the capture on other systems giving up |
| `Lose`, `Reconnect` | the agent's connection |

A message from the server to the agent is handled in the step that sends it:
the agent handles them in order, and one that is lost with the connection is one
that was not sent.  Frames queued in the helper and frames in the socket are one
count.  What input does to the device is left out.

`FramePace` is `_Pacer`: from the evidence of one window (held or not, cheap or
not) to the next rate.  A window is one unit of time; how many windows a rate
has to settle and to cool off are constants, scaled down.  `PaceIsSteady` says
of every sequence of ten windows that the pacer does not see-saw.

### AlertEngine, AlertEngineProofs

One round of `_alert_loop`, with `evaluate_once` cut at each of its database
calls.  `pc` is "scan" (the next device), "rules" (the next rule of `cur`),
"clear" and "mail" (inside `_apply`, after the alert is stored), "fix"
(remediations), "hooks" (deliveries), "sleep".  A reading is "bad", "fine" or
"none" for each device and alert key: which comparison makes it bad is the data
that is abstracted, `Judged` and `Broken` keep the conditions under which each
kind of rule is looked at (online, data present, heartbeat).  Backup rules share
the alert of the device's backup task, so the key of an alert is the rule or
`BackupKey`.  `EvaluationFails` is an exception anywhere in the evaluation, which
`_alert_loop` logs and survives; events queued by then are delivered after a
later evaluation, remediations asked for are dropped.

`EpisodesAreTold` is stated of every behaviour, failures included, by counting
what is due: `unmailed` and `owed` are the mails and incidents of each alert that
have become due and have not been written, `hooked` is the last event delivered.
What is due is zero but for what `_apply` is about to write, and for at most one
mail and one incident per failure; events alternate in whatever is in the queue
or being sent, and end at the alert as it is stored.

`DeleteRule` runs only while no evaluation does, because its endpoint is a
coroutine; `UpdateRule` and `DeleteDevice` are plain functions and run at any
time.

### CloudPolls, UnifiReading, M365Reading, CloudReadings, CloudPollsProofs

`CloudPolls` is when the UniFi and Microsoft 365 readings are taken and what they
do, one module with a variable `service`, chosen once from `Services`, where the
two differ: when a reading counts as taken (`MarkedAtStart`), whether an alert
about something that is not in the reading is cleared (`ToJudge`), the alert
about signing in.  A reading is a task: "reading" (requests on a worker thread),
"read", "evaluating" (stored, alerts being applied).  Requests fail each by
itself (`Collect`'s `missing`) or all together.

`UnifiReading` and `M365Reading` are what one reading contains: each is a
function (`UnifiSnapshot`, `M365Snapshot`) from what fails to the snapshot that
is stored, for a fixed account.  A failure is a request with how it fails: an
error, a refusal for the rate at the first or also at the second try, a 403, a
report without names.  `UnifiReading` follows `collect` through consoles, sites,
device pages, the topology (who is above whom, which VLANs a port has after its
own settings, the console's overrides and its profile), DHCP, routers and the
three kinds of VPN, whose rows of two APIs are joined by their names in lower case
(`ListedAs`, `KeptAs`): VPNs of one name become one, and one that the APIs call by
two names is listed twice.  `M365Reading` follows the parts and what one takes from
another: names of users, role holders, members of groups, mailboxes that are
looked at one by one.  The caps of the code (pages, details, mailboxes, member
lists) are constants, scaled down so that they are hit.  `CloudReadings` brings the
three together and says of a reading that has been stored that its contents are
honest: that they agree with those of a reading in which nothing fails, as far as
what they were made of was answered.

### ScriptPolicies, ScriptPoliciesProofs

The schedule loop and `run now` requests as `Runners`, each executing one job or
policy from the row it has read (`was`): device after device, a script, then for
a policy a remediation; then the mail (`Notify`), then the mark (`Mark`).
`running[d]` counts the `script_runs` rows that say 'running'.

### ServerUpdate, ServerUpdateProofs

The helper's plan as a sequence of requests to the Docker daemon.  `Ask` is a
request that is answered; the helper looks at the answers of `create` and `start`
only (`Insists`).  `AskRefused` is an error of the daemon's own, `AskRaises` a
request without an answer, carried out or not.  Names are numbers: 0 is the
server's name, each rename to the backup name adds one.  The containers use the
host's network (`docker-compose.yml`), so `port` is who serves.  `Settle` sees
the new container working only when it does have the port.  `crossed` is
history: whether one update's helper was launched while another's was still at
work.

### RequestPromise, AgentLink, AgentLinkProofs, WsClient

`RequestPromise` is what an endpoint relies on when it asks a device for
something: it is done at most once, the request ends once, and is answered only
with what was done for it.  A request that ended with an error may have been
carried out, or may yet be; that is in the abstract specification because it is
so in the code: a script that runs when the wait is over keeps running, and one
queued behind it starts all the same.

`AgentLink` is the code: `request` as "new", "sending" (in `conn.send`),
"waiting" (in `wait_for`) and its ends; connections with what is on its way in
each direction; and the agent, of one of two kinds.

* `kind` "full" is `agent.py`.  In `pc`, "linked" is `gather` with a receiving
  task, "deaf" `gather` without one: after an orderly close the `async for` of
  `_recv_loop` ends, the SNMP task never does, and the agent stays without a
  connection until its process ends.  The receiving task handles one request at
  a time (`doing`); an update of the agent is a task of its own (`apart`) and
  replies on whatever connection there is by then.
* `kind` "slim" is `syno_agent.py`, which also runs on Home Assistant OS
  (`haos_agent.py`).  It hands what it receives to threads (`apart`); only the
  refusal of an update is answered by the loop itself.  A connection is there
  for every thread, as `self.ws`, before the inventory has been collected and
  the register sent ("joining", `Introduce`), and a heartbeat that was at its
  metrics when its session ended (`late`) sends them all the same.  The server
  closes a connection whose first message is not the register (`Refuse`);
  `first` is what was first on each.  In which order the pool takes what it has
  been given is left open, and so is whether a heartbeat is late.

| Action | Code |
|---|---|
| `Ask`, `Sent`, `SendRaises`, `Return`, `TimesOut` | `ConnectionManager.request` |
| `HandleAck` | `_handle_agent_msg`, `resolve` |
| `Register`, `Refuse`, `HandlerEnds`, `HandlerFails` | `agent_ws`, as far as requests notice |
| `Connect`, `Receive`, `Reply`, `ReplyFails`, `HandlerRaises`, `ReaderEnds`, `TaskReplies` | `Agent.run`, `_recv_loop`, `_handle`, `_ack`, `_self_update`; `run_forever`, `_session`, `_handle`, `_submit` of the appliance's |
| `Introduce`, `LateHeartbeat` | `_register`, `_heartbeat` of the appliance's |
| `Lose`, `CloseAbandoned` | the network; the server's framework |
| `ServerRestart`, `AgentRestart` | either process ends |

`WsClient` is that agent's WebSocket, which is written by hand on a socket
(`WSClient`): `Read` over chunks, `Connected` (what comes in the chunk of the
handshake's last line is kept), `ReadFrame`, `Received` (fragments, pings, pongs,
binary messages, the close), `SendFrame`.  The sizes at which a length is written
in two and in eight bytes, and how much a byte of them counts, are constants
(2 and 2 for 126 and 256), so that every form occurs with a payload of a few
bytes.  A text is its bytes (the code decodes a message when it is whole).

### Nodes, SnmpCodec (proofs in EnrolmentProofs)

A device with the node role is told its subnets and SNMP targets in messages; the
rows are on the server, the copy (`agent`) in memory that a restart loses and a
lost connection does not.  `inbox` and `outbox` are the messages on the way, in
order.  `Promote`, `Demote`, `AddSubnet`, `CreateTarget`, ... are the endpoints:
each changes its row and sends its message without awaiting anything in between,
so each is a step.  `told` says whether the present connection has brought an
SNMP list.  A scan gives each host of its subnets as found or not, and ages the
others (`ScanEnds`).  A poll carries the version of the target it was started
with; how its host answers a version (`replies`, which changes, as do hosts) decides
how it ends: answered for all the version's OIDs or for some, not answered, or, when
no query can be sent, never said (`Outcome`, `Ways`).  A poll that fails leaves no
readings, but says so on the row (`lastOk`); readings are kept for each OID, and
shown until they are thirty days old (`ReadingAges`, which each poll that is stored
sees to, the failed ones too).  `SnmpCodec` is `snmp.py`'s BER encoding of what is asked and decoding of
what is answered, on real bytes; `walk`, which nothing calls, is left out.

### AgentUpdate (proofs in ServerUpdateProofs)

One Windows device through updates.  The settings (server and key, one value:
they are always written together) are in four places: `reg`, the machine's
environment in the registry; `boot`, the copy that Windows hands to scheduled
tasks, as old as the last boot; `file`, the agent's own; and `agent.cfg`, of the
process.  An update is asked for (by the policy when the agent connects, by its
loop, by an administrator), downloaded, and handed to a script (`helper`) that
waits for the process to end, runs the installer, writes the settings back and
starts the task; two may be under way.  The installer and the Task Scheduler are
modelled from what `agent.wxs` and `updater.py` say of them.

An installation has three steps, since `MajorUpgrade` (`agent.wxs:19`) with its
default schedule removes the old product, in a transaction of its own, before
the new one's begins: `Removes` takes the old version away with the environment
and the task, after which nothing is `installed`; `Copies` puts the new one in
its place, makes the task and starts it; `WritesEnvironment` ends it.  What can
go wrong has an action at each: `InstallFails` (refused, or failing before
anything is removed), `RemovalFails` (the old files come back, the task does
not), `InstallBreaksOff` (nothing is put back), and `Reboot` at any time.  The
agent on its part has run through `main` when it is "up"; before that it is
"starting", with the folder and the firewall to see to, and has not looked after
its task (`LooksAfterTask`), so that Windows does not start it again if it
crashes there, nor if looking after the task, which is best effort, fails.
`broken` is history: whether one of these has come about.

Left out: the certificate's fingerprint and the insecure flag (one is named in
section 6); that the installer's own making of the task fails, which it ignores;
the update on Linux, which writes file after file in place.  The four `setx` of a
script are one step.

### Accounts, AccountsProofs, Access, Migration

`Accounts` has the users' rows with their second factor and recovery codes, the
invitations, whether the set-up is complete, and `req`, the requests under way,
with what each has read.  A step is one stretch in which no step of another
request makes a difference: an asynchronous handler is one step before its
body has come and one after, a plain one, on a thread, a step per statement that
matters.  Who a caller is is looked up first and not again, so a request may be
carried out for an administrator who no longer is one (`Crossed`).  The setup
wizard writes one account after the other, each over whatever has its name, and
passes over those without a name or with too short a password, the first
included (`SetupAccount`, `SetupSkips`).  An invitation's account and the end of
the invitation are two steps (`Accept`, `AcceptCloses`), between which the server
may stop (`torn`).  Checking a form and creating a row are one step; passwords are
not modelled; `AUTH_MODE` is "hybrid", and no administrators are named by the
environment.

`Access` is who may see and do what: the six tables of assignments and groups,
the questions the code asks of them, each a query of its own
(`user_effective_role`, `orgs_for_user`, `user_effective_perms`,
`_sso_identity`), and the endpoints that change them, as operators on the tables.
A role is any text, as in the requests, the empty one included (`OtherRoles` are
those that the code does not know); deleting an account changes none of the
tables (`RemoveAccount`).  Accounts, whose endpoints answer these questions, extends it, and states
`AccessIsConsistent` of every contents the foreign keys allow, so that no
sequence of endpoints is left out.

`Migration` is `init_db` and `_migrate` over a database of an earlier version: a
start is a sequence of statements, a database what has been done to it, and the
disk has what is committed, by the rules of Python's `sqlite3` (a transaction
opens at the first row that is written, a change of the schema is committed at
once unless one is open, `executescript` commits first and then each statement).
An earlier version is any subset of the units of the upgrade that are not there
yet.  `StartResumes` takes every database that up to `MaxCuts` starts, each cut
anywhere, leave, those included that are cut within what belongs together (a
column and its values, the statements of a script).  It says which such units can
be torn, five in all, what exactly a start that is not cut then ends with (it
fails, or leaves out what is torn and nothing else), and that all else is as it
should be and stays so.  What is torn is not made good, here or later: section 6.

### SignIn (proofs in AccountsProofs)

What is about time: the sliding window of failed sign-ins and the mail about
them, the addresses that may sign in, the tickets that hand a signed-in person
over to the desktop console or the app, the codes that link the app, and API
keys.  A request is one step.  The clock counts half seconds (`Second` is 2),
since signed tickets are stamped in whole seconds while the table of redeemed
ones is pruned by the fraction.

### How they compose

The components meet in the database and in the registry of connections, not in
shared control, so each is a module that keeps, of its neighbours, only what it
can observe: `online` in AlertEngine and ScriptPolicies is the `registry` of
Enrolment, changed by connections that come and go at any time the event loop is
free; deleted devices appear in AlertEngine as `exists`.  ViewerPipe's
`AgentConnects`, with frames left over, is Enrolment's overlap of two handlers,
and its `CaptureChanges` is ScreenSession.  AgentLink begins where Enrolment's
handshake ends (`Register`), and what AlertEngine's remediations,
ScriptPolicies' executions and the file operations do with a device is one
request of AgentLink; `AgentRestart` there is what AgentUpdate does in detail.
What CloudPolls calls a reading with parts missing is what UnifiReading and
M365Reading make of one.  The only composition of which a refinement is checked,
and proved, is AgentLink under RequestPromise.

## 3. The runs

There are twelve, and all of them pass.  Each takes between half a minute and three
minutes.  Several properties are conjunctions of parts that are about one hazard;
the parts have comments of their own in the modules.

| Run | Instance | Questions |
|---|---|---|
| EnrolmentFleet | 2 devices (one whose agent keeps no secret), 2 organisations, 1 key, 2 connections, 2 requests of administrators | Do old handlers corrupt the registry or the secret (`RegistryTracksLast`, `DeliveredSecretIsCurrent`)?  Can two machines share a key, or a device be filed where nobody put it, or leave the queue by itself (`OneKeyPerDevice`, `OrgIsGranted`, `PendingUntilApproved`)?  Does a lost device go offline (`LostAgentGoesOffline`)? |
| ViewerPipeRelay | 1 viewer, limits 2 frames / 3 bytes, 1 stale frame, 1 overlooked request | Are the counters exact, the limits kept and control messages never dropped (`QueueIsKept`: `CountsMatch`, `QueueBounded`, `ControlNeverDropped`)?  Is a viewer ever fed a delta after a gap (`Decodable`)?  Does who waits get a keyframe (`WaitingViewerIsServed`)? |
| ScreenSessions | 2 viewers, one in control and one taking stills, 2 sessions; the pacer with 3 rates, 10 windows | Is a replaced session silent, and is every other end told (`SessionEndsCleanly`: `ReplacedIsSilent`, `EndIsTold`)?  Do the helpers and banners of stopped sessions end (`StoppedHelpersEnd`)?  Does the rate see-saw (`PaceIsSteady`)? |
| AlertScan | 1 device, an offline rule with mails and a wake-up, 2 backup rules on one alert; 4 moves, 1 failed evaluation, 1 fault | Do events, mails and incidents tell of the same episodes with at most what was being told lost per failure (`EpisodesAreTold`: `HooksFollowAlerts`, `MailPerChange`, `IncidentPerEpisode`)?  `RemediationOnce`, `NoAlertWithoutRule`.  Is the alert in the end what the reading calls for (`AlertFollowsReading`)? |
| CloudReadings | either service, 1 account, 2 items, 2 readings at once, 4 moves, 1 error; a UniFi account of 2 consoles and 3 sites, a tenant of 2 users and 3 mailboxes, any two failing requests | Are the alerts those of the reading on show (`AlertsMatchReading`), and is lasting trouble an alert (`TroubleIsRaised`)?  Does a reading agree with the account wherever it was answered, and name the consoles or parts that were not (`ReadingIsHonest`, `PartsAreNamed`)? |
| PolicyRuns | 1 job, 1 policy with remediation, 1 device, 1 request, 3 moves, 1 restart | Do rows, mails and status tell what the executions were (`ExecutionsAreTold`: `RowsFollowRuns`, `MailsFollowStatus`)?  Is what is due executed (`DueIsExecuted`)? |
| UpdateSwap | 3 updates, also at once, good or bad versions, 1 failed, lost or killed step; every old database, 2 cuts | Is a version that works kept, and one server left (`WorkingServerIsKept`: `ProvedIsKept`, `OneServerIsLeft`)?  `ServerComesBack`.  What does a new version make of whatever database it finds (`StartResumes`)? |
| LinkRequests | an agent of either kind, 2 requests, one of them an update, 2 connections, 2 faults (1 for an appliance); payloads of 0 to 9 bytes, every size of chunk, every place to break off | Does AgentLink implement RequestPromise (`RequestsKept`)?  Does every request end, and does the agent come back (`NothingHangs`: `RequestsEnd`, `AgentComesBack`)?  Does the socket give every message (`SocketIsExact`)? |
| AccountsKept | 2 names, 1 invitation, 2 requests at once, 5 moves; 1 user in 1 organisation and 2 groups, 5 roles, every contents | How can the last administrator go (`AdminRemains`)?  Does whoever is asked for a second factor have codes (`SecondFactorHasCodes`)?  Does an invitation that is over give no account to who comes later (`InvitationOnce`)?  Do the questions on access agree (`AccessIsConsistent`)? |
| SignInTimes | 1 key, 1 ticket, 2 codes, 2 API keys, 5 ticks of the clock, restarts | `ThrottleHolds`; `HandOffsOnce` |
| NodeDuties | 1 device, 1 subnet, 1 target in 2 versions that ask for 1 and 2 OIDs, 4 moves, 2 faults; numbers, object identifiers and texts at the edges of their encoding | `TargetsReachNode`, `ReadingsFollowTargets`; `SnmpIsExact` |
| AgentUpdates | 2 versions, 2 settings, 2 helpers at once, 3 moves, 2 faults | `NoWayBack`; `AgentReturns`, `UpdatesSettle` |

What the answers are subject to is in each property's comment.  In particular:
the mails of a policy are one per change while its executions do not overlap; one
server is left while updates do not cross; an agent comes back unless its
connection was closed in an orderly way (the full agent), and an update brings it
back unless the installation breaks off or the agent could not look after its
task; an administrator remains unless demotions cross or the wizard is run again;
an invitation gives one account unless requests on it overlap or the server stops
between the account and the end of the invitation; a node's targets are the rows'
once its connection has told it any.
Section 6 has what happens otherwise.

### Bounds, and why they are enough

Every bound is a CONSTANT used in a guard and named in the module: `MaxAdmin`,
`MaxMoves` (requests of administrators and changes in the world), `MaxErrors`,
`MaxFaults`, `MaxMishaps`, `MaxUp`, `MaxItems`, `MaxStale`, `MaxLost`, `MaxAtOnce`,
`MaxSessions`, `MaxTime`, `MaxCuts`, and the sets `Conns`, `Polls`, `Requests`,
`Helpers`, `Slots`.

* Connections: two let an old and a new handler overlap, of one device or of
  two; the handler code compares one connection with one entry.  The theorems
  about the registry and the secret hold for any number.
* Devices: the components treat devices independently except for shared keys
  (EnrolmentFleet has two) and for the scan's progress from one to the next
  (the theorems about AlertEngine hold for any number).
* Moves: the shortest histories that matter in AlertEngine are add a rule,
  reading bad, reading fine, reading bad (a second episode), or two rules on one
  alert, a reading and something that interferes: four moves.  In CloudPolls:
  link, change, change back, delete.  In Nodes: create a target, promote, edit, and
  a change of how the host answers.  In AgentUpdate: save, publish, push, with the
  faults beside them.  In Accounts: enable, invite, accept, promote, demote.
* Requests: two, so that one can be behind the other and one reply can be
  mistaken for the other's; the theorem holds for any number.  Two requests of
  administrators overlap in every order of their steps.
* Relay limits: what matters is being below, at and above each limit.  Sizes
  of 1 and 2 with a byte limit of 3 let the byte and the frame limit each be
  the one that is hit.
* Updates: of the server, two overlap, and a third begins from what two have left
  behind; of an agent, two helpers can be at work because the message that starts
  one is not refused while another is.
* Screen sessions: two, since one can only be mistaken for the one before it.
  Two viewers of the two kinds are the smallest set in which one replaces the
  other's session and one leaves while the other watches.
* Time: SignIn's clock goes on for five ticks, the window being three of them and
  a ticket's life two; FramePace's ten windows hold two failures with the doubled cooling-off
  between them.
* Failing requests of a reading: two, so that one failure can hide another's
  mark; what a request's failure does depends on that request and at most one
  other (a first and a second page, a site and its console, a part and the users
  it is about).
* Encodings: numbers, lengths and chunks on both sides of every place where the
  form changes.

Deadlock is checked for AlertEngine and ScriptPolicies, whose loops never end.
The other models may really stop: connections, moves and updates are finite, and
a server without work is no error.  That nothing gets stuck on the way there is
what the liveness properties check.

## 4. Fairness

| Module | Assumed | Why the code justifies it |
|---|---|---|
| Enrolment | weak fairness of each handler | the event loop runs every handler that can run; the WebSocket keep-alive ends a dead socket |
| ViewerPipe | time passes; the capture loop sends what is due (a keyframe only at its start or on request, never of the encoder's own accord); a request arrives; a viewer's send ends | the capture loop encodes a frame each tick also of a still screen; a send either completes or raises |
| ScreenSession | the relaying thread goes on; so do the helper's capture, reader, banner and exit, once the helper is on its own | they are threads that wait with a timeout and look at the flag; nobody need close a viewer or click Disconnect |
| AlertEngine | the loop goes on | `_alert_loop` catches every exception and sleeps; nothing in it waits without a limit.  Exceptions, restarts, mails and deliveries that fail are not part of it: the loop need not have them |
| CloudPolls | a reading under way goes on, each account's round comes, intervals pass | every request has a timeout |
| ScriptPolicies | the loop and each request go on | `manager.request` has a timeout |
| AgentLink | a send leaves or raises, a wait is timed, handlers on the server go on, a handler on the agent ends, the agent tries to connect again, a connection that nobody serves is closed | `asyncio.wait_for`; the handlers have timeouts of their own; `run` and `run_forever` loop for ever; the keep-alive of the WebSocket.  Replies are not assumed to be read, nor requests to be handled before their time is up, nor threads to be done |
| ServerUpdate | a helper goes on, Docker restarts a server that is to run | every request and the wait have limits; `restart: unless-stopped` |
| Nodes | the agent connects, messages are read, polls and scans end, readings age; strong fairness of the loop's polls | probes and queries have timeouts, so a poll of a host that does not answer ends too; `_snmp_loop` comes round again, and what it finds changes between its rounds; none is assumed of how hosts answer |
| AgentUpdate | tasks that are to run are run, the agent goes on from its start, connects and does what it is asked, the loop comes round, scripts go on; strong fairness of the removal | the Task Scheduler's settings in `agent.wxs`; two scripts that never let each other remove the old version would have to keep in step for ever |

No fairness is assumed of administrators, faults or clouds, and in Enrolment none
of `AgentConnect`: a device need not come back.  Accounts, SignIn and the modules
without variables state safety only.

## 5. The proofs

TLAPS checks the eight `...Proofs` modules.  Nothing is assumed but the ASSUMEs
of the modules, which TLC evaluates in every run: the kinds of the constants;
that what marks the absence of a value (`None`, `Nothing`, `Nil`, `Unset`) is not
one; that what has an identifier is listed once (the accounts of the cloud
services); how the relay's
limits are ordered; that the rules of AlertEngine and the requests beside the
loop of ScriptPolicies are finitely many, since there something is counted.
`TypeOK` is part of an inductive invariant and is proved for the eight components
the modules are named after (for Accounts it is defined in the proof module, as a
conjunct of `AccountsInv`); no run states it.  For the other four the invariant
has the types of what it speaks of.

An invariant that a run checks is seldom inductive.  Below is, for each
theorem, what has to be added to make it so: that is the reason why the code is
right, and what a change must not break.

**EnrolmentProofs**, for any fleet, organisations, keys and connections.
`Typing` (`TypeOK`) is inductive by itself, one lemma per group of actions.

* `RegistryCorrect`: `RegistryTracksLast`.  Inductive given the types: a
  handler's own cleanup is guarded by `IsCurrent`, so only the last registered
  handler's entry is ever there to remove.
* `SecretsAgree`: `DeliveredSecretIsCurrent`.  The invariant adds what is under
  way: a secret on its way down, or still to be sent by a handler, is the one on
  file, and secrets on file are not replaced while the settings are kept.
* `OrgsGranted` and `KeysEnrolOneDevice`: `OrgIsGranted`, `OneKeyPerDevice`.
  Both say of a row what was true when it was inserted, but the insert happens
  steps after the key was looked at, with administrators in between.  The
  inductive `AdmissionInvariant` says what a handler in between carries with it:
  that its organisation was granted, and that a key has been spent for its
  device.
* `ApprovalNeeded`: `PendingUntilApproved`, of each step by itself: no way of
  registering, first or repeated, writes the approval of a row that is there.

Of Nodes, for any subnets, targets and versions, and any number of moves and
faults:

* `TargetsReachNodes`: `TargetsReachNode`.  Inductive once the messages under way
  are typed (`NodesInv`).  The work is in lemmas on what the messages of a queue
  come to (`ComesTo`): sending one that brings targets makes them the outcome
  (`NewsIsSent`), sending another changes nothing (`OtherIsSent`), and reading the
  first one moves what it brings from the queue to the agent (`MessageIsRead`).
  So every endpoint that changes a row must send the list in the same step, and
  no message may overtake another.

**ViewerPipeProofs**, for any viewers and any limits.

* `QueuesBounded`: `QueueBounded`, the second part of `QueueIsKept`.  The bound
  follows from the counters alone (the contents of the queue are left untyped),
  which is how the code enforces it.
* `StreamsDecode`: `Decodable`.  The invariant is that a viewer whose stream has
  been cut is waiting for a keyframe: every path of `offer` that drops a frame
  must set `waiting`, and every path that clears it must put in a frame that
  stands alone.
* `PipesKept` is the inductive invariant of both.
* `QueueKept`: `QueueIsKept` as a whole, for queues of any length.  The invariant
  (`QueueInv`, in `RelayInvariant`) is that the counts of a pipe are those of
  its items; dead pipes keep counting.  The work is in lemmas about queues:
  what the messages of a queue (`ControlOnly`) and the number of its frames of a
  kind (`Queued`) become when an item is put behind it or taken from its head,
  when it is purged, when its items age.  `RelayTyping` is `TypeOK`.

Of ScreenSession, for any viewers and any number of sessions:

* `SessionsEndCleanly`: `SessionEndsCleanly`.  That a replaced session is silent is
  not inductive: its thread may be past its test of the flag.  `SessionSound` says
  of each thread that what it hands over after a stop is one frame at most
  (`late`), that it then is at the end of its loop, and that a thread that is done
  has said so or was stopped.  One lemma for each way a session changes: stopped,
  started, a step of its thread.

**AlertEngineProofs**, for any devices and any finite set of rules.

* `EngineTyping`: `TypeOK`, which takes that the transition `_apply` is telling
  is known and that an incident it writes is owed.
* `AlertsHaveRules`: `NoAlertWithoutRule`.  Not inductive by itself: an
  evaluation raises alerts from rules it has read earlier.  The invariant
  `EngineInv` adds that every rule still to be applied exists, which holds since
  `delete_monitor_rule` is a coroutine; as a plain function it would break it
  (the mutant of that run).
* `RemediationsOnce`: `RemediationOnce`.  "At most once" is not inductive: what
  has been started in an episode and what waits to be started are together no
  more than the rules that keep the alert (`WithinRules`), which holds because an
  evaluation takes each device once (`JobsApart`) and asks only for an alert that
  it raised itself, of which nothing has been started yet (`NewEpisodes`).
* `EpisodesTold`: `EpisodesAreTold`, of every behaviour, stops, exceptions and
  failed mails included.  Inductive given `EngineInv` and `LifeInv`: the transition
  `_apply` is telling is the one it stored, about a rule of the device it is at;
  deliveries are under way only between evaluations; a rule that has never
  existed has left nothing.  For mails and incidents each step is compared with
  the failures there have been (`LossesKept`): what a failure cuts off is the one
  transition under way (`CutOff`), and a change stored is one mail and one
  incident due (`NewChange`).  For events the work is in lemmas about queues: what
  is said last of an alert is the alert as it is stored, and a word put behind it
  is another one (`OneMoreWord`, `StoredAndQueued`).

**CloudPollsProofs**, for either service and any accounts, items and readings
under way.

* `AlertsFollowReadings`: `AlertsMatchReading`.  `ReadingsInv` says of each item
  at every moment that its alert matches the stored reading, or that the one
  evaluation under way is of that reading and has still to judge the item; that
  evaluations do not overlap is part of it.  `ReadingsTyping` is `TypeOK`.
* `ReadingHonest`: `ReadingIsHonest`, of any account (consoles, sites, devices,
  networks, VPNs with whatever names in the two APIs, port settings, caps) and any
  set of failures.  With everything
  answered each operator gives what it gives without failures (`SameReading`, by
  way of the lemmas named `Same...`); otherwise each part that is read is that of the
  reading without failures or the value for unknown.  What is used of the account
  is in `AccountAssumption`: a network and a VPN are at one site, a site is at one
  console, nobody is not a device.
* `PartsNamed`: `PartsAreNamed`, of any tenant and any failures.  A list that is not
  named as failed has been worked off to its end (`WorkedOffIs`), so whatever is
  given is what it would be without failures; candidates for shared mailboxes
  are users without a licence, listed once (`CandidatesAssumption`).

These two speak of one reading, so what is proved is a fact about data; the
invariants are this fact for the readings that are stored.

**ScriptPoliciesProofs**, for any jobs, policies and devices and any number of
requests beside the loop.

* `ExecutionsTold`: `ExecutionsAreTold`.  For the rows (`RunsInv`): each device
  has at least a row that says 'running' for every runner that waits for a script
  on it, and as many while the server has not stopped.  For the mails
  (`MailsInv`): what is mailed goes by the status read before the execution, so
  for a policy that nothing has spoilt, nobody else executes it or is about to
  (`Alone`), the status read is the one stored and the last mail says it
  (`Current`), and its result is a verdict.  `ExecutionsTyping` is `TypeOK`.

**ServerUpdateProofs**, for any number of updates, overlapping and failing in
any way.

* `WorkingServersAreKept`: `WorkingServerIsKept`.  That a working container is
  there is far from inductive: a helper that has found its container up may come
  late to the removal of the old one, when its own has been removed for the
  next.  `UpdateInv` follows this line of containers.  It cannot close, since an
  update is asked of a container that is there for one that is not (`Ranked`),
  so it has an end, and that one has not been removed.  That one update at a
  time leaves one server is `OneAtATime`: where between two servers the plan is.
  `UpdateTyping` is `TypeOK`.

Of AgentUpdate, for any settings, versions and helpers at work at once:

* `NoWayBackEver`: `NoWayBack`.  What a process has loaded depends on what four
  places held when it started, which depends on the process that handed them on.
  `KeptOrUnreached` has three cases.  Where the copy for scheduled tasks is of the
  settings saved last, or is none, every other place and every helper holds those
  as well, or nothing where the next in line then has them (`AllHoldLatest`);
  where it is older, no process has yet run with the latest.  An installation
  that breaks off, or a boot in the middle of one, may take the environment away
  for good: then what is left holds the latest settings everywhere, or no process
  has run with them and they are nowhere (`NoneHoldsLatest`).

**AgentLinkProofs**, for either kind of agent and any requests, connections and
faults.

* `RequestsAreKept`: `RequestsKept`, that is, `Spec => Promise!Spec`: AgentLink
  implements RequestPromise.  A request that reaches the agent twice, or a reply
  that reaches another request, would be steps that RequestPromise does not
  have.  The inductive `LinkInv` (`LinkInvariant`) says why there are none: what
  is on its way down is there once and has not been begun, and what is on its
  way up, or in a future, is the outcome of what has been begun, under its own
  id; what a thread or a task is at has been begun.  Every step then maps to a
  step of RequestPromise or to none.
* `LinkTyping`: `TypeOK`.

**AccountsProofs**, for any names, invitations and requests under way.

* `AdministratorsRemain`, `FactorsHaveCodes`, `InvitationsOnce`: `AdminRemains`,
  `SecondFactorHasCodes`, `InvitationOnce`.  A request goes on with what it read
  before it waited, so `AccountsInv` has what that is worth (`RequestsSound`: whom
  it is by and about, that a row it holds is one, that an edit past its check does
  not demote its own caller), and that an invitation an account was made of is
  closed, or being closed, unless a stop came in between (`InvitesSound`).
  `AdminRemains` says in which steps the last administrator can go, concurrent
  demotions and a repeated setup included; `LastAdminGoes` has one case for each
  way a row changes.
* `AccessConsistent`: `AccessIsConsistent`, of tables of any size with any roles:
  the four queries agree but for empty roles, and each endpoint leaves what the
  foreign keys ask for.

Of SignIn, for any keys, tickets, codes and limits, and any length of time:

* `ThrottleKept`: `ThrottleHolds`.  A count over every window is not inductive.
  What is (`ThrottleInv`) is that each failure of a key lies a window behind the
  one `LOGIN_MAX_FAILS` before it (`Spaced`), and, since the code counts in a list
  that it prunes, that this list is the failures without some first ones that
  are old for good (`Noted`).  From the spacing follows the count
  (`WindowHolds`).
* `HandOffs`: `HandOffsOnce`.  A ticket that has been accepted is remembered until
  its life is over, whatever is pruned meanwhile (`TicketsSound`); keys that
  linking has made are of every organisation and differ in name (`LinksSound`),
  so that the next link finds the one it replaces.

## 6. Where the code and its documents disagree

No run claims a violation; the models have the following behaviours since they
are what the code does, and the properties are stated so that they hold beside
them.  Each says where the code is, and what a document, comment or docstring
says of it, if one does.

Devices, alerts, jobs

* A new device secret is stored before it is sent (`main.py:3984`): a connection
  lost in between leaves a device that is refused from then on (`README.md:297`:
  the agent persists the secret it is issued).
* A repeated register (`HandleRegister`) files a moved device back under the
  organisation its connection began with, and creates a device that was deleted
  while connected again, approved.
* A register of a connection that is already lost may come last, take the
  registry's entry from the live connection, and leave the device offline when it
  is cleaned up: `RegistryTracksLast` says "registered last", not "alive".
* An alert is stored before it is told (`alerts.py:439`): a mail that is refused,
  an exception or a stop in between loses the mail and the incident of that
  change for good, since an alert that stands is not told again (`:446`;
  `CHANGELOG.md:68`: a policy mails once when it starts alerting), and a stop loses
  the events in the queue.
* With `RMM_LEGACY_ENROLL` on, an organisation's reusable key admits any number of
  devices and no one-time key is spent (`main.py:3959`; the comment at `:3953` says
  so).  `AdmitNew` is about the default, off: with it on, `OneKeyPerDevice` is not
  meant to hold.
* The alert of a rule that is switched off, or that no longer applies to its
  device, stays (`alerts.py:128`); a remediation is not made up for when the
  device was offline at the time.
* A run on request beside the loop's gives two mails for one change of a policy
  (`main.py:2248`; `CHANGELOG.md:68`: one mail when it starts alerting).
* A job or policy that is switched off, edited or deleted after the loop has
  fetched it is run from the fetched row (`main.py:568`).
* After a restart the rows of the scripts that were running say 'running' for
  ever (`database.py:972`).

Cloud readings

* A Microsoft 365 reading that lacks a part clears the alerts of that part
  (`alerts.py:583`; `CHANGELOG.md:6`: an alert clears when a secret is rotated or
  a subscription ends).
* A reading under way when its account is deleted raises the account's alerts
  again (`main.py:373`); the Microsoft 365 loop starts another reading each
  minute while one is under way.
* What a Microsoft 365 reading leaves out without naming it: a mailbox whose own
  request fails with another error than 403; those past the first 300; the
  renewal dates; and, when the users could not be read, all mailboxes.  A 403
  after some of them leaves those in both lists.
* A UniFi console counts as read when one of its sites was; when the devices'
  pages fail no console is listed at all; without the port profiles' or the
  networks' answer a port has the VLANs of its own settings, which may be others;
  the limit on devices' details is per site (`unifi.py:411`; `:38`: "per console").
* The two APIs' VPNs are joined by their names in lower case (`unifi.py:795`,
  `:803`): of two of one name one takes the settings of both and of the other only
  a row without them is left, one that was renamed in one of them is listed twice,
  and its id depends on the API that listed it.

Server and agent updates

* When the answer to the removal of the old container is lost, the rollback
  removes the new one as well (`docker_update.py:391`; `:386`, `:394`: the
  previous version is thrown away only once the new one works).
* With two updates at once the second one's rollback cannot rename the old
  container back and starts it under its backup name; a helper that is killed
  after it has stopped the old container leaves the server down
  (`docker_update.py:377`).
* Settings saved in the tray are not used until the next boot while the boot's
  environment has old ones (`agent.py:69`, `tray.py:352`), and an update before
  that boot writes the old ones back (`CHANGELOG.md:303` has updates keep the
  settings).  A fingerprint that was cleared comes back from `rmm_config.json`.
* If what is published is older than `AGENT_VERSION`, the policy updates the
  agent again and again.  The "one-time" token of an update is not used up by a
  download.
* An installation that fails, or meets a boot, after the old version has been
  removed (`agent.wxs:19`, with the task, `:65`-`:76`) leaves the device without an
  agent and without a task, so the script's `schtasks /run` starts nothing
  (`updater.py:77`: "ALWAYS restart the agent via the scheduled task — even if
  msiexec fails", `:79`: "a no-op or failed update never leaves the machine
  offline").  When it is the removal that fails, the old files are back and the
  task is not.  `AgentReturns` and `UpdatesSettle` except these (`broken`).
* An agent that crashes before it has looked after its task, or could not
  (`agent.py:1185`, best effort), is not started again before the next boot.
* On Linux an update writes file after file in place (`updater.py:108`): a stop
  in between leaves a mixture.  (Not modelled.)

Requests and the agent's connection

* A connection that is closed in an orderly way leaves the agent "deaf"
  (`agent.py:805`); a script that is running when its connection is lost keeps
  the agent from connecting again until it ends, and its outcome is lost.
* After a quick reconnection the metrics task of the old connection goes on
  beside the new one's (`agent.py:716`; `src/README.md:405`: metrics are reported
  once in `RMM_INTERVAL`).  The tasks are no longer modelled.
* A request that timed out is carried out all the same when the agent gets to it.
* A thread of an appliance's agent, or its old heartbeat, that is done between a
  new connection and its register sends before it: the server closes the
  connection (4400), the agent connects again after its pause, and the reply is
  lost (`syno_agent.py:485`, `:526`).

Screen sessions

* Any viewer that leaves stops the capture for the others (`main.py:4353`).
* Taking a screenshot replaces a session that is being controlled, without a
  banner (`main.py:4296`; `CHANGELOG.md:132` has the banner stay for as long as
  somebody can control the device).
* Frames that the handler of a replaced connection still reads go to the viewers
  of the new one (`manager.py:118`; `Decodable` is silent on their streams).

Accounts and sign-in

* A request of somebody who is demoted, or deleted, after it came in is carried
  out.  So two administrators who demote or delete each other at the same time leave
  none (`main.py:5380` looks at the caller's own role only).
* The setup wizard writes its accounts in order over what there is
  (`main.py:5011`): an account without a name or with a password that is too short
  is passed over, the first included, and of two with one name the last counts,
  so that a setup may be complete without an administrator (`:5010`: "first
  account / any flagged one becomes a global admin"; only the browser's `setup.js`
  checks it).  It is open to whoever has begun it before it was complete, so one
  that is run again can write over the last administrator.
* An invitation is looked at before the body is awaited and used up after the
  account is made (`main.py:5550`, `:5568`-`:5571`): two that overlap make two
  accounts of it, one that is under way when it is revoked makes one, and a stop
  in between leaves it open.
* A role is any text (`models.py:48`, `:183`).  An empty one counts as an assignment
  where organisations are listed (`database.py:1652`) and as none where somebody is
  let in (`:802`); through a group it lets in, and companion apps are told
  "member".
* Deleting an account leaves its rows in `org_users` and `access_group_members`
  (`database.py:628`): whoever has an account of that name next has its access.  No
  endpoint takes a direct assignment away.
* The second factor can be switched on without a secret that has been proved, by
  a set-up that comes between the reading and the writing of `twofa_enable`.
* The settings about addresses can lock everybody out behind a proxy: the check
  of the caller's own address uses `RMM_TRUST_PROXY` as it was before
  (`main.py:5215`; `:5203` says it prevents that).

Nodes

* `netscan.py`: "only active when the agent is promoted to a node".  An agent that
  is demoted while not connected goes on polling, and `add_subnet` makes a node of
  a connected agent that is none.
* A node that is promoted while connected is not told its SNMP targets
  (`main.py:3583`); one that was demoted, restarted and promoted polls none until
  a target changes (`CHANGELOG.md:125`).  `delete_subnet` does not tell the agent,
  and a scan asked for without subnets uses the agent's own list; a scan ages the
  hosts also of subnets that it did not cover; a host that only the ARP cache
  knows is shown as online.
* Readings are kept for each OID, and the latest of each is shown
  (`database.py:2237`): after an edit that asks for others, those of the old OIDs
  stay on show, and after one to a host that does not answer all of the old
  host's do, until they are thirty days old and another poll, failed or not, is
  stored (`:2141`, `:2233`).  What is said of the latest poll is right meanwhile.
* A poll that raises an exception, of a port beyond 65535 say, is reported to
  nobody (`agent.py:951`): the row goes on saying what the poll before it was.

Upgrading the database

* A start that is cut between the column `email_verified` and the commit of its
  values leaves accounts from before unverified for good, and one cut between
  the columns of a pair leaves `verify_expires`, `software_at` or `doc_at` missing
  for good.
* One that is cut in the rebuilding of `monitors` fails at every later start
  ("table monitors_new already exists"); after the DROP, the policies are in
  `monitors_new`.

## 7. What is only model-checked, and what is not modelled

Only model-checked:

* Liveness (`LostAgentGoesOffline`, `WaitingViewerIsServed`,
  `AlertFollowsReading`, `TroubleIsRaised`, `DueIsExecuted`, `NothingHangs`,
  `ServerComesBack`, `StoppedHelpersEnd`, `ReadingsFollowTargets`,
  `AgentReturns`, `UpdatesSettle`): the proof system has no reasoning about
  fairness and ENABLED.
* Four of the pure algorithms: `PaceIsSteady`, `SnmpIsExact`, `SocketIsExact`,
  `StartResumes`.  They are recursive or fold over their data with operators the
  provers do not unfold.  (Induction as such is not what is missing: one over the
  places of a sequence can be had from `NatLessThanWellFounded`, see `UpTo` in
  ViewerPipeProofs and AccountsProofs and `Least` in CloudPollsProofs; it is the
  induction theorems with an operator as parameter, and what `SelectSeq` and
  recursive functions give, that are out of reach.)

Every other property of a run is stated by a theorem of section 5.

Left out of what is modelled:

* AlertEngine: changing a rule's notification or remediation while its alert is
  raised; deleting an organisation (the alerts of its devices stay, as those of
  a deleted device do); the alerts of backup tasks after their rule is deleted
  (the code deletes those under the rule's own key).
* CloudPolls and the readings: signing in, edits of an account's credentials, and
  the texts and figures of what is shown.
* ScriptPolicies: the rows left 'running' by a restart, which the code does not
  touch again (`RowsFollowRuns` is about behaviours without one).
* ServerUpdate: which settings are carried over to the new container, and the
  health check itself.
* ViewerPipe: the bytes of a frame, and the quality of the encoding.
* ScreenSession: input, the clipboard, terminals (they share the relay only).
* AgentLink: what the handlers do to the device; messages that expect no reply,
  but for what they do to a connection that is not registered yet; the tasks for
  metrics, for the tray's forced sync and for SNMP, of which only that they do not
  end the connection is used.
* Enrolment: `RMM_LEGACY_ENROLL`, see section 6.
* SnmpCodec: the answers it decodes are in the shortest form of each length and
  number, as its own encoder writes them; an agent that writes longer ones is not
  looked at.
* AlertsMatchReading is about behaviours without exceptions between storing a
  reading and judging it (`errors = 0`); PartsAreNamed says what is named, not
  what becomes of the alerts; the mails of overlapping executions of a policy
  (`spoilt`) and removals without an answer (`~unheard`) are outside
  `MailsFollowStatus` and `ProvedIsKept`.  Section 6 has what happens there.
* WsClient: the certificate, and that the accept token is not insisted on.
* Accounts: passwords and their hashing, mails about addresses to be verified,
  administrators named by the environment, the other modes of signing in.
* SignIn: Microsoft's side of signing in; secrets and signatures (a ticket is
  itself).
* Nodes: how hosts are found, Wake-on-LAN, Synology's API, several devices.
* AgentUpdate: see its section.

Not modelled at all, with reasons in `PROJECT.json`: the collectors (I/O and
parsing), the dashboard, TLS and secrets at rest; of the tray, capture, packaging
and mail only what the components above see of them.

## 8. Plan

The order was: first how devices come into the fleet (everything else rests on
it), then the relay (the densest bookkeeping), the alert engine, the two other
sources of alerts and jobs, the update, requests with the agent's side of a
connection; then accounts and sign-in, screen sessions, what a cloud reading
contains, nodes, the upgrade of the database, agent updates, and the appliance's
agent.  These are written.  What is left:

1. **AlertEngine**: backup keys after the deletion of a rule, edits of
   notification and remediation, deletion of an organisation.
2. **Abstract specifications**: an alert as seen from outside (raised, told,
   over, told) that AlertEngine implements when nothing fails; the registry as
   "the last connection" that Enrolment implements.
3. **Compositions**: Enrolment with AgentLink (what becomes of the requests of a
   connection that is replaced in the handshake), ScreenSession with ViewerPipe.
4. **Smaller parts**: schedules' next due time, Wake-on-LAN targets, the update
   on Linux.
