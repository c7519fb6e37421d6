----------------------------- MODULE AgentUpdate -----------------------------
(***************************************************************************)
(* How an agent on Windows is updated, and keeps its settings and its life *)
(* while it is: the updates the server sends (the auto-update policy and   *)
(* the update endpoints in server/app/main.py), what the agent does with   *)
(* them (_self_update and main in agent/agent.py, agent/updater.py), and   *)
(* the settings dialog of the tray (agent/tray.py).                        *)
(*                                                                         *)
(* The settings (server and key, which are always written together) are in *)
(* four places: the machine's environment in the registry, the copy of it  *)
(* that Windows hands to scheduled tasks and that is as old as the last    *)
(* boot, the agent's own file, and the running process.  The process is    *)
(* started by a scheduled task only.  The installer and Windows are        *)
(* modelled from what the code says of them and relies on.  One device.    *)
(* ServerUpdateProofs extends this module together with ServerUpdate, so   *)
(* the two share no name.                                                  *)
(***************************************************************************)
EXTENDS Naturals, Sequences, SequencesExt

CONSTANTS
  MaxVersion, \* bound: versions are 1 .. MaxVersion
  Settings,   \* what may be saved in the dialog
  Unset,
  Slots,      \* bound: update helpers at the same time, FirstSlot being one
  FirstSlot,
  MaxMoves,   \* bound: what administrators, users and publishers do
  MaxMishaps  \* bound: boots, crashes, lost connections, expired tokens

ASSUME UpdateAssumption ==
  /\ MaxVersion \in Nat \ {0} /\ MaxMoves \in Nat /\ MaxMishaps \in Nat
  /\ Unset \notin Settings /\ Settings # {} /\ FirstSlot \in Slots

VARIABLES
  offered,   \* AGENT_VERSION: the version of the agent the server comes with
  releases,  \* what is published, newest first: <<version>> of the agent, or <<>>, a console
  auto,      \* the policy of the device's organisation, as it comes out
  known,     \* the version in the device's row
  installed, \* the version on the device's disk, or 0
  reg, boot, file,  \* the settings in the registry, of the last boot, in the file
  task,      \* the scheduled task: [there, heals, run]; run: it is to start
  agent,     \* [state, version, cfg]; state "down", "waiting", "starting", "up"
  online,
  asked,     \* update messages the agent is at work on: "fresh" or "stale" token
  leaving,   \* the process ends in a moment
  helper,    \* helper[i]: [stage, msi, props]
  dialog,    \* the dialog has saved and is about to restart the agent
  latest,    \* what was saved last,
  reached,   \* an agent has run with it,
  overtaken, \* and it was saved while an update was under way
  broken,    \* an installation has been broken off, or an agent could not look after
             \* its task
  moves, mishaps

server == <<offered, releases, auto>>
settings == <<reg, boot, file>>
process == <<agent, online, asked, leaving>>
ghosts == <<latest, reached, overtaken, broken>>
agentVars == <<server, known, installed, settings, task, process, helper, dialog, ghosts,
               moves, mishaps>>

Down == [state |-> "down", version |-> 0, cfg |-> Unset]
Idle == [stage |-> "none", msi |-> 0, props |-> Unset]

\* The first installation, which has just started the agent; or one that is
\* over, before or after the last boot.
AgentInit ==
  /\ offered = 1
  /\ releases = <<<<1>>>>
  /\ auto \in BOOLEAN
  /\ known = 0
  /\ installed = 1
  /\ latest \in Settings
  /\ reg \in {latest, Unset}
  /\ boot \in {reg, Unset}
  /\ file = Unset
  /\ task = [there |-> TRUE, heals |-> FALSE, run |-> TRUE]
  /\ agent = Down
  /\ online = FALSE
  /\ asked = <<>>
  /\ leaving = FALSE
  /\ helper = [i \in Slots |-> IF reg = Unset /\ i = FirstSlot
                                THEN [stage |-> "first", msi |-> 1, props |-> latest] ELSE Idle]
  /\ dialog = FALSE
  /\ reached = FALSE
  /\ overtaken = FALSE
  /\ broken = FALSE
  /\ moves = 0
  /\ mishaps = 0

Move == moves < MaxMoves /\ moves' = moves + 1 /\ UNCHANGED mishaps
Fault == mishaps < MaxMishaps /\ mishaps' = mishaps + 1 /\ UNCHANGED moves
NoMove == UNCHANGED <<moves, mishaps>>

-----------------------------------------------------------------------------
(* The server.                                                             *)

\* _release_with_asset: the newest release that carries the agent's installer,
\* whatever else has been published since.
Published == SelectSeq(releases, LAMBDA r : r # <<>>)[1][1]

\* Mutant of Outdated: an agent of the server's own version is.
OutdatedOrSame(version) == version <= offered

\* _agent_outdated: versions compare number by number.
Outdated(version) == version < offered

\* create_enroll_token, and token_valid_for: a token is good until it is too old,
\* however often it is used.
NewToken == "fresh"
Valid(token) == token = NewToken

\* install_msi: the token is checked, and the newest installer is what it gives.
Installer(token) == IF Valid(token) THEN Published ELSE 0

\* _update_message, with a token that is good for two hours.  (Bound: two
\* messages at work.)
Push == asked' = IF Len(asked) < 2 THEN Append(asked, NewToken) ELSE asked

\* _org_auto_update_enabled: the organisation's own setting, or else the server's
Enabled(mode, default) == mode = "on" \/ (mode = "inherit" /\ default)

\* _maybe_auto_update, of the policy and the row as they are.
MaybePush(policy, on, version) ==
  IF policy /\ on /\ Outdated(version) THEN Push ELSE UNCHANGED asked

NewServer ==
  /\ Move
  /\ offered < MaxVersion
  /\ offered' = offered + 1
  /\ UNCHANGED <<releases, auto, known, installed, settings, task, process, helper, dialog, ghosts>>

Publish(release) ==
  /\ Move
  /\ releases' = <<release>> \o releases
  /\ UNCHANGED <<offered, auto, known, installed, settings, task, process, helper, dialog, ghosts>>

SetAutoUpdate(mode, default) ==
  LET on == Enabled(mode, default) IN
  /\ Move
  /\ auto' = on
  /\ MaybePush(on, online, known)
  /\ UNCHANGED <<offered, releases, known, installed, settings, task, agent, online, leaving,
                 helper, dialog, ghosts>>

\* The round of _auto_update_loop.
Sweep ==
  /\ auto /\ online /\ Outdated(known)
  /\ Len(asked) < 2
  /\ Push
  /\ NoMove
  /\ UNCHANGED <<server, known, installed, settings, task, agent, online, leaving, helper, dialog, ghosts>>

\* An administrator updates the device, outdated or not.
UpdateDevice ==
  /\ Move
  /\ online
  /\ Len(asked) < 2
  /\ Push
  /\ UNCHANGED <<server, known, installed, settings, task, agent, online, leaving, helper, dialog, ghosts>>

\* _update_agents_org: an organisation's outdated devices
UpdateOrg ==
  /\ Move
  /\ MaybePush(TRUE, online, known)
  /\ UNCHANGED <<server, known, installed, settings, task, agent, online, leaving, helper, dialog, ghosts>>

-----------------------------------------------------------------------------
(* The agent's process.                                                    *)

\* The task is to start, if there is one; if the agent is there already, nothing
\* comes of it.
Run == task' = [task EXCEPT !.run = task.there /\ agent'.state = "down"]

Ends ==
  /\ agent' = Down
  /\ online' = FALSE
  /\ asked' = <<>>
  /\ leaving' = FALSE

Installing(i) == helper[i].stage \in {"first", "removed", "started"}

\* _env: the process's own environment, which is as old as the last boot, and
\* then the registry's.
Env == IF boot # Unset THEN boot ELSE reg

\* _load_config
Config == IF Env # Unset THEN Env ELSE file

\* _persist_config
Keep(cfg) == file' = IF cfg = Unset THEN file ELSE cfg

\* _ensure_agent_restart_task
Healing == [task EXCEPT !.heals = task.there]

Reaches(cfg) == reached' = (reached \/ cfg = latest)

\* main: wait without a configuration, else keep it and go on.
Started(cfg) ==
  /\ agent' = [state |-> IF cfg = Unset THEN "waiting" ELSE "starting", version |-> installed,
               cfg |-> cfg]
  /\ Keep(cfg)
  /\ task' = [task EXCEPT !.run = FALSE]

\* A second process ends at once.
Start ==
  /\ task.run
  /\ agent.state = "down" /\ installed # 0
  /\ Started(Config)
  /\ Reaches(Config)
  /\ NoMove
  /\ UNCHANGED <<server, known, installed, reg, boot, online, asked, leaving, helper, dialog,
                 latest, overtaken, broken>>

\* The two minutes of waiting, which are enough for an installer: a configuration
\* turns up, or the process ends with an error, after which Windows starts it
\* again if it has been told to.
WaitOver ==
  /\ agent.state = "waiting"
  /\ \/ /\ Config # Unset
        /\ Started(Config)
     \/ /\ Config = Unset
        /\ \A i \in Slots : ~Installing(i)
        /\ agent' = Down
        /\ task' = [task EXCEPT !.run = task.there /\ task.heals]
        /\ Keep(Unset)
  /\ Reaches(Config)
  /\ NoMove
  /\ UNCHANGED <<server, known, installed, reg, boot, online, asked, leaving, helper, dialog,
                 latest, overtaken, broken>>

\* After the folder and the firewall it looks after its task, if that can be done,
\* and runs.
LooksAfterTask ==
  /\ agent.state = "starting"
  /\ agent' = [agent EXCEPT !.state = "up"]
  /\ \/ NoMove /\ task' = Healing /\ UNCHANGED broken
     \/ Fault /\ UNCHANGED task /\ broken' = TRUE
  /\ UNCHANGED <<server, known, installed, settings, online, asked, leaving, helper, dialog,
                 latest, reached, overtaken>>

\* It connects, registers, and may be sent an update.
Connect ==
  /\ agent.state = "up"
  /\ ~online
  /\ online' = TRUE
  /\ known' = agent.version
  /\ MaybePush(auto, TRUE, agent.version)
  /\ NoMove
  /\ UNCHANGED <<server, installed, settings, task, agent, leaving, helper, dialog, ghosts>>

\* _update_windows
NewHelper(msi, cfg) == [stage |-> "wait", msi |-> msi, props |-> cfg]

\* _self_update: the file is written, the installer downloaded and a helper
\* started that has the settings in force; the process ends shortly after.
Downloads(i) ==
  /\ asked # <<>>
  /\ Installer(Head(asked)) # 0
  /\ helper[i].stage = "none"
  /\ Keep(agent.cfg)
  /\ helper' = [helper EXCEPT ![i] = NewHelper(Installer(Head(asked)), agent.cfg)]
  /\ asked' = Tail(asked)
  /\ leaving' = TRUE
  /\ overtaken' = (overtaken \/ dialog)
  /\ NoMove
  /\ UNCHANGED <<server, known, installed, reg, boot, task, agent, online, dialog, latest, reached,
                 broken>>

\* No download: the token has expired, or the network fails.
DownloadFails ==
  /\ asked # <<>>
  /\ IF Installer(Head(asked)) = 0 THEN NoMove ELSE Fault
  /\ Keep(agent.cfg)
  /\ asked' = Tail(asked)
  /\ UNCHANGED <<server, known, installed, reg, boot, task, agent, online, leaving, helper, dialog, ghosts>>

TokensExpire ==
  /\ Fault
  /\ asked # <<>>
  /\ asked' = [k \in DOMAIN asked |-> "stale"]
  /\ UNCHANGED <<server, known, installed, settings, task, agent, online, leaving, helper, dialog, ghosts>>

\* _exit_soon: in good order, so that Windows has nothing to heal.
Exit ==
  /\ leaving
  /\ Ends
  /\ NoMove
  /\ UNCHANGED <<server, known, installed, settings, task, helper, dialog, ghosts>>

ConnectionLost ==
  /\ Fault
  /\ online
  /\ online' = FALSE
  /\ UNCHANGED <<server, known, installed, settings, task, agent, asked, leaving, helper, dialog, ghosts>>

Crash ==
  /\ Fault
  /\ agent.state # "down"
  /\ Ends
  /\ task' = [task EXCEPT !.run = task.there /\ task.heals]
  /\ broken' = (broken \/ agent.state # "up")
  /\ UNCHANGED <<server, known, installed, settings, helper, dialog, latest, reached, overtaken>>

-----------------------------------------------------------------------------
(* The helper (the batch file of _update_windows) and the installer.       *)

At(i, stage) == helper' = [helper EXCEPT ![i].stage = stage]

\* msiexec refuses: the same version or an older one, another installation at
\* the same time, or an agent that runs and holds its files.
Refused(i) ==
  \/ helper[i].msi <= installed
  \/ \E j \in Slots : Installing(j)
  \/ agent.state # "down"

\* The helper waits for longer than the process needs to end.
InstallFails(i) ==
  /\ helper[i].stage = "wait"
  /\ ~leaving
  /\ IF Refused(i) THEN NoMove ELSE Fault
  /\ At(i, "run")
  /\ UNCHANGED <<server, known, installed, settings, task, process, dialog, ghosts>>

\* A major upgrade takes the old version away first, if there is one, with its
\* environment and its task; that is no part of what the new installation undoes.
Removes(i) ==
  /\ helper[i].stage = "wait"
  /\ ~leaving
  /\ ~Refused(i)
  /\ reg' = IF installed = 0 THEN reg ELSE Unset
  /\ task' = IF installed = 0 THEN task
             ELSE [task EXCEPT !.there = FALSE, !.heals = FALSE, !.run = FALSE]
  /\ installed' = 0
  /\ At(i, "removed")
  /\ NoMove
  /\ UNCHANGED <<server, known, boot, file, process, dialog, ghosts>>

\* That fails, when the task has been deleted: the files and the environment are
\* put back.
RemovalFails(i) ==
  /\ Fault
  /\ helper[i].stage = "wait"
  /\ ~leaving
  /\ ~Refused(i) /\ installed # 0
  /\ task' = [task EXCEPT !.there = FALSE, !.heals = FALSE, !.run = FALSE]
  /\ At(i, "run")
  /\ broken' = TRUE
  /\ UNCHANGED <<server, known, installed, settings, process, dialog, latest, reached, overtaken>>

\* Then it copies the files, makes the task anew and starts it.
Copies(i) ==
  /\ helper[i].stage = "removed"
  /\ installed' = helper[i].msi
  /\ task' = [there |-> TRUE, heals |-> FALSE, run |-> TRUE]
  /\ At(i, "started")
  /\ NoMove
  /\ UNCHANGED <<server, known, settings, process, dialog, ghosts>>

\* It fails in between: its files are taken away again, and nothing is put back; of
\* a task it has made it knows nothing, and an agent that runs goes on.
InstallBreaksOff(i) ==
  /\ Fault
  /\ Installing(i)
  /\ installed' = 0
  /\ helper' = [helper EXCEPT ![i] = IF @.stage = "first" THEN Idle ELSE [@ EXCEPT !.stage = "run"]]
  /\ broken' = TRUE
  /\ UNCHANGED <<server, known, settings, task, process, dialog, latest, reached, overtaken>>

\* Last, it writes the environment of the settings it has been given.
WritesEnvironment(i) ==
  /\ helper[i].stage \in {"first", "started"}
  /\ reg' = helper[i].props
  /\ helper' = [helper EXCEPT ![i] = IF @.stage = "first" THEN Idle ELSE [@ EXCEPT !.stage = "run"]]
  /\ NoMove
  /\ UNCHANGED <<server, known, installed, boot, file, task, process, dialog, ghosts>>

\* Mutant of RunsTask: nothing is started.
RunsNothing(i) ==
  /\ helper[i].stage = "run"
  /\ helper' = [helper EXCEPT ![i] = Idle]
  /\ NoMove
  /\ UNCHANGED <<server, known, installed, settings, task, process, dialog, ghosts>>

\* Whatever msiexec said, the task is started, if there is one.
RunsTask(i) ==
  /\ helper[i].stage = "run"
  /\ helper' = [helper EXCEPT ![i] = Idle]
  /\ UNCHANGED process
  /\ Run
  /\ NoMove
  /\ UNCHANGED <<server, known, installed, settings, dialog, ghosts>>

-----------------------------------------------------------------------------
(* The device.                                                             *)

\* A boot: the environment of tasks is now the registry's, and the task starts.
\* In the middle of an installation it leaves what there is by then.
Reboot ==
  /\ Fault
  /\ Ends
  /\ helper' = [i \in Slots |-> Idle]
  /\ boot' = reg
  /\ Run
  /\ dialog' = FALSE
  /\ broken' = (broken \/ \E i \in Slots : Installing(i))
  /\ UNCHANGED <<server, known, installed, reg, file, latest, reached, overtaken>>

\* _apply_settings, the four setx in one step
ApplySettings(s) ==
  /\ reg' = s
  /\ dialog' = TRUE

\* The dialog: it has reached the server, and an administrator has agreed.
Save(s) ==
  /\ Move
  /\ ApplySettings(s)
  /\ latest' = s
  /\ reached' = FALSE
  /\ overtaken' = \E i \in Slots : helper[i].stage # "none"
  /\ UNCHANGED <<server, known, installed, boot, file, task, process, helper, broken>>

\* Mutant of RestartAgent: it is run without being ended.
RestartNothing ==
  /\ dialog
  /\ dialog' = FALSE
  /\ UNCHANGED process
  /\ Run
  /\ NoMove
  /\ UNCHANGED <<server, known, installed, settings, helper, ghosts>>

\* _restart_agent: it is ended, killed and run.
RestartAgent ==
  /\ dialog
  /\ dialog' = FALSE
  /\ Ends
  /\ Run
  /\ NoMove
  /\ UNCHANGED <<server, known, installed, settings, helper, ghosts>>

-----------------------------------------------------------------------------
Helper(i) ==
  \/ Downloads(i) \/ InstallFails(i) \/ Removes(i) \/ Copies(i)
  \/ WritesEnvironment(i) \/ RunsTask(i)

Breaks(i) == RemovalFails(i) \/ InstallBreaksOff(i)

AgentNext ==
  \/ NewServer \/ Sweep \/ UpdateDevice \/ UpdateOrg
  \/ \E release \in {<<>>} \cup {<<v>> : v \in Published + 1 .. MaxVersion} : Publish(release)
  \/ \E mode \in {"inherit", "on", "off"}, default \in BOOLEAN : SetAutoUpdate(mode, default)
  \/ Start \/ WaitOver \/ LooksAfterTask \/ Connect \/ DownloadFails \/ TokensExpire \/ Exit
  \/ ConnectionLost \/ Crash \/ Reboot \/ RestartAgent
  \/ \E i \in Slots : Helper(i) \/ Breaks(i)
  \/ \E s \in Settings : Save(s)

AgentSpec == AgentInit /\ [][AgentNext]_agentVars

\* Tasks that are to run are run, the agent connects and carries out what it is
\* asked, loops come round, helpers go on.  Two helpers do not for ever start the
\* agent just when the other is about to install.
AgentFairness ==
  /\ WF_agentVars(Start) /\ WF_agentVars(WaitOver) /\ WF_agentVars(LooksAfterTask)
  /\ WF_agentVars(Connect) /\ WF_agentVars(Exit)
  /\ WF_agentVars(Sweep) /\ WF_agentVars(RestartAgent)
  /\ WF_agentVars(asked # <<>> /\ Head(asked) = "stale" /\ DownloadFails)
  /\ \A i \in Slots : WF_agentVars(Helper(i)) /\ SF_agentVars(Removes(i))

AgentFairSpec == AgentSpec /\ AgentFairness

-----------------------------------------------------------------------------
(* Properties.                                                             *)

\* Every variable keeps its type.
AgentTypeOK ==
  /\ offered \in 1 .. MaxVersion /\ installed \in 0 .. MaxVersion /\ known \in 0 .. MaxVersion
  /\ {reg, boot, file} \subseteq Settings \cup {Unset}
  /\ agent.state \in {"down", "waiting", "starting", "up"} /\ agent.cfg \in Settings \cup {Unset}
  /\ asked \in BoundedSeq({"fresh", "stale"}, 2)
  /\ \A i \in Slots : helper[i].stage \in {"none", "first", "wait", "removed", "started", "run"}

\* An agent that has once run with the settings that were saved last does not
\* go back to older ones, through updates, failed installations, an installer
\* that takes the environment away and starts the agent before it is back,
\* crashes and boots; unless they were saved while an update was under way, which
\* goes on with the settings it was given.
NoWayBack ==
  reached /\ ~overtaken /\ agent.state \in {"starting", "up"} => agent.cfg = latest

\* An update, and anything else that ends the agent, does not leave the device
\* without one (updater.py: "a no-op or failed update never leaves the machine
\* offline"): not an installation that is refused or fails at first, not a crash
\* at any time.  There are two exceptions: an installation that fails, or meets a
\* boot, when it has begun to take the old version away, with its task; and an agent
\* that has not looked after its task, because that failed or did not come about
\* before a crash.
AgentReturns == agent.state # "up" ~> agent.state = "up" \/ broken

\* With the policy on and the server's version published, the agent ends up with
\* it, and is then left alone, but for the same exceptions.
UpdatesSettle ==
  <>[](auto /\ Published >= offered) =>
    <>[](\/ broken
         \/ /\ agent.state = "up" /\ online /\ agent.version >= offered
            /\ asked = <<>> /\ \A i \in Slots : helper[i].stage = "none")
=============================================================================
