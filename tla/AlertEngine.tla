----------------------------- MODULE AlertEngine -----------------------------
(***************************************************************************)
(* The alert loop: evaluate_once in server/app/alerts.py reads every       *)
(* device's last report, compares it with the monitor rules, keeps one     *)
(* alert per device and rule in the alert_state table, and mails, queues   *)
(* webhook events, records incidents and starts remediations when an alert *)
(* is raised or cleared; _alert_loop in server/app/main.py calls it, runs  *)
(* the remediations and delivers the events.                               *)
(*                                                                         *)
(* evaluate_once awaits nothing: no agent's handler and no coroutine       *)
(* endpoint runs while it does.  The endpoints that are plain functions    *)
(* (editing a rule, deleting a device) run on worker threads, between any  *)
(* two of its database calls, and a stop or a database error may fall      *)
(* between any two of them.  From the remediations on, the loop awaits.    *)
(***************************************************************************)
EXTENDS Naturals, Sequences, FiniteSets

CONSTANTS
  Devices,
  Rules,       \* rules over the life of the system (ids are never reused)
  None,
  BackupKey,   \* the alert of a device's backup task: its key names the task,
               \* not the rule
  Kind,        \* what each rule looks at
  Notify,      \* rules that mail
  Fix,         \* Fix[r]: "none", "wol", or "agent" (a script, a notification)
  MaxMoves,    \* bound: readings, connections and administrator's requests
  MaxErrors,   \* bound: evaluations that end with a database error
  MaxFaults    \* bound: restarts, mails that are not accepted, events that
               \* are not delivered

Keys == Rules \cup {BackupKey}
Subjects == Devices \X Keys

ASSUME NamesAssumption ==
  /\ None \notin Devices /\ None \notin Rules /\ BackupKey \notin Rules
  /\ None \notin [enabled : BOOLEAN, on : SUBSET Devices]
ASSUME RulesAssumption ==
  /\ Kind \in [Rules -> {"offline", "service", "process", "report", "sampled",
                         "backup"}]
  /\ Notify \subseteq Rules
  /\ Fix \in [Rules -> {"none", "wol", "agent"}]
\* However many, only finitely many rules are ever written.
ASSUME FiniteAssumption == IsFiniteSet(Rules)
ASSUME BoundsAssumption ==
  MaxMoves \in Nat /\ MaxErrors \in Nat /\ MaxFaults \in Nat

VARIABLES
  \* the database
  rule,      \* rule[r]: [enabled, on], or None
  exists,    \* devices with a row
  reading,   \* reading[s]: "bad", "fine", or "none" when nothing is reported
  alert,     \* alert[s]: "ok" or "raised"
  \* the server process
  online,    \* devices with a connection
  pc,        \* where the loop is
  todo,      \* devices this evaluation has still to take
  cur,       \* the device being evaluated
  rules,     \* its effective rules, as read
  before,    \* the keys raised before its rules were applied
  left,      \* its rules that have still to be applied
  pending,   \* what _apply has still to do for the transition it stored
  queue,     \* webhook events waiting for the loop
  sending,   \* webhook events being delivered
  jobs,      \* remediations this evaluation asked for
  \* history and bounds
  born,      \* rules that have existed
  unmailed,  \* unmailed[s]: mails due about s and not accepted
  owed,      \* owed[s]: episodes of s that are over and not in the history
  hooked,    \* hooked[s]: what the last event about s that has left the queue
             \* said, be it delivered or lost
  fixes,     \* fixes[s]: remediations started in this episode of s
  moves, errors, faults

database == <<rule, exists, reading, alert>>
scan == <<todo, cur, rules, before, left>>
bounds == <<moves, errors, faults>>
history == <<born, unmailed, owed, hooked, fixes>>
vars == <<database, online, pc, scan, pending, queue, sending, jobs, history,
          bounds>>

\* Inside evaluate_once, where the event loop runs nothing else.
Evaluating == pc \in {"scan", "rules", "clear", "mail"}

Init ==
  /\ rule = [r \in Rules |-> None]
  /\ exists = Devices
  /\ reading = [s \in Subjects |-> "none"]
  /\ alert = [s \in Subjects |-> "ok"]
  /\ online = {}
  /\ pc = "sleep"
  /\ todo = {}
  /\ cur = None
  /\ rules = {}
  /\ before = {}
  /\ left = {}
  /\ pending = None
  /\ queue = <<>>
  /\ sending = <<>>
  /\ jobs = {}
  /\ born = {}
  /\ unmailed = [s \in Subjects |-> 0]
  /\ owed = [s \in Subjects |-> 0]
  /\ hooked = [s \in Subjects |-> "ok"]
  /\ fixes = [s \in Subjects |-> 0]
  /\ moves = 0
  /\ errors = 0
  /\ faults = 0

-----------------------------------------------------------------------------
(* What a rule says of a device.                                           *)

\* The alert a rule keeps: 'rule:<id>', or for the backup rules the device's
\* backup task.
Key(r) == IF Kind[r] = "backup" THEN BackupKey ELSE r

\* list_effective_monitor_rules
Effective(d) ==
  {r \in Rules : rule[r] # None /\ rule[r].enabled /\ d \in rule[r].on}

\* Whether evaluate_once judges the device by the rule at all: a service or a
\* process only while the device is online, and a process, an event log, a
\* metric or a backup only when there is something to look at.
Judged(d, r) ==
  /\ Kind[r] \in {"service", "process"} => d \in online
  /\ Kind[r] \in {"process", "sampled", "backup"} => reading[<<d, Key(r)>>] # "none"

\* Whether the rule is broken.  (A reading is "bad" for an "offline" rule when
\* the last heartbeat is too long ago.)
Broken(d, r) ==
  /\ reading[<<d, Key(r)>>] = "bad"
  /\ Kind[r] = "offline" => d \notin online

\* raised_alert_keys
RaisedKeys(d) == {k \in Keys : alert[<<d, k>>] = "raised"}

-----------------------------------------------------------------------------
(* evaluate_once.                                                          *)

\* all_devices and online_ids
Begin ==
  /\ pc = "sleep"
  /\ pc' = "scan"
  /\ todo' = exists
  /\ UNCHANGED <<database, online, cur, rules, before, left, pending, queue,
                 sending, jobs, history, bounds>>

\* Of the rules about backups only one is applied, whichever comes first.
OneBackup(rs) ==
  Cardinality({r \in rs : Kind[r] = "backup"}) <= 1

\* The next device: its rules and its raised alerts are read.  One without
\* rules is passed over.
TakeDevice(d) ==
  /\ pc = "scan"
  /\ d \in todo
  /\ IF Effective(d) = {}
        THEN /\ todo' = todo \ {d}
             /\ UNCHANGED <<pc, cur, rules, before, left>>
        ELSE /\ todo' = todo \ {d}
             /\ pc' = "rules"
             /\ cur' = d
             /\ rules' = Effective(d)
             /\ before' = RaisedKeys(d)
             /\ \E rs \in SUBSET Effective(d) :
                  /\ OneBackup(rs)
                  /\ \A r \in Effective(d) \ rs :
                       /\ Kind[r] = "backup"
                       /\ \E q \in rs : Kind[q] = "backup"
                  /\ left' = rs
  /\ UNCHANGED <<database, online, pending, queue, sending, jobs, history,
                 bounds>>

\* The rule leaves the alert as it is: it is not evaluated, or says nothing new.
NothingNew(r) ==
  LET s == <<cur, Key(r)>> IN
  /\ pc = "rules"
  /\ r \in left
  /\ \/ ~Judged(cur, r)
     \/ Broken(cur, r) <=> alert[s] = "raised"
  /\ left' = left \ {r}
  /\ UNCHANGED <<database, online, pc, todo, cur, rules, before, pending, queue,
                 sending, jobs, history, bounds>>

\* Mutant of Transition: an alert that is already raised is raised again.
TransitionAnyway(s, broken) == broken \/ alert[s] = "raised"

\* _apply acts only on a change of state.
Transition(s, broken) == broken # (alert[s] = "raised")

\* The mails about s once the rule r has changed its alert.
MailDue(s, r) == IF r \in Notify THEN [unmailed EXCEPT ![s] = @ + 1] ELSE unmailed

\* Mutants of AfterRaise: the record of the episode first, as for a clear; the
\* rule's switch the wrong way round.
AfterRaiseLogs(r) == "clear"
AfterRaiseSwapped(r) == IF r \in Notify THEN "rules" ELSE "mail"

\* What _apply still does once a raised alert is stored.
AfterRaise(r) == IF r \in Notify THEN "mail" ELSE "rules"

\* _queue_webhook
Queued(s, says) == Append(queue, [about |-> s, says |-> says])

\* _apply: the alert is stored as raised, the event is queued, a mail follows.
Raise(r) ==
  LET s == <<cur, Key(r)>> IN
  /\ pc = "rules"
  /\ r \in left
  /\ Judged(cur, r)
  /\ Broken(cur, r)
  /\ Transition(s, TRUE)
  /\ left' = left \ {r}
  /\ alert' = [alert EXCEPT ![s] = "raised"]
  /\ queue' = Queued(s, "raised")
  /\ fixes' = [fixes EXCEPT ![s] = 0]
  /\ unmailed' = MailDue(s, r)
  /\ pending' = [about |-> s, says |-> "raised", by |-> r]
  /\ pc' = AfterRaise(r)
  /\ UNCHANGED <<rule, exists, reading, online, todo, cur, rules, before,
                 sending, jobs, born, owed, hooked, bounds>>

\* _apply: the alert is stored as over, the event is queued; the record in the
\* history and a mail follow.
Clear(r) ==
  LET s == <<cur, Key(r)>> IN
  /\ pc = "rules"
  /\ r \in left
  /\ Judged(cur, r)
  /\ ~Broken(cur, r)
  /\ Transition(s, FALSE)
  /\ left' = left \ {r}
  /\ alert' = [alert EXCEPT ![s] = "ok"]
  /\ queue' = Queued(s, "ok")
  /\ owed' = [owed EXCEPT ![s] = @ + 1]
  /\ unmailed' = MailDue(s, r)
  /\ pending' = [about |-> s, says |-> "ok", by |-> r]
  /\ pc' = "clear"
  /\ UNCHANGED <<rule, exists, reading, online, todo, cur, rules, before,
                 sending, jobs, born, hooked, fixes, bounds>>

\* add_incident
RecordIncident ==
  /\ pc = "clear"
  /\ owed' = [owed EXCEPT ![pending.about] = @ - 1]
  /\ pc' = IF pending.by \in Notify THEN "mail" ELSE "rules"
  /\ UNCHANGED <<database, online, scan, pending, queue, sending, jobs, born,
                 unmailed, hooked, fixes, bounds>>

\* mailer.send_mail, which reports a failure to nobody.
Mail(accepted) ==
  /\ pc = "mail"
  /\ pc' = "rules"
  /\ IF accepted
        THEN /\ unmailed' = [unmailed EXCEPT ![pending.about] = @ - 1]
             /\ UNCHANGED faults
        ELSE /\ faults < MaxFaults
             /\ faults' = faults + 1
             /\ UNCHANGED unmailed
  /\ UNCHANGED <<database, online, scan, pending, queue, sending, jobs, born,
                 owed, hooked, fixes, moves, errors>>

\* Mutant of Newly: everything that is raised.
NewlyAgain(d) == RaisedKeys(d)

\* The alerts that this evaluation raised on the device.
Newly(d) == RaisedKeys(d) \ before

\* Every rule has been applied: those that were broken just now and carry a
\* remediation queue it, a script only for a device that is online.
DeviceDone ==
  /\ pc = "rules"
  /\ left = {}
  /\ jobs' = jobs \cup
       {[dev |-> cur, by |-> r] :
          r \in {q \in rules : /\ Key(q) \in Newly(cur)
                               /\ \/ Fix[q] = "wol"
                                  \/ Fix[q] = "agent" /\ cur \in online}}
  /\ pc' = "scan"
  /\ UNCHANGED <<database, online, scan, pending, queue, sending, history,
                 bounds>>

\* Mutant of AfterFailure: the exception ends the loop.
AfterFailureDead == "dead"

\* _alert_loop catches the exception, logs it and sleeps.
AfterFailure == "sleep"

\* A database error anywhere in the evaluation ends it: no remediation that
\* it asked for is run, and its events wait for the next one.
EvaluationFails ==
  /\ Evaluating
  /\ errors < MaxErrors
  /\ errors' = errors + 1
  /\ pc' = AfterFailure
  /\ jobs' = {}
  /\ UNCHANGED <<database, online, scan, pending, queue, sending, history,
                 moves, faults>>

-----------------------------------------------------------------------------
(* _alert_loop after an evaluation.                                        *)

ScanDone ==
  /\ pc = "scan"
  /\ todo = {}
  /\ pc' = "fix"
  /\ UNCHANGED <<database, online, scan, pending, queue, sending, jobs, history,
                 bounds>>

\* A magic packet needs the device's row, everything else its connection.
Reachable(j) == IF Fix[j.by] = "wol" THEN j.dev \in exists ELSE j.dev \in online

\* One remediation: it runs to its end, or the device cannot be reached any
\* more and it is dropped.
Remediate(j) ==
  LET s == <<j.dev, Key(j.by)>> IN
  /\ pc = "fix"
  /\ j \in jobs
  /\ jobs' = jobs \ {j}
  /\ fixes' = IF Reachable(j) THEN [fixes EXCEPT ![s] = @ + 1] ELSE fixes
  /\ UNCHANGED <<database, online, pc, scan, pending, queue, sending, born,
                 unmailed, owed, hooked, bounds>>

\* drain_webhook_events
Drain ==
  /\ pc = "fix"
  /\ jobs = {}
  /\ sending' = queue
  /\ queue' = <<>>
  /\ pc' = "hooks"
  /\ UNCHANGED <<database, online, scan, pending, jobs, history, bounds>>

\* _deliver_webhooks: one event after the other; a post that fails is dropped.
Deliver(accepted) ==
  LET e == Head(sending) IN
  /\ pc = "hooks"
  /\ sending # <<>>
  /\ sending' = Tail(sending)
  /\ hooked' = [hooked EXCEPT ![e.about] = e.says]
  /\ IF accepted
        THEN UNCHANGED faults
        ELSE faults < MaxFaults /\ faults' = faults + 1
  /\ UNCHANGED <<database, online, pc, scan, pending, queue, jobs, born, unmailed,
                 owed, fixes, moves, errors>>

Rest ==
  /\ pc = "hooks"
  /\ sending = <<>>
  /\ pc' = "sleep"
  /\ UNCHANGED <<database, online, scan, pending, queue, sending, jobs, history,
                 bounds>>

\* The server stops and starts: the alerts are in the database, what the loop
\* was about to say or do about them is not.  The events that wait are lost, and
\* the next one is about the next change of an alert as it is stored.
Restart ==
  /\ faults < MaxFaults
  /\ faults' = faults + 1
  /\ online' = {}
  /\ pc' = "sleep"
  /\ todo' = {}
  /\ cur' = None
  /\ rules' = {}
  /\ before' = {}
  /\ left' = {}
  /\ pending' = None
  /\ queue' = <<>>
  /\ sending' = <<>>
  /\ jobs' = {}
  /\ hooked' = alert
  /\ UNCHANGED <<database, born, unmailed, owed, fixes, moves, errors>>

-----------------------------------------------------------------------------
(* The rest of the system.                                                 *)

Move ==
  /\ moves < MaxMoves
  /\ moves' = moves + 1
  /\ UNCHANGED <<pc, scan, pending, queue, sending, jobs, unmailed, owed, hooked,
                 fixes, errors, faults>>

\* A report of the agent, or time: the window of an average moves on, and a
\* heartbeat becomes old.
Reading(s, v) ==
  /\ Move
  /\ ~Evaluating
  /\ v # reading[s]
  /\ reading' = [reading EXCEPT ![s] = v]
  /\ UNCHANGED <<rule, exists, alert, online, born>>

\* An agent connects, for the first time or again: a heartbeat.
Connect(d) ==
  /\ Move
  /\ ~Evaluating
  /\ d \notin online
  /\ online' = online \cup {d}
  /\ exists' = exists \cup {d}
  /\ reading' = [s \in Subjects |->
       IF s[1] = d /\ s[2] \in Rules /\ Kind[s[2]] = "offline" THEN "fine"
       ELSE reading[s]]
  /\ UNCHANGED <<rule, alert, born>>

Disconnect(d) ==
  /\ Move
  /\ ~Evaluating
  /\ d \in online
  /\ online' = online \ {d}
  /\ UNCHANGED <<database, born>>

\* delete_device and reject_device: on a worker thread; the alerts stay.
DeleteDevice(d) ==
  /\ Move
  /\ d \in exists
  /\ exists' = exists \ {d}
  /\ UNCHANGED <<rule, reading, alert, online, born>>

\* add_monitor_rule
AddRule(r, on) ==
  /\ Move
  /\ ~Evaluating
  /\ r \notin born
  /\ born' = born \cup {r}
  /\ rule' = [rule EXCEPT ![r] = [enabled |-> TRUE, on |-> on]]
  /\ UNCHANGED <<exists, reading, alert, online>>

\* update_monitor_rule: on a worker thread; the target may change.
UpdateRule(r, on) ==
  /\ Move
  /\ rule[r] # None
  /\ rule' = [rule EXCEPT ![r].on = on]
  /\ UNCHANGED <<exists, reading, alert, online, born>>

\* toggle_monitor_rule
ToggleRule(r) ==
  /\ Move
  /\ ~Evaluating
  /\ rule[r] # None
  /\ rule' = [rule EXCEPT ![r].enabled = ~@]
  /\ UNCHANGED <<exists, reading, alert, online, born>>

\* The alerts of a deleted rule go with it.
AlertsWithout(r) ==
  [s \in Subjects |-> IF s[2] = r THEN "ok" ELSE alert[s]]

\* Mutant of MayDelete: a plain function, on a worker thread.
MayDeleteAnytime == TRUE

\* The endpoint is a coroutine: it does not run inside evaluate_once.
MayDelete == ~Evaluating

\* delete_monitor_rule
DeleteRule(r) ==
  /\ Move
  /\ MayDelete
  /\ rule[r] # None
  /\ rule' = [rule EXCEPT ![r] = None]
  /\ alert' = AlertsWithout(r)
  /\ UNCHANGED <<exists, reading, online, born>>

-----------------------------------------------------------------------------
\* What the loop does by itself.
Engine ==
  \/ Begin
  \/ \E d \in Devices : TakeDevice(d)
  \/ \E r \in Rules : NothingNew(r) \/ Raise(r) \/ Clear(r)
  \/ RecordIncident
  \/ Mail(TRUE)
  \/ DeviceDone
  \/ ScanDone
  \/ \E j \in jobs : Remediate(j)
  \/ Drain
  \/ Deliver(TRUE)
  \/ Rest

Fault ==
  \/ EvaluationFails
  \/ Mail(FALSE)
  \/ Deliver(FALSE)
  \/ Restart

World ==
  \/ \E d \in Devices, r \in Rules, v \in {"bad", "fine", "none"} :
       Reading(<<d, Key(r)>>, v)
  \/ \E d \in Devices : Connect(d) \/ Disconnect(d) \/ DeleteDevice(d)
  \/ \E r \in Rules, on \in SUBSET Devices : AddRule(r, on) \/ UpdateRule(r, on)
  \/ \E r \in Rules : ToggleRule(r) \/ DeleteRule(r)

Next == Engine \/ Fault \/ World

Spec == Init /\ [][Next]_vars

\* The loop is a task of the server: it goes on as long as the server runs.
FairSpec == Spec /\ WF_vars(Engine)

-----------------------------------------------------------------------------
(* Properties.                                                             *)

Event == [about : Subjects, says : {"raised", "ok"}]

\* Every variable keeps its type.
TypeOK ==
  /\ rule \in [Rules -> [enabled : BOOLEAN, on : SUBSET Devices] \cup {None}]
  /\ exists \subseteq Devices
  /\ reading \in [Subjects -> {"bad", "fine", "none"}]
  /\ alert \in [Subjects -> {"ok", "raised"}]
  /\ online \subseteq Devices
  /\ pc \in {"sleep", "scan", "rules", "clear", "mail", "fix", "hooks"}
  /\ todo \subseteq Devices
  /\ cur \in Devices \cup {None}
  /\ rules \subseteq Rules
  /\ before \subseteq Keys
  /\ left \subseteq rules
  /\ pending \in [about : Subjects, says : {"raised", "ok"}, by : Rules] \cup {None}
  /\ queue \in Seq(Event)
  /\ sending \in Seq(Event)
  /\ jobs \subseteq [dev : Devices, by : Rules]
  /\ born \subseteq Rules
  /\ unmailed \in [Subjects -> Nat]
  /\ owed \in [Subjects -> Nat]
  /\ hooked \in [Subjects -> {"ok", "raised"}]
  /\ fixes \in [Subjects -> Nat]
  /\ moves \in 0 .. MaxMoves
  /\ errors \in 0 .. MaxErrors
  /\ faults \in 0 .. MaxFaults
  /\ Evaluating /\ pc # "scan" => cur # None

\* Whether the event at i is about s (0 stands for the last one delivered), and
\* what it says.
Speaks(events, s, i) == i = 0 \/ events[i].about = s
Word(first, events, i) == IF i = 0 THEN first ELSE events[i].says
Silent(events, s, from, to) == \A i \in from .. to : ~Speaks(events, s, i)

\* What is said about s, first what has been delivered and then the events that
\* wait, changes with every word and ends with "now".
Alternates(first, events, s, now) ==
  \A i \in 0 .. Len(events) : Speaks(events, s, i) =>
    /\ \A j \in i + 1 .. Len(events) :
         Speaks(events, s, j) /\ Silent(events, s, i + 1, j - 1)
           => Word(first, events, j) # Word(first, events, i)
    /\ Silent(events, s, i + 1, Len(events)) => Word(first, events, i) = now

\* Webhooks hear of every change of an alert, each once and in order, however
\* the evaluations end and whatever is lost: what has left the queue and what
\* waits alternates, and comes out at the alert as it is stored.  Only a post
\* that fails and a stop of the server lose events.  (A rule's alerts go without
\* a word when the rule is deleted.)
HooksFollowAlerts ==
  \A s \in Subjects :
    (s[2] \in born => rule[s[2]] # None)
      => Alternates(hooked[s], sending \o queue, s, alert[s])

\* Between two steps of _apply: what it still says is about s.
Unsaid(s) == pc \in {"clear", "mail"} /\ pending.about = s

\* Mails and incidents that are due and that nobody will write any more.
LostMails(s) ==
  unmailed[s] - (IF Unsaid(s) /\ pending.by \in Notify THEN 1 ELSE 0)
LostRecords(s) ==
  owed[s] - (IF pc = "clear" /\ pending.about = s THEN 1 ELSE 0)

Failures == errors + faults

\* Every change of an alert of a rule that mails is mailed, never twice, and
\* what is said is the alert as it is stored.  An evaluation that fails, a stop,
\* a mail that is not accepted costs one mail at most, of one alert: not what
\* is told before or after, and nothing of any other alert.
MailPerChange ==
  /\ \A s \in Subjects : Unsaid(s) => pending.says = alert[s]
  /\ \A s \in Subjects : 0 <= LostMails(s) /\ LostMails(s) <= Failures
  /\ \A s, t \in Subjects : s # t => LostMails(s) + LostMails(t) <= Failures

\* An incident is written for every alert that clears, and for none twice; a
\* failure between storing the alert and writing it costs that one only.
IncidentPerEpisode ==
  /\ \A s \in Subjects : 0 <= LostRecords(s) /\ LostRecords(s) <= Failures
  /\ \A s, t \in Subjects : s # t => LostRecords(s) + LostRecords(t) <= Failures

\* Whoever follows the alerts - a webhook, a reader of the mails, the history -
\* is told of each change once and in order, although the alert is stored first
\* and the three are written later, by different loops.  A failure in between
\* loses what was being told for good, and no more than that.
EpisodesAreTold == HooksFollowAlerts /\ MailPerChange /\ IncidentPerEpisode

\* A remediation is started at most once while an alert lasts, whatever fails,
\* and only for an alert that still stands or whose rule has been deleted.
RemediationOnce ==
  /\ \A s \in Subjects :
       Cardinality({r \in Rules : Key(r) = s[2]}) >= fixes[s]
  /\ \A j \in jobs :
       alert[<<j.dev, Key(j.by)>>] = "raised" \/ rule[j.by] = None

\* An alert never outlives its rule: none is left raised, or raised again by
\* an evaluation that had read the rule before it was deleted.
NoAlertWithoutRule ==
  \A d \in Devices, r \in Rules : alert[<<d, r>>] = "raised" => rule[r] # None

\* The rule applies to the device and can be judged, and says v.
Says(d, r, v) ==
  /\ d \in exists /\ r \in Effective(d)
  /\ Judged(d, r)
  /\ Broken(d, r) <=> v

\* A rule that stays broken is an alert in the end, and one that stays kept is
\* none: no alert is missed for good or stuck, whatever fails on the way.
AlertFollowsReading ==
  \A d \in Devices, r \in Rules :
    /\ <>[]Says(d, r, TRUE) => <>[](alert[<<d, Key(r)>>] = "raised")
    /\ <>[]Says(d, r, FALSE) => <>[](alert[<<d, Key(r)>>] = "ok")
=============================================================================
