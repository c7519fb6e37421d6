---------------------------- MODULE ScriptPolicies ----------------------------
(***************************************************************************)
(* Scheduled jobs and script policies of server/app/main.py: the schedule  *)
(* loop (_schedule_loop), the execution of a job or a policy on the online *)
(* devices it targets (_execute_schedule, _execute_monitor), the row each  *)
(* script run leaves (_exec_script_on_device), the mail when a policy      *)
(* starts or stops alerting (_monitor_notify), and the same execution on   *)
(* an administrator's request, which runs beside the loop.                 *)
(*                                                                         *)
(* The loop and the requests are coroutines; each awaits only while a      *)
(* device runs a script.  The endpoints that edit, switch and delete are   *)
(* plain functions on worker threads.                                      *)
(***************************************************************************)
EXTENDS Naturals, FiniteSets

CONSTANTS
  Jobs,         \* scheduled jobs
  Policies,     \* script policies
  Devices,
  Remediated,   \* policies with a remediation script
  Requests,     \* bound: administrator's "run now" requests under way at once
  Loop,         \* the schedule loop, as one who executes
  None,
  MaxMoves,     \* bound: administrator's requests, scripts deleted, connections
  MaxFaults     \* bound: restarts of the server

Entries == Jobs \cup Policies
Runners == Requests \cup {Loop}
Statuses == {"ok", "alert", "error"}

ASSUME EntriesAssumption ==
  /\ Jobs \cap Policies = {}
  /\ Remediated \subseteq Policies
  /\ Loop \notin Requests
\* Only so many requests are under way at once.
ASSUME FiniteAssumption == IsFiniteSet(Requests)
ASSUME NoneAssumption == None \notin Statuses
ASSUME BoundsAssumption == MaxMoves \in Nat /\ MaxFaults \in Nat

VARIABLES
  \* the database
  entry,    \* entry[e]: [on, due, status], or None when deleted
  scripts,  \* entries whose script exists
  running,  \* running[d]: rows of script runs on d that say 'running'
  \* the server process
  online,
  stage,    \* what the loop is at: "sleep", "jobs" or "policies"
  list,     \* the due entries it has fetched and not begun
  task,     \* task[k]: the execution of runner k, or None
  \* history and bounds
  told,     \* told[p]: what the last mail about policy p said
  spoilt,   \* policies that have been executed without their script, or twice
            \* at the same time (counted from where the loop fetches the row)
  moves, faults

database == <<entry, scripts, running>>
bounds == <<moves, faults>>
vars == <<database, online, stage, list, task, told, spoilt, bounds>>

Row == [on : BOOLEAN, due : BOOLEAN, status : Statuses \cup {None}]

\* An execution: the row as it was fetched, the devices to go, what the
\* current device does ("idle", "script" or "fix"), and the result so far;
\* "mail" and "mark" when the devices are done.
Task == [of : Entries, was : Row, left : SUBSET Devices,
         at : Devices \cup {None}, step : {"idle", "script", "fix", "mail", "mark"},
         result : Statuses]

ASSUME NoneIsNoRecord == None \notin Row /\ None \notin Task /\ None \notin Devices

Init ==
  /\ entry = [e \in Entries |-> [on |-> TRUE, due |-> FALSE, status |-> None]]
  /\ scripts = Entries
  /\ running = [d \in Devices |-> 0]
  /\ online = Devices
  /\ stage = "sleep"
  /\ list = {}
  /\ task = [k \in Runners |-> None]
  /\ told = [p \in Policies |-> "ok"]
  /\ spoilt = {}
  /\ moves = 0
  /\ faults = 0

-----------------------------------------------------------------------------
(* The execution of a job or a policy.                                     *)

At(k, step) == task[k] # None /\ task[k].step = step

\* Between the mail and the mark no other coroutine runs.
LoopIsFree == \A k \in Runners : ~At(k, "mark")

\* Runner k begins an execution of e, whose row it has read as was, on the
\* devices that are online now (_schedule_targets).  Without
\* its script a job has nothing to do, and a policy is in error.
Begun(k, e, was) ==
  task' = [task EXCEPT ![k] =
    [of |-> e, was |-> was, at |-> None,
     left |-> IF e \in scripts THEN online ELSE {},
     step |-> "idle",
     result |-> IF e \in scripts \/ e \in Jobs THEN "ok" ELSE "error"]]

\* The spoilt policies once k has begun e.
Spoilt(k, e) ==
  IF /\ e \in Policies
     /\ \/ e \notin scripts
        \/ \E other \in Runners \ {k} : task[other] # None /\ task[other].of = e
        \/ k # Loop /\ \E item \in list : item.of = e
  THEN spoilt \cup {e} ELSE spoilt

\* _exec_script_on_device: a row, and a request to the device.
StartRun(k, d) ==
  /\ LoopIsFree
  /\ At(k, "idle")
  /\ d \in task[k].left
  /\ task' = [task EXCEPT ![k].left = @ \ {d}, ![k].at = d, ![k].step = "script"]
  /\ running' = [running EXCEPT ![d] = @ + 1]
  /\ UNCHANGED <<entry, scripts, online, stage, list, told, spoilt, bounds>>

\* Mutant of Closed: a run that ends in an exception keeps its row as it is.
ClosedOnReply(d, outcome) ==
  IF outcome = "raised" THEN running[d] ELSE running[d] - 1

\* The row is brought up to date whether the script ended or the request
\* failed (not connected, no answer in time).
Closed(d, outcome) == running[d] - 1

\* What the policy's result becomes by one device's outcome.
Result(k, outcome) ==
  IF task[k].of \in Policies /\ outcome # "ok" THEN "alert" ELSE task[k].result

\* The run ends.  A script that fails is followed by the policy's remediation,
\* in a run of its own; a request that failed is not.
EndRun(k, outcome) ==
  LET d == task[k].at
      fix == outcome = "failed" /\ task[k].of \in Remediated
  IN
  /\ LoopIsFree
  /\ At(k, "script")
  /\ outcome # "raised" => d \in online
  /\ task' = [task EXCEPT ![k].result = Result(k, outcome),
                          ![k].step = IF fix THEN "fix" ELSE "idle",
                          ![k].at = IF fix THEN @ ELSE None]
  /\ running' = [running EXCEPT ![d] = Closed(d, outcome) + (IF fix THEN 1 ELSE 0)]
  /\ UNCHANGED <<entry, scripts, online, stage, list, told, spoilt, bounds>>

\* The remediation ends, and its outcome changes nothing.
EndFix(k, outcome) ==
  LET d == task[k].at IN
  /\ LoopIsFree
  /\ At(k, "fix")
  /\ running' = [running EXCEPT ![d] = Closed(d, outcome)]
  /\ task' = [task EXCEPT ![k].step = "idle", ![k].at = None]
  /\ UNCHANGED <<entry, scripts, online, stage, list, told, spoilt, bounds>>

\* Mutant of Flips: the first result of all is not taken for a change.
FlipsKnown(old, new) == {old, new} = {"ok", "alert"}

\* _monitor_notify: the result is worth a mail.
Flips(old, new) ==
  \/ new = "alert" /\ old # "alert"
  \/ new = "ok" /\ old = "alert"

\* Every device is done: the mail is sent, if one is due by the status that was
\* read before the execution.
Notify(k) ==
  LET e == task[k].of IN
  /\ LoopIsFree
  /\ At(k, "idle")
  /\ task[k].left = {}
  /\ told' = IF e \in Policies /\ Flips(task[k].was.status, task[k].result)
                THEN [told EXCEPT ![e] = task[k].result] ELSE told
  /\ task' = [task EXCEPT ![k].step = "mark"]
  /\ UNCHANGED <<database, online, stage, list, spoilt, bounds>>

\* Mutant of NextDue: the next run is left as it was.
NextDueKept(k) == entry[task[k].of].due

\* mark_..._ran computes the next run, except that a request's leaves alone the
\* one of a policy that was off.  (A request for a job marks nothing.)
NextDue(k) ==
  IF k = Loop \/ task[k].was.on THEN FALSE ELSE task[k].was.due

\* mark_schedule_ran, mark_monitor_ran: nothing when the row has gone
Mark(k) ==
  LET e == task[k].of IN
  /\ At(k, "mark")
  /\ entry' =
       IF entry[e] = None \/ (k # Loop /\ e \in Jobs) THEN entry
       ELSE [entry EXCEPT ![e].due = NextDue(k),
                          ![e].status = IF e \in Policies THEN task[k].result ELSE @]
  /\ task' = [task EXCEPT ![k] = None]
  /\ UNCHANGED <<scripts, running, online, stage, list, told, spoilt, bounds>>

-----------------------------------------------------------------------------
(* The loop.                                                               *)

\* due_schedules, due_monitors
Due(es) == {e \in es : entry[e] # None /\ entry[e].on /\ entry[e].due}

\* The next stage's entries, with their rows.
Fetched(es) == {[of |-> e, was |-> entry[e]] : e \in Due(es)}

\* Every thirty seconds
Fetch ==
  /\ LoopIsFree
  /\ task[Loop] = None
  /\ list = {}
  /\ \/ stage = "sleep" /\ stage' = "jobs" /\ list' = Fetched(Jobs)
     \/ stage = "jobs" /\ stage' = "policies" /\ list' = Fetched(Policies)
     \/ stage = "policies" /\ stage' = "sleep" /\ list' = {}
  /\ spoilt' = spoilt \cup
       {p \in Policies : /\ \E item \in list' : item.of = p
                         /\ \E k \in Requests : task[k] # None /\ task[k].of = p}
  /\ UNCHANGED <<database, online, task, told, bounds>>

LoopBegins(item) ==
  /\ LoopIsFree
  /\ task[Loop] = None
  /\ item \in list
  /\ list' = list \ {item}
  /\ Begun(Loop, item.of, item.was)
  /\ spoilt' = Spoilt(Loop, item.of)
  /\ UNCHANGED <<database, online, stage, told, bounds>>

-----------------------------------------------------------------------------
(* The administrator, the devices, the clock.                              *)

Move ==
  /\ moves < MaxMoves
  /\ moves' = moves + 1
  /\ UNCHANGED faults

\* run_schedule_now, run_monitor_now
RunNow(k, e) ==
  /\ Move
  /\ LoopIsFree
  /\ task[k] = None
  /\ entry[e] # None
  /\ Begun(k, e, entry[e])
  /\ spoilt' = Spoilt(k, e)
  /\ UNCHANGED <<database, online, stage, list, told>>

\* toggle_schedule, toggle_monitor
Toggle(e) ==
  /\ Move
  /\ entry[e] # None
  /\ entry' = [entry EXCEPT ![e].on = ~@, ![e].due = FALSE]
  /\ UNCHANGED <<scripts, running, online, stage, list, task, told, spoilt>>

\* delete_schedule, delete_monitor
Delete(e) ==
  /\ Move
  /\ entry[e] # None
  /\ entry' = [entry EXCEPT ![e] = None]
  /\ UNCHANGED <<scripts, running, online, stage, list, task, told, spoilt>>

\* delete_script: the jobs that run it go too, its policies stay.
DeleteScript(e) ==
  /\ Move
  /\ e \in scripts
  /\ scripts' = scripts \ {e}
  /\ entry' = IF e \in Jobs THEN [entry EXCEPT ![e] = None] ELSE entry
  /\ UNCHANGED <<running, online, stage, list, task, told, spoilt>>

\* update_monitor: another script, and the next run computed afresh unless the
\* policy is off
UpdatePolicy(e) ==
  /\ Move
  /\ e \in Policies
  /\ entry[e] # None
  /\ scripts' = scripts \cup {e}
  /\ entry' = [entry EXCEPT ![e].due = @ /\ ~entry[e].on]
  /\ UNCHANGED <<running, online, stage, list, task, told, spoilt>>

\* A device connects or goes.
Connection(d) ==
  /\ Move
  /\ LoopIsFree
  /\ online' = IF d \in online THEN online \ {d} ELSE online \cup {d}
  /\ UNCHANGED <<database, stage, list, task, told, spoilt>>

\* The time of the next run comes.
BecomesDue(e) ==
  /\ entry[e] # None
  /\ entry[e].on
  /\ ~entry[e].due
  /\ entry' = [entry EXCEPT ![e].due = TRUE]
  /\ UNCHANGED <<scripts, running, online, stage, list, task, told, spoilt,
                 bounds>>

\* The server stops and starts: the executions are gone, their rows are not.
Restart ==
  /\ faults < MaxFaults
  /\ faults' = faults + 1
  /\ stage' = "sleep"
  /\ list' = {}
  /\ task' = [k \in Runners |-> None]
  /\ online' = {}
  /\ UNCHANGED <<database, told, spoilt, moves>>

-----------------------------------------------------------------------------
\* What an execution does by itself.
Execute(k) ==
  \/ \E d \in Devices : StartRun(k, d)
  \/ \E outcome \in {"ok", "failed", "raised"} :
       EndRun(k, outcome) \/ EndFix(k, outcome)
  \/ Notify(k)
  \/ Mark(k)

LoopStep ==
  \/ Execute(Loop)
  \/ Fetch
  \/ \E item \in list : LoopBegins(item)

Next ==
  \/ LoopStep
  \/ \E k \in Requests : Execute(k) \/ \E e \in Entries : RunNow(k, e)
  \/ \E e \in Entries :
       Toggle(e) \/ Delete(e) \/ DeleteScript(e) \/ UpdatePolicy(e) \/ BecomesDue(e)
  \/ \E d \in Devices : Connection(d)
  \/ Restart

Spec == Init /\ [][Next]_vars

\* Every script run ends (the request has a timeout), so the loop and the
\* requests always go on.
Fairness == WF_vars(LoopStep) /\ \A k \in Requests : WF_vars(Execute(k))
FairSpec == Spec /\ Fairness

-----------------------------------------------------------------------------
(* Properties.                                                             *)

\* Every variable keeps its type.
TypeOK ==
  /\ entry \in [Entries -> Row \cup {None}]
  /\ scripts \subseteq Entries
  /\ running \in [Devices -> Nat]
  /\ online \subseteq Devices
  /\ stage \in {"sleep", "jobs", "policies"}
  /\ list \subseteq [of : Entries, was : Row]
  /\ task \in [Runners -> Task \cup {None}]
  /\ told \in [Policies -> {"ok", "alert"}]
  /\ spoilt \subseteq Policies
  /\ moves \in 0 .. MaxMoves
  /\ faults \in 0 .. MaxFaults

\* A row says 'running' exactly while an execution waits for its script: every
\* way an execution can end brings its rows up to date.
RowsFollowRuns ==
  faults = 0 => \A d \in Devices :
    running[d] = Cardinality({k \in Runners : task[k] # None /\ task[k].at = d})

\* What the last mail about a policy said is the status that is stored, as long
\* as it has its script, its executions do not overlap and the server does not
\* stop: no change is left without a mail, and none is mailed twice.
MailsFollowStatus ==
  faults = 0 => \A p \in Policies :
    /\ entry[p] # None /\ p \notin spoilt
    /\ \A k \in Runners : At(k, "mark") => task[k].of # p
    => told[p] = IF entry[p].status = "alert" THEN "alert" ELSE "ok"

\* What an execution was is told once, in the history and to the mails' readers.
ExecutionsAreTold == RowsFollowRuns /\ MailsFollowStatus

\* A job or policy that is due is executed in the end, or is switched off,
\* deleted or edited, whatever the devices do and however much else is due.
DueIsExecuted ==
  \A e \in Entries : (entry[e] # None /\ entry[e].due) ~>
    (entry[e] = None \/ ~entry[e].due \/ ~entry[e].on)
=============================================================================
