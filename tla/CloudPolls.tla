------------------------------ MODULE CloudPolls ------------------------------
(***************************************************************************)
(* The server's readings of two cloud services, UniFi Site Manager and     *)
(* Microsoft 365 (_unifi_loop, _m365_loop, _poll_unifi_account and         *)
(* _poll_m365_tenant in server/app/main.py), and the alerts that a reading *)
(* raises and clears (evaluate_unifi_account and evaluate_m365_tenant in   *)
(* server/app/alerts.py).  The two differ in when a reading counts as      *)
(* taken, in what a failed one does, and in what becomes of an alert about *)
(* something that is not in the reading; "service" says which one runs.    *)
(*                                                                         *)
(* A reading is a task: it takes the account's row, reads the service on a *)
(* worker thread, and comes back to the event loop, where it stores the    *)
(* result and evaluates the alerts without awaiting anything.  Several     *)
(* readings of one account may be under way at once.  An account is        *)
(* deleted on a worker thread, also in the middle of an evaluation.        *)
(***************************************************************************)
EXTENDS Naturals, FiniteSets

CONSTANTS
  Services,   \* which of "unifi" and "m365" the behaviours are about
  Accounts,
  Items,      \* what alerts are about: devices and WANs, or credentials and
              \* subscriptions
  Owner,      \* the account each item belongs to
  Part,       \* the request that reads each item
  Polls,      \* bound: readings under way at once
  None,
  MaxMoves,   \* bound: administrator's requests and changes in the cloud
  MaxErrors   \* bound: requests that fail, readings that do, and restarts

ASSUME ServiceAssumption == Services \subseteq {"unifi", "m365"}
ASSUME OwnerAssumption == Owner \in [Items -> Accounts]
ASSUME NoneAssumption == None \notin Accounts
ASSUME BoundsAssumption == MaxMoves \in Nat /\ MaxErrors \in Nat

ItemsOf(a) == {i \in Items : Owner[i] = a}
Parts == {Part[i] : i \in Items}

VARIABLES
  account,   \* account[a]: "new", "on", "off" (not enabled) or "deleted"
  stored,    \* stored[a]: the last good reading, or None
  alert,     \* alert[i]: "ok" or "raised"
  signin,    \* signin[a]: the alert about the account itself
  due,       \* due[a]: the interval is over, by the loop's own book-keeping
  poll,      \* poll[p]: [acct, step, snap, left], or None
  cloud,     \* cloud[i]: "gone", "fine" or "bad"
  moves, errors,
  service    \* the service this behaviour is about

database == <<account, stored, alert, signin>>
bounds == <<moves, errors>>
vars == <<database, due, poll, cloud, bounds, service>>

State == {"gone", "fine", "bad"}
Snapshots == [Items -> State]
Poll == [acct : Accounts, step : {"reading", "read", "evaluating"},
         snap : Snapshots \cup {None}, left : SUBSET Items]

ASSUME NoneIsNothing == None \notin Poll /\ None \notin Snapshots

Init ==
  /\ account = [a \in Accounts |-> "new"]
  /\ stored = [a \in Accounts |-> None]
  /\ alert = [i \in Items |-> "ok"]
  /\ signin = [a \in Accounts |-> "ok"]
  /\ due = [a \in Accounts |-> TRUE]
  /\ poll = [p \in Polls |-> None]
  /\ cloud \in Snapshots
  /\ moves = 0
  /\ errors = 0
  /\ service \in Services

-----------------------------------------------------------------------------
(* A reading.                                                              *)

Reading(p, step) == poll[p] # None /\ poll[p].step = step

\* Mutant of LoopIsFree: the evaluation is left to a worker thread.
LoopAlwaysFree == TRUE

\* Between the store and the last alert of a reading the event loop runs
\* nothing else.
LoopIsFree == \A p \in Polls : ~Reading(p, "evaluating")


\* create_task(_poll_...(account)), with the account's row as it is now
Started(a, p) ==
  poll' = [poll EXCEPT ![p] = [acct |-> a, step |-> "reading", snap |-> None,
                               left |-> {}]]

\* _unifi_loop notes the time when it starts a reading; _m365_loop goes by
\* last_poll, which is written when the reading has come back.
MarkedAtStart == service = "unifi"

\* The loop's round: an account whose interval is over is read.
LoopPoll(a, p) ==
  /\ LoopIsFree
  /\ account[a] = "on"
  /\ due[a]
  /\ poll[p] = None
  /\ Started(a, p)
  /\ due' = IF MarkedAtStart THEN [due EXCEPT ![a] = FALSE] ELSE due
  /\ UNCHANGED <<database, cloud, bounds>>

\* collect: the account's requests are made.  Signing in may fail; so may any
\* of the others, and what it reads is then missing from the reading.
Collect(p, failed, missing) ==
  /\ Reading(p, "reading")
  /\ missing \subseteq Parts
  /\ IF failed \/ missing # {}
        THEN errors < MaxErrors /\ errors' = errors + 1
        ELSE UNCHANGED errors
  /\ poll' = [poll EXCEPT ![p].step = "read",
                          ![p].snap =
       IF failed THEN None
       ELSE [i \in Items |-> IF \/ Owner[i] # poll[p].acct
                                \/ Part[i] \in missing
                               THEN "gone" ELSE cloud[i]]]
  /\ UNCHANGED <<database, due, cloud, moves>>

\* The items whose alert a reading decides: none when it failed, otherwise
\* those that it lists and, for Microsoft 365, those with an alert that it
\* does not list any more.
ToJudge(a, snap) ==
  IF snap = None THEN {}
  ELSE {i \in ItemsOf(a) :
          \/ snap[i] # "gone"
          \/ service = "m365" /\ alert[i] = "raised"}

\* save_..._result, and the alert about signing in.  A row that has gone is
\* not written; the alert is.
Save(p) ==
  LET a == poll[p].acct
      snap == poll[p].snap
  IN
  /\ LoopIsFree
  /\ Reading(p, "read")
  /\ stored' = IF snap # None /\ account[a] # "deleted"
                  THEN [stored EXCEPT ![a] = snap] ELSE stored
  /\ due' = IF MarkedAtStart THEN due ELSE [due EXCEPT ![a] = FALSE]
  /\ signin' = IF service = "m365"
                  THEN [signin EXCEPT ![a] = IF snap = None THEN "raised" ELSE "ok"]
                  ELSE signin
  /\ poll' = [poll EXCEPT ![p].step = "evaluating",
                          ![p].left = ToJudge(a, snap)]
  /\ UNCHANGED <<account, alert, cloud, bounds>>

\* Mutant of Says: another word for it.
SaysOther(snap, i) == snap # None /\ snap[i] = "offline"

\* What the reading says of an item.
Says(snap, i) == snap # None /\ snap[i] = "bad"

\* _apply for one item.
Judge(p, i) ==
  /\ Reading(p, "evaluating")
  /\ i \in poll[p].left
  /\ alert' = [alert EXCEPT ![i] = IF Says(poll[p].snap, i) THEN "raised" ELSE "ok"]
  /\ poll' = [poll EXCEPT ![p].left = @ \ {i}]
  /\ UNCHANGED <<account, stored, signin, due, cloud, bounds>>

Done(p) ==
  /\ Reading(p, "evaluating")
  /\ poll[p].left = {}
  /\ poll' = [poll EXCEPT ![p] = None]
  /\ UNCHANGED <<database, due, cloud, bounds>>

-----------------------------------------------------------------------------
(* The administrator, the clouds, the clock.                               *)

Move ==
  /\ moves < MaxMoves
  /\ moves' = moves + 1
  /\ UNCHANGED errors

\* create_..., with a first reading
CreateAccount(a, p) ==
  /\ Move
  /\ LoopIsFree
  /\ account[a] = "new"
  /\ poll[p] = None
  /\ account' = [account EXCEPT ![a] = "on"]
  /\ Started(a, p)
  /\ UNCHANGED <<stored, alert, signin, due, cloud>>

\* poll_..., on request, also of an account that is not enabled
UserPoll(a, p) ==
  /\ Move
  /\ LoopIsFree
  /\ account[a] \in {"on", "off"}
  /\ poll[p] = None
  /\ Started(a, p)
  /\ UNCHANGED <<database, due, cloud>>

\* update_...: switched off, or on and read.
SwitchAccount(a, p) ==
  /\ Move
  /\ LoopIsFree
  /\ \/ /\ account[a] = "on"
        /\ account' = [account EXCEPT ![a] = "off"]
        /\ UNCHANGED poll
     \/ /\ account[a] = "off"
        /\ account' = [account EXCEPT ![a] = "on"]
        /\ IF service = "unifi" THEN poll[p] = None /\ Started(a, p)
                                ELSE UNCHANGED poll
  /\ UNCHANGED <<stored, alert, signin, due, cloud>>

\* delete_...: the row and the alerts in one transaction
DeleteAccount(a) ==
  /\ Move
  /\ account[a] \in {"on", "off"}
  /\ account' = [account EXCEPT ![a] = "deleted"]
  /\ stored' = [stored EXCEPT ![a] = None]
  /\ alert' = [i \in Items |-> IF Owner[i] = a THEN "ok" ELSE alert[i]]
  /\ signin' = [signin EXCEPT ![a] = "ok"]
  /\ UNCHANGED <<due, poll, cloud>>

CloudChanges(i, s) ==
  /\ Move
  /\ s # cloud[i]
  /\ cloud' = [cloud EXCEPT ![i] = s]
  /\ UNCHANGED <<database, due, poll>>

\* The account's interval has passed since its mark.
IntervalPasses(a) ==
  /\ ~due[a]
  /\ due' = [due EXCEPT ![a] = TRUE]
  /\ UNCHANGED <<database, poll, cloud, bounds>>

\* The readings under way are lost, and UniFi's marks with them.
Restart ==
  /\ errors < MaxErrors
  /\ errors' = errors + 1
  /\ poll' = [p \in Polls |-> None]
  /\ due' = IF service = "unifi" THEN [a \in Accounts |-> TRUE] ELSE due
  /\ UNCHANGED <<database, cloud, moves>>

-----------------------------------------------------------------------------
Step(p) ==
  \/ Collect(p, FALSE, {})
  \/ Save(p)
  \/ \E i \in Items : Judge(p, i)
  \/ Done(p)

Next ==
  /\ \/ \E p \in Polls :
          \/ Step(p)
          \/ Collect(p, TRUE, {})
          \/ \E missing \in SUBSET Parts : Collect(p, FALSE, missing)
     \/ \E a \in Accounts, p \in Polls :
          \/ LoopPoll(a, p)
          \/ CreateAccount(a, p) \/ UserPoll(a, p) \/ SwitchAccount(a, p)
     \/ \E a \in Accounts : DeleteAccount(a) \/ IntervalPasses(a)
     \/ \E i \in Items, s \in State : CloudChanges(i, s)
     \/ Restart
  /\ UNCHANGED service

Spec == Init /\ [][Next]_vars

\* A task goes on until it ends (every request has a timeout), the loop makes
\* its rounds, and time passes.
Fairness ==
  /\ \A p \in Polls : WF_vars(Step(p) /\ UNCHANGED service)
  /\ \A a \in Accounts :
       /\ WF_vars((\E p \in Polls : LoopPoll(a, p)) /\ UNCHANGED service)
       /\ WF_vars(IntervalPasses(a) /\ UNCHANGED service)

FairSpec == Spec /\ Fairness

-----------------------------------------------------------------------------
(* Properties.                                                             *)

\* Every variable keeps its type.
TypeOK ==
  /\ account \in [Accounts -> {"new", "on", "off", "deleted"}]
  /\ stored \in [Accounts -> Snapshots \cup {None}]
  /\ alert \in [Items -> {"ok", "raised"}]
  /\ signin \in [Accounts -> {"ok", "raised"}]
  /\ due \in [Accounts -> BOOLEAN]
  /\ poll \in [Polls -> Poll \cup {None}]
  /\ cloud \in Snapshots
  /\ moves \in 0 .. MaxMoves
  /\ errors \in 0 .. MaxErrors
  /\ service \in {"unifi", "m365"}

\* Whether an evaluation of the account's alerts is under way.
BeingJudged(a) == \E p \in Polls : Reading(p, "evaluating") /\ poll[p].acct = a

\* The alerts are those of the reading on show, however many readings overlap
\* and in whatever order they come back: whatever the stored reading lists is
\* an alert exactly when it is in trouble there, and for Microsoft 365 there is
\* no alert about anything else.
AlertsMatchReading ==
  errors = 0 => \A i \in Items :
    LET a == Owner[i] IN
    account[a] \in {"on", "off"} /\ stored[a] # None /\ ~BeingJudged(a) =>
      /\ stored[a][i] = "bad" => alert[i] = "raised"
      /\ stored[a][i] = "fine" => alert[i] = "ok"
      /\ stored[a][i] = "gone" /\ service = "m365" => alert[i] = "ok"

\* Trouble that lasts in an account that stays enabled is an alert in the end,
\* whatever readings fail or overlap on the way.
TroubleIsRaised ==
  \A i \in Items :
    <>[](cloud[i] = "bad" /\ account[Owner[i]] = "on")
      => <>[](alert[i] = "raised")
=============================================================================
