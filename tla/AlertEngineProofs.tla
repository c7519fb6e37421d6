-------------------------- MODULE AlertEngineProofs --------------------------
(***************************************************************************)
(* What holds of the alert engine for any devices and any finite set of    *)
(* rules: the types of its variables; that no alert outlives its rule;     *)
(* that a remediation is started at most once while an alert lasts; and    *)
(* that webhooks, mails and the history tell of every change once and in    *)
(* order, but for what a failure cuts off.                                 *)
(***************************************************************************)
EXTENDS AlertEngine, FiniteSetTheorems, TLAPS

Row == [enabled : BOOLEAN, on : SUBSET Devices]
Transitions == [about : Subjects, says : {"raised", "ok"}, by : Rules]

\* Between two steps of _apply, the transition it is telling is known; an
\* episode it has yet to record and a mail it has yet to send are owed.
Telling ==
  /\ pc \in {"clear", "mail"} => pending \in Transitions
  /\ pc = "clear" => owed[pending.about] > 0
  /\ pc = "mail" => pending.by \in Notify
  /\ pc \in {"clear", "mail"} /\ pending.by \in Notify =>
       unmailed[pending.about] > 0

\* The rules that have still to be applied to a device have not been deleted
\* since they were read.
HeldRulesExist ==
  pc \in {"rules", "clear", "mail"} => \A r \in left : rule[r] # None

\* The inductive invariant.  NoAlertWithoutRule alone is not: an alert may be
\* raised at every rule in "left", so these must exist as long as they are
\* held, which they do because no rule is deleted inside an evaluation.
EngineInv == TypeOK /\ Telling /\ HeldRulesExist /\ NoAlertWithoutRule

-----------------------------------------------------------------------------
(* Lemmas.                                                                 *)

\* A rule's alert is its own, or that of a backup task.
LEMMA KeyOfRule ==
  ASSUME NEW r \in Rules
  PROVE  Key(r) \in Keys /\ (Key(r) \in Rules => Key(r) = r)
BY NamesAssumption DEF Key, Keys

\* A device and a key are a subject of an alert.
LEMMA SubjectOf ==
  ASSUME NEW d \in Devices, NEW k \in Keys
  PROVE  <<d, k>> \in Subjects
BY DEF Subjects

\* Events that wait keep their type: one is queued after the others.
LEMMA QueuedEvent ==
  ASSUME queue \in Seq(Event), NEW s \in Subjects, NEW says \in {"raised", "ok"}
  PROVE  Queued(s, says) \in Seq(Event)
BY DEF Queued, Event

\* A function on subjects keeps its type when one of its values changes.
LEMMA OneChanged ==
  ASSUME NEW S, NEW f \in [Subjects -> S], NEW s \in Subjects, NEW v \in S
  PROVE  [f EXCEPT ![s] = v] \in [Subjects -> S]
OBVIOUS

\* The rules when one has been written: the others are as they were.
LEMMA RuleWritten ==
  ASSUME TypeOK, NEW r \in Rules, NEW row \in Row
  PROVE  LET new == [rule EXCEPT ![r] = row] IN
         /\ new \in [Rules -> Row \cup {None}]
         /\ \A q \in Rules : rule[q] # None => new[q] # None
<1>1. row # None  BY NamesAssumption DEF Row
<1>2. rule \in [Rules -> Row \cup {None}]  BY DEF TypeOK, Row
<1> QED  BY <1>1, <1>2

\* Nothing the invariant speaks of has changed except the rules, of which none
\* is gone, and the bound on moves: the invariant holds as it did.
LEMMA RulesGrow ==
  ASSUME EngineInv, NEW new,
         new \in [Rules -> Row \cup {None}],
         \A q \in Rules : rule[q] # None => new[q] # None,
         rule' = new, Move,
         UNCHANGED <<exists, reading, alert, online>>,
         born' \subseteq Rules
  PROVE  EngineInv'
<1>1. TypeOK'
  BY BoundsAssumption DEF EngineInv, TypeOK, Move, Evaluating, Row, scan
<1>2. Telling'  BY DEF EngineInv, Telling, Move
<1>3. HeldRulesExist'
  BY DEF EngineInv, TypeOK, HeldRulesExist, Move, scan
<1>4. NoAlertWithoutRule'  BY DEF EngineInv, NoAlertWithoutRule
<1> QED  BY <1>1, <1>2, <1>3, <1>4 DEF EngineInv

\* The mails due about an alert are counted.
LEMMA MailsCount ==
  ASSUME unmailed \in [Subjects -> Nat], NEW s \in Subjects, NEW r \in Rules
  PROVE  /\ MailDue(s, r) \in [Subjects -> Nat]
         /\ r \in Notify => MailDue(s, r)[s] > 0
BY DEF MailDue

LEMMA InitHolds == Init => EngineInv
BY NamesAssumption, BoundsAssumption
   DEF Init, EngineInv, TypeOK, Telling, HeldRulesExist, NoAlertWithoutRule,
       Evaluating, Subjects, Keys, Event

-----------------------------------------------------------------------------
(* The steps.                                                              *)

LEMMA EngineKeeps == ASSUME EngineInv, Engine PROVE EngineInv'
<1> USE DEF EngineInv, TypeOK, Telling, HeldRulesExist, NoAlertWithoutRule,
            Evaluating, database, history, bounds, scan
<1>1. CASE Begin  BY <1>1 DEF Begin
<1>2. ASSUME NEW d \in Devices, TakeDevice(d) PROVE EngineInv'
  <2>1. CASE Effective(d) = {}
    BY <1>2, <2>1 DEF TakeDevice
  <2>2. CASE Effective(d) # {}
    <3>1. Effective(d) \subseteq Rules /\ RaisedKeys(d) \subseteq Keys
      BY DEF Effective, RaisedKeys
    <3>2. \A r \in Effective(d) : rule[r] # None  BY DEF Effective
    <3> QED  BY <1>2, <2>2, <3>1, <3>2, NamesAssumption DEF TakeDevice
  <2> QED  BY <2>1, <2>2
<1>3. ASSUME NEW r \in Rules, NothingNew(r) PROVE EngineInv'
  BY <1>3 DEF NothingNew
<1>4. ASSUME NEW r \in Rules, Raise(r) PROVE EngineInv'
  <2> DEFINE t == <<cur, Key(r)>>
  <2>1. t \in Subjects  BY <1>4, KeyOfRule, SubjectOf DEF Raise
  <2>2. pending' \in Transitions /\ pending'.about = t /\ pending'.by = r
    BY <1>4, <2>1 DEF Raise, Transitions
  <2>3. /\ unmailed' \in [Subjects -> Nat]
        /\ r \in Notify => unmailed'[t] > 0
    BY <1>4, <2>1, MailsCount DEF Raise
  <2>4. /\ alert' = [alert EXCEPT ![t] = "raised"] /\ left' = left \ {r}
        /\ queue' = Queued(t, "raised") /\ fixes' = [fixes EXCEPT ![t] = 0]
        /\ pc' = IF r \in Notify THEN "mail" ELSE "rules"
        /\ UNCHANGED <<rule, exists, reading, online, todo, cur, rules, before,
                       sending, jobs, born, owed, hooked, bounds>>
        /\ pc = "rules" /\ r \in left
    BY <1>4 DEF Raise, AfterRaise
  <2>5. queue' \in Seq(Event)  BY <2>1, <2>4, QueuedEvent
  <2>6. NoAlertWithoutRule'
    BY <2>1, <2>4, KeyOfRule, NamesAssumption
  <2> HIDE DEF t
  <2> QED  BY <2>1, <2>2, <2>3, <2>4, <2>5, <2>6 DEF Transitions
<1>5. ASSUME NEW r \in Rules, Clear(r) PROVE EngineInv'
  <2> DEFINE t == <<cur, Key(r)>>
  <2>1. t \in Subjects  BY <1>5, KeyOfRule, SubjectOf DEF Clear
  <2>2. pending' \in Transitions /\ pending'.about = t /\ pending'.by = r
    BY <1>5, <2>1 DEF Clear, Transitions
  <2>3. /\ unmailed' \in [Subjects -> Nat]
        /\ r \in Notify => unmailed'[t] > 0
    BY <1>5, <2>1, MailsCount DEF Clear
  <2>4. /\ alert' = [alert EXCEPT ![t] = "ok"] /\ left' = left \ {r}
        /\ queue' = Queued(t, "ok") /\ owed' = [owed EXCEPT ![t] = @ + 1]
        /\ pc' = "clear"
        /\ UNCHANGED <<rule, exists, reading, online, todo, cur, rules, before,
                       sending, jobs, born, hooked, fixes, bounds>>
        /\ pc = "rules" /\ r \in left
    BY <1>5 DEF Clear
  <2>5. queue' \in Seq(Event)  BY <2>1, <2>4, QueuedEvent
  <2>6. owed' \in [Subjects -> Nat] /\ owed'[t] > 0  BY <2>1, <2>4
  <2>7. NoAlertWithoutRule'  BY <2>1, <2>4
  <2> HIDE DEF t
  <2> QED  BY <2>1, <2>2, <2>3, <2>4, <2>5, <2>6, <2>7, SMTT(30) DEF Transitions
<1>6. CASE RecordIncident
  BY <1>6 DEF RecordIncident, Transitions
<1>7. CASE Mail(TRUE)
  <2>1. /\ pending.about \in Subjects /\ unmailed[pending.about] > 0
        /\ unmailed' = [unmailed EXCEPT ![pending.about] = @ - 1]
    BY <1>7 DEF Mail, Transitions
  <2>2. unmailed' \in [Subjects -> Nat]  BY <2>1
  <2> QED  BY <1>7, <2>2 DEF Mail
<1>8. CASE DeviceDone  BY <1>8 DEF DeviceDone
<1>9. CASE ScanDone  BY <1>9 DEF ScanDone
<1>10. ASSUME NEW j \in jobs, Remediate(j) PROVE EngineInv'
  <2>1. <<j.dev, Key(j.by)>> \in Subjects  BY KeyOfRule, SubjectOf
  <2>2. fixes' \in [Subjects -> Nat]  BY <1>10, <2>1 DEF Remediate
  <2> QED  BY <1>10, <2>2 DEF Remediate
<1>11. CASE Drain  BY <1>11 DEF Drain
<1>12. CASE Deliver(TRUE)
  <2>1. sending' \in Seq(Event) /\ Head(sending) \in Event
    BY <1>12 DEF Deliver
  <2>2. hooked' \in [Subjects -> {"ok", "raised"}]
    BY <1>12, <2>1, OneChanged DEF Deliver, Event
  <2> QED  BY <1>12, <2>1, <2>2 DEF Deliver
<1>13. CASE Rest  BY <1>13 DEF Rest
<1> QED
  BY <1>1, <1>2, <1>3, <1>4, <1>5, <1>6, <1>7, <1>8, <1>9, <1>10, <1>11, <1>12,
     <1>13 DEF Engine

LEMMA FaultKeeps == ASSUME EngineInv, Fault PROVE EngineInv'
<1> USE BoundsAssumption
    DEF EngineInv, TypeOK, Telling, HeldRulesExist, NoAlertWithoutRule,
        Evaluating, database, history, bounds, scan
<1>1. CASE EvaluationFails  BY <1>1 DEF EvaluationFails, AfterFailure
<1>2. CASE Mail(FALSE)  BY <1>2 DEF Mail
<1>3. CASE Deliver(FALSE)
  <2>1. sending' \in Seq(Event) /\ Head(sending) \in Event
    BY <1>3 DEF Deliver
  <2>2. hooked' \in [Subjects -> {"ok", "raised"}]
    BY <1>3, <2>1, OneChanged DEF Deliver, Event
  <2> QED  BY <1>3, <2>1, <2>2 DEF Deliver
<1>4. CASE Restart  BY <1>4 DEF Restart
<1> QED  BY <1>1, <1>2, <1>3, <1>4 DEF Fault

LEMMA WorldKeeps == ASSUME EngineInv, World PROVE EngineInv'
<1> USE BoundsAssumption
<1> DEFINE Reported == \E d \in Devices, r \in Rules, v \in {"bad", "fine", "none"} :
                          Reading(<<d, Key(r)>>, v)
<1>1. CASE Reported
  <2>1. PICK s \in Subjects, v \in {"bad", "fine", "none"} : Reading(s, v)
    BY <1>1, KeyOfRule, SubjectOf
  <2> QED
    BY <2>1 DEF EngineInv, TypeOK, Telling, HeldRulesExist, NoAlertWithoutRule,
                Evaluating, Reading, Move, scan
<1>2. ASSUME NEW d \in Devices, Connect(d) \/ Disconnect(d) \/ DeleteDevice(d)
      PROVE  EngineInv'
  <2> USE DEF EngineInv, TypeOK, Telling, HeldRulesExist, NoAlertWithoutRule,
              Evaluating, Move, database, scan
  <2>1. CASE Connect(d)  BY <2>1 DEF Connect
  <2>2. CASE Disconnect(d)  BY <2>2 DEF Disconnect
  <2>3. CASE DeleteDevice(d)  BY <2>3 DEF DeleteDevice
  <2> QED  BY <1>2, <2>1, <2>2, <2>3
<1>3. ASSUME NEW r \in Rules, NEW on \in SUBSET Devices, AddRule(r, on)
      PROVE  EngineInv'
  <2> DEFINE row == [enabled |-> TRUE, on |-> on]
  <2>1. row \in Row  BY DEF Row
  <2>2. born' \subseteq Rules  BY <1>3 DEF AddRule, EngineInv, TypeOK
  <2>3. TypeOK  BY DEF EngineInv
  <2>4. /\ rule' = [rule EXCEPT ![r] = row] /\ Move
        /\ UNCHANGED <<exists, reading, alert, online>>
    BY <1>3 DEF AddRule
  <2> HIDE DEF row
  <2> QED  BY <2>1, <2>2, <2>3, <2>4, RuleWritten, RulesGrow
<1>4. ASSUME NEW r \in Rules, NEW on \in SUBSET Devices, UpdateRule(r, on)
      PROVE  EngineInv'
  <2> DEFINE row == [rule[r] EXCEPT !.on = on]
  <2>1. row \in Row
    <3>1. rule[r] \in Row  BY <1>4 DEF UpdateRule, EngineInv, TypeOK, Row
    <3> QED  BY <3>1 DEF Row
  <2>2. born' \subseteq Rules  BY <1>4 DEF UpdateRule, EngineInv, TypeOK
  <2>3. TypeOK  BY DEF EngineInv
  <2>4. /\ rule' = [rule EXCEPT ![r] = row] /\ Move
        /\ UNCHANGED <<exists, reading, alert, online>>
    BY <1>4 DEF UpdateRule
  <2> HIDE DEF row
  <2> QED  BY <2>1, <2>2, <2>3, <2>4, RuleWritten, RulesGrow
<1>5. ASSUME NEW r \in Rules, ToggleRule(r) PROVE EngineInv'
  <2> DEFINE row == [rule[r] EXCEPT !.enabled = ~@]
  <2>1. row \in Row
    <3>1. rule[r] \in Row  BY <1>5 DEF ToggleRule, EngineInv, TypeOK, Row
    <3> QED  BY <3>1 DEF Row
  <2>2. born' \subseteq Rules  BY <1>5 DEF ToggleRule, EngineInv, TypeOK
  <2>3. TypeOK  BY DEF EngineInv
  <2>4. /\ rule' = [rule EXCEPT ![r] = row] /\ Move
        /\ UNCHANGED <<exists, reading, alert, online>>
    BY <1>5 DEF ToggleRule
  <2> HIDE DEF row
  <2> QED  BY <2>1, <2>2, <2>3, <2>4, RuleWritten, RulesGrow
<1>6. ASSUME NEW r \in Rules, DeleteRule(r) PROVE EngineInv'
  <2> USE DEF EngineInv
  <2>1. TypeOK'
    BY <1>6 DEF TypeOK, Evaluating, DeleteRule, AlertsWithout, Move, scan
  <2>2. Telling'  BY <1>6 DEF Telling, DeleteRule, Move
  <2>3. HeldRulesExist'
    \* A coroutine: no evaluation is under way.
    BY <1>6 DEF HeldRulesExist, Evaluating, DeleteRule, MayDelete, Move
  <2>4. NoAlertWithoutRule'
    <3> SUFFICES ASSUME NEW d \in Devices, NEW q \in Rules,
                        alert'[<<d, q>>] = "raised"
                 PROVE  rule'[q] # None
      BY DEF NoAlertWithoutRule
    <3>1. <<d, q>> \in Subjects  BY SubjectOf DEF Keys
    <3>2. alert'[<<d, q>>] = IF q = r THEN "ok" ELSE alert[<<d, q>>]
      BY <1>6, <3>1 DEF DeleteRule, AlertsWithout
    <3>3. q # r /\ rule[q] # None  BY <3>2 DEF NoAlertWithoutRule
    <3> QED  BY <1>6, <3>3 DEF DeleteRule, TypeOK
  <2> QED  BY <2>1, <2>2, <2>3, <2>4
<1> QED  BY <1>1, <1>2, <1>3, <1>4, <1>5, <1>6 DEF World

-----------------------------------------------------------------------------
(* The theorems.                                                           *)

LEMMA StutterKeeps == ASSUME EngineInv, UNCHANGED vars PROVE EngineInv'
BY DEF EngineInv, TypeOK, Telling, HeldRulesExist, NoAlertWithoutRule,
       Evaluating, vars, database, scan, history, bounds

\* The engine's invariant: what it holds while it raises and clears alerts.
THEOREM EngineInvariant == Spec => []EngineInv
<1>1. Init => EngineInv  BY InitHolds
<1>2. EngineInv /\ [Next]_vars => EngineInv'
  BY EngineKeeps, FaultKeeps, WorldKeeps, StutterKeeps DEF Next
<1> QED  BY <1>1, <1>2, PTL DEF Spec

\* Every variable keeps its type; in particular no episode is recorded that is
\* not owed to the history ("owed" never falls below zero).
THEOREM EngineTyping == Spec => []TypeOK
<1>1. EngineInv => TypeOK  BY DEF EngineInv
<1> QED  BY <1>1, EngineInvariant, PTL

\* An alert never outlives its rule: deleting a rule takes its alerts along,
\* and no evaluation that is under way raises one again.
THEOREM AlertsHaveRules == Spec => []NoAlertWithoutRule
<1>1. EngineInv => NoAlertWithoutRule  BY DEF EngineInv
<1> QED  BY <1>1, EngineInvariant, PTL

-----------------------------------------------------------------------------
(* Remediations and episodes: what the properties rest on.                 *)

\* A device is being evaluated.
AtDevice == pc \in {"rules", "clear", "mail"}

\* What the rules that have existed have left behind: a rule that has never
\* existed holds no row, no place in an evaluation and no remediation.
RuleLife ==
  /\ \A r \in Rules : rule[r] # None => r \in born
  /\ AtDevice => rules \subseteq born
  /\ \A j \in jobs : j.by \in born

\* Between two steps of _apply, the transition it tells is the one it stored,
\* about the alert of a rule of this device.
TellsStored ==
  pc \in {"clear", "mail"} =>
    /\ pending.about[2] = Key(pending.by)
    /\ pending.by \in rules
    /\ alert[pending.about] = pending.says

\* Events are being delivered only after the remediations.
SendsLast == sending # <<>> => pc = "hooks"

\* Remediations are asked for by an evaluation and run right after it, and an
\* evaluation takes each device once: those of the devices it has yet to take
\* or is taking have not been asked for.
JobsApart ==
  /\ pc \in {"sleep", "hooks"} => jobs = {}
  /\ Evaluating => \A j \in jobs : j.dev \notin todo
  /\ AtDevice => cur \notin todo /\ \A j \in jobs : j.dev # cur

\* An alert that this evaluation raised is a new episode: nothing has been
\* started in it.
NewEpisodes ==
  AtDevice => \A k \in Keys :
    alert[<<cur, k>>] = "raised" /\ k \notin before => fixes[<<cur, k>>] = 0

RulesOf(k) == {r \in Rules : Key(r) = k}

\* The remediations of a set that are about s.
About(J, s) == {j \in J : j.dev = s[1] /\ Key(j.by) = s[2]}

\* What has been started in an episode and what waits to be started are
\* together no more than the rules that keep the alert.
WithinRules ==
  \A s \in Subjects :
    fixes[s] + Cardinality(About(jobs, s)) <= Cardinality(RulesOf(s[2]))

JobsStand ==
  \A j \in jobs : alert[<<j.dev, Key(j.by)>>] = "raised" \/ rule[j.by] = None

\* The inductive invariant of RemediationOnce and EpisodesAreTold.  "At most
\* once" is not inductive: the remediations that wait count as well, and no
\* device may be asked twice in an evaluation.
LifeInv == RuleLife /\ TellsStored /\ SendsLast
ApartInv == JobsApart /\ NewEpisodes
JobsInv == ApartInv /\ WithinRules /\ JobsStand

LEMMA LifeEngine ==
  ASSUME EngineInv, LifeInv, Engine
  PROVE  LifeInv'
<1> USE DEF EngineInv, TypeOK, Telling, LifeInv, RuleLife, TellsStored, SendsLast,
            AtDevice, Evaluating, database, history, bounds, scan
<1>1. CASE Begin  BY <1>1 DEF Begin
<1>2. ASSUME NEW d \in Devices, TakeDevice(d) PROVE LifeInv'
  BY <1>2 DEF TakeDevice, Effective
<1>3. ASSUME NEW r \in Rules, NothingNew(r) PROVE LifeInv'
  BY <1>3 DEF NothingNew
<1>4. ASSUME NEW r \in Rules, Raise(r) PROVE LifeInv'
  <2>1. <<cur, Key(r)>> \in Subjects /\ r \in rules
    BY <1>4, KeyOfRule, SubjectOf, NamesAssumption DEF Raise
  <2> QED  BY <1>4, <2>1 DEF Raise, AfterRaise
<1>5. ASSUME NEW r \in Rules, Clear(r) PROVE LifeInv'
  <2>1. <<cur, Key(r)>> \in Subjects /\ r \in rules
    BY <1>5, KeyOfRule, SubjectOf, NamesAssumption DEF Clear
  <2> QED  BY <1>5, <2>1 DEF Clear
<1>6. CASE RecordIncident  BY <1>6 DEF RecordIncident
<1>7. CASE Mail(TRUE)  BY <1>7 DEF Mail
<1>8. CASE DeviceDone  BY <1>8 DEF DeviceDone
<1>9. CASE ScanDone  BY <1>9 DEF ScanDone
<1>10. ASSUME NEW j \in jobs, Remediate(j) PROVE LifeInv'
  BY <1>10 DEF Remediate
<1>11. CASE Drain  BY <1>11 DEF Drain
<1>12. CASE Deliver(TRUE)  BY <1>12 DEF Deliver
<1>13. CASE Rest  BY <1>13 DEF Rest
<1> QED
  BY <1>1, <1>2, <1>3, <1>4, <1>5, <1>6, <1>7, <1>8, <1>9, <1>10, <1>11, <1>12,
     <1>13 DEF Engine

LEMMA LifeOthers ==
  ASSUME EngineInv, LifeInv, Fault \/ World
  PROVE  LifeInv'
<1> USE DEF EngineInv, TypeOK, Telling, LifeInv, RuleLife, TellsStored, SendsLast,
            AtDevice, Evaluating, database, history, bounds, scan
<1>1. CASE EvaluationFails  BY <1>1 DEF EvaluationFails, AfterFailure
<1>2. CASE Mail(FALSE)  BY <1>2 DEF Mail
<1>3. CASE Deliver(FALSE)  BY <1>3 DEF Deliver
<1>4. CASE Restart  BY <1>4 DEF Restart
<1>5. ASSUME NEW d \in Devices, NEW r \in Rules, NEW v \in {"bad", "fine", "none"},
             Reading(<<d, Key(r)>>, v)
      PROVE  LifeInv'
  BY <1>5 DEF Reading, Move
<1>6. ASSUME NEW d \in Devices, Connect(d) \/ Disconnect(d) \/ DeleteDevice(d)
      PROVE  LifeInv'
  BY <1>6 DEF Connect, Disconnect, DeleteDevice, Move
<1>7. ASSUME NEW r \in Rules, NEW on \in SUBSET Devices,
             AddRule(r, on) \/ UpdateRule(r, on)
      PROVE  LifeInv'
  BY <1>7 DEF AddRule, UpdateRule, Move
<1>8. ASSUME NEW r \in Rules, ToggleRule(r) PROVE LifeInv'
  BY <1>8 DEF ToggleRule, Move
<1>9. ASSUME NEW r \in Rules, DeleteRule(r) PROVE LifeInv'
  BY <1>9 DEF DeleteRule, MayDelete, Move
<1>10. CASE Fault
  <2> HIDE DEF LifeInv
  <2> QED  BY <1>1, <1>2, <1>3, <1>4, <1>10 DEF Fault
<1>11. CASE World
  <2> HIDE DEF LifeInv, EngineInv, TypeOK
  <2> QED  BY <1>5, <1>6, <1>7, <1>8, <1>9, <1>11 DEF World
<1> QED  BY <1>10, <1>11

-----------------------------------------------------------------------------
(* Remediations.                                                           *)

\* Of any set of remediations, those about one alert are no more than the
\* rules that keep it: a rule asks once for a device.
LEMMA JobsBounded ==
  ASSUME NEW J \in SUBSET [dev : Devices, by : Rules], NEW s \in Subjects
  PROVE  /\ IsFiniteSet(About(J, s))
         /\ Cardinality(About(J, s)) \in Nat
         /\ Cardinality(RulesOf(s[2])) \in Nat
         /\ Cardinality(About(J, s)) <= Cardinality(RulesOf(s[2]))
<1> DEFINE by == [j \in About(J, s) |-> j.by]
<1>1. IsFiniteSet(RulesOf(s[2])) /\ Cardinality(RulesOf(s[2])) \in Nat
  <2>1. RulesOf(s[2]) \in SUBSET Rules  BY DEF RulesOf
  <2>2. IsFiniteSet(RulesOf(s[2]))  BY <2>1, FiniteAssumption, FS_Subset
  <2> QED  BY <2>2, FS_CardinalityType
<1>2. by \in Injection(About(J, s), RulesOf(s[2]))
  BY DEF Injection, IsInjective, About, RulesOf
<1>3. IsFiniteSet(About(J, s)) /\ Cardinality(About(J, s)) <= Cardinality(RulesOf(s[2]))
  BY <1>1, <1>2, FS_Injection
<1> QED  BY <1>1, <1>3, FS_CardinalityType

\* The remediations that wait stay apart from the devices that are yet to be
\* taken, and an episode raised by this evaluation stays new.
LEMMA ApartEngine ==
  ASSUME EngineInv, ApartInv, Engine
  PROVE  ApartInv'
<1> USE DEF EngineInv, TypeOK, ApartInv, JobsApart, NewEpisodes, AtDevice,
            Evaluating, database, history, bounds, scan
<1>1. CASE Begin  BY <1>1 DEF Begin
<1>2. ASSUME NEW d \in Devices, TakeDevice(d) PROVE ApartInv'
  BY <1>2 DEF TakeDevice, RaisedKeys
<1>3. ASSUME NEW r \in Rules, NothingNew(r) PROVE ApartInv'
  BY <1>3 DEF NothingNew
<1>4. ASSUME NEW r \in Rules, Raise(r) PROVE ApartInv'
  <2>1. <<cur, Key(r)>> \in Subjects /\ \A k \in Keys : <<cur, k>> \in Subjects
    BY <1>4, KeyOfRule, SubjectOf, NamesAssumption DEF Raise
  <2> QED  BY <1>4, <2>1 DEF Raise, AfterRaise
<1>5. ASSUME NEW r \in Rules, Clear(r) PROVE ApartInv'
  <2>1. <<cur, Key(r)>> \in Subjects /\ \A k \in Keys : <<cur, k>> \in Subjects
    BY <1>5, KeyOfRule, SubjectOf, NamesAssumption DEF Clear
  <2> QED  BY <1>5, <2>1 DEF Clear
<1>6. CASE RecordIncident  BY <1>6 DEF RecordIncident
<1>7. CASE Mail(TRUE)  BY <1>7 DEF Mail
<1>8. CASE DeviceDone  BY <1>8 DEF DeviceDone
<1>9. CASE ScanDone  BY <1>9 DEF ScanDone
<1>10. ASSUME NEW j \in jobs, Remediate(j) PROVE ApartInv'
  BY <1>10 DEF Remediate
<1>11. CASE Drain  BY <1>11 DEF Drain
<1>12. CASE Deliver(TRUE)  BY <1>12 DEF Deliver
<1>13. CASE Rest  BY <1>13 DEF Rest
<1> QED
  BY <1>1, <1>2, <1>3, <1>4, <1>5, <1>6, <1>7, <1>8, <1>9, <1>10, <1>11, <1>12,
     <1>13 DEF Engine

LEMMA ApartOthers ==
  ASSUME EngineInv, ApartInv, Fault \/ World
  PROVE  ApartInv'
<1> USE DEF EngineInv, TypeOK, ApartInv, JobsApart, NewEpisodes, AtDevice,
            Evaluating, database, history, bounds, scan
<1>1. CASE Fault
  BY <1>1 DEF Fault, EvaluationFails, AfterFailure, Mail, Deliver, Restart
<1>2. CASE World
  <2>1. UNCHANGED <<pc, todo, cur, before, jobs, fixes>>
    <3> HIDE DEF EngineInv, ApartInv, TypeOK
    <3> QED
      BY <1>2 DEF World, Reading, Connect, Disconnect, DeleteDevice, AddRule,
                  UpdateRule, ToggleRule, DeleteRule, Move
  <2>2. UNCHANGED alert \/ ~Evaluating
    <3> HIDE DEF EngineInv, ApartInv, TypeOK
    <3> QED
      BY <1>2 DEF World, Reading, Connect, Disconnect, DeleteDevice, AddRule,
                  UpdateRule, ToggleRule, DeleteRule, MayDelete, Move
  <2> QED  BY <2>1, <2>2
<1> QED  BY <1>1, <1>2

\* The remediations of an episode stay within the rules that keep its alert.
LEMMA WithinKept ==
  ASSUME EngineInv, ApartInv, WithinRules, Next
  PROVE  WithinRules'
<1> DEFINE Limit(s) == Cardinality(RulesOf(s[2]))
<1>1. jobs \in SUBSET [dev : Devices, by : Rules] /\ fixes \in [Subjects -> Nat]
  BY DEF EngineInv, TypeOK
<1>2. ASSUME jobs' = jobs \/ jobs' = {},
             \A s \in Subjects : fixes'[s] = fixes[s] \/ fixes'[s] = 0
      PROVE  WithinRules'
  <2> SUFFICES ASSUME NEW s \in Subjects
               PROVE  fixes'[s] + Cardinality(About(jobs', s)) <= Limit(s)
    BY DEF WithinRules, About
  <2>2. fixes[s] + Cardinality(About(jobs, s)) <= Limit(s)
    BY DEF WithinRules
  <2>3. /\ Cardinality(About(jobs, s)) \in Nat
        /\ Limit(s) \in Nat
        /\ Cardinality(About(jobs, s)) <= Limit(s)
    BY <1>1, JobsBounded
  <2>4. Cardinality(About({}, s)) = 0
    <3>1. About({}, s) = {}  BY DEF About
    <3> QED  BY <3>1, FS_EmptySet
  <2>5. Cardinality(About(jobs', s)) \in Nat
        /\ Cardinality(About(jobs', s)) <= Cardinality(About(jobs, s))
    BY <1>2, <2>3, <2>4
  <2>6. fixes[s] \in Nat /\ (fixes'[s] = fixes[s] \/ fixes'[s] = 0)
    BY <1>1, <1>2
  <2> HIDE DEF Limit
  <2> QED  BY <2>2, <2>3, <2>5, <2>6
<1>3. ASSUME NEW r \in Rules, Raise(r) PROVE WithinRules'
  <2>1. fixes' = [fixes EXCEPT ![<<cur, Key(r)>>] = 0] /\ jobs' = jobs
    BY <1>3 DEF Raise
  <2> QED  BY <1>1, <1>2, <2>1
<1>4. CASE DeviceDone
  <2> DEFINE asked == {[dev |-> cur, by |-> r] :
          r \in {q \in rules : /\ Key(q) \in Newly(cur)
                               /\ \/ Fix[q] = "wol"
                                  \/ Fix[q] = "agent" /\ cur \in online}}
  <2>1. jobs' = jobs \cup asked /\ fixes' = fixes /\ pc = "rules"
    BY <1>4 DEF DeviceDone, history
  <2>2. cur \in Devices /\ rules \subseteq Rules
    BY <2>1 DEF EngineInv, TypeOK, Evaluating
  <2>3. asked \in SUBSET [dev : Devices, by : Rules]  BY <2>2
  <2> SUFFICES ASSUME NEW s \in Subjects
               PROVE  fixes[s] + Cardinality(About(jobs \cup asked, s)) <= Limit(s)
    BY <2>1 DEF WithinRules, About
  <2>4. fixes[s] + Cardinality(About(jobs, s)) <= Limit(s)
    BY DEF WithinRules, About
  <2>5. CASE \E j \in asked : j.dev = s[1] /\ Key(j.by) = s[2]
    <3>1. PICK q \in rules : Key(q) \in Newly(cur) /\ s[1] = cur /\ s[2] = Key(q)
      BY <2>5
    <3>2. s = <<cur, Key(q)>>  BY <3>1 DEF Subjects
    <3>3. fixes[s] = 0
      BY <2>1, <3>1, <3>2 DEF ApartInv, NewEpisodes, AtDevice, Newly, RaisedKeys
    <3>4. jobs \cup asked \in SUBSET [dev : Devices, by : Rules]  BY <1>1, <2>3
    <3> HIDE DEF asked
    <3>5. /\ Cardinality(About(jobs \cup asked, s)) <= Limit(s)
          /\ Cardinality(About(jobs \cup asked, s)) \in Nat
          /\ Limit(s) \in Nat
      BY <3>4, JobsBounded
    <3> HIDE DEF Limit
    <3> QED  BY <3>3, <3>5
  <2>6. CASE ~\E j \in asked : j.dev = s[1] /\ Key(j.by) = s[2]
    <3>1. About(jobs \cup asked, s) = About(jobs, s)  BY <2>6 DEF About
    <3> QED  BY <2>4, <3>1
  <2> QED  BY <2>5, <2>6
<1>5. ASSUME NEW j \in jobs, Remediate(j) PROVE WithinRules'
  <2> DEFINE t == <<j.dev, Key(j.by)>>
  <2>1. t \in Subjects  BY <1>1, KeyOfRule, SubjectOf
  <2>2. /\ jobs' = jobs \ {j}
        /\ fixes' = fixes \/ fixes' = [fixes EXCEPT ![t] = @ + 1]
    BY <1>5 DEF Remediate
  <2> SUFFICES ASSUME NEW s \in Subjects
               PROVE  fixes'[s] + Cardinality(About(jobs \ {j}, s)) <= Limit(s)
    BY <2>2 DEF WithinRules, About
  <2>3. fixes[s] + Cardinality(About(jobs, s)) <= Limit(s)
    BY DEF WithinRules, About
  <2>4. /\ IsFiniteSet(About(jobs, s))
        /\ Cardinality(About(jobs, s)) \in Nat
        /\ Limit(s) \in Nat
    BY <1>1, JobsBounded
  <2>5. About(jobs \ {j}, s) = About(jobs, s) \ {j}  BY DEF About
  <2>6. Cardinality(About(jobs \ {j}, s)) =
          IF j \in About(jobs, s) THEN Cardinality(About(jobs, s)) - 1
          ELSE Cardinality(About(jobs, s))
    BY <2>4, <2>5, FS_RemoveElement
  <2>7. j \in About(jobs, s) <=> s = t  BY <2>1 DEF About, Subjects
  <2>8. \/ fixes'[s] = fixes[s]
        \/ s = t /\ fixes'[s] = fixes[s] + 1
    <3> HIDE DEF t
    <3>1. CASE fixes' = fixes  BY <3>1
    <3>2. CASE fixes' = [fixes EXCEPT ![t] = @ + 1]  BY <1>1, <2>1, <3>2
    <3> QED  BY <2>2, <3>1, <3>2
  <2>9. fixes[s] \in Nat  BY <1>1
  <2> HIDE DEF Limit, t
  <2>10. CASE j \in About(jobs, s)
    BY <2>3, <2>4, <2>6, <2>8, <2>9, <2>10
  <2>11. CASE j \notin About(jobs, s)
    BY <2>3, <2>4, <2>6, <2>7, <2>8, <2>9, <2>11
  <2> QED  BY <2>10, <2>11
<1>6. ASSUME Next, ~DeviceDone, ~\E r \in Rules : Raise(r),
             ~\E j \in jobs : Remediate(j)
      PROVE  (jobs' = jobs \/ jobs' = {}) /\ fixes' = fixes
  BY <1>6 DEF Next, Engine, Fault, World, Begin, TakeDevice, NothingNew, Clear,
       RecordIncident, Mail, ScanDone, Drain, Deliver, Rest, EvaluationFails,
       Restart, Reading, Connect, Disconnect, DeleteDevice, AddRule, UpdateRule,
       ToggleRule, DeleteRule, Move, history
<1> QED  BY <1>2, <1>3, <1>4, <1>5, <1>6

\* A remediation that waits is about an alert that stands, unless its rule has
\* been deleted: alerts are cleared on the device that is being evaluated, for
\* which nothing waits yet.
LEMMA StandKept ==
  ASSUME EngineInv, LifeInv, ApartInv, JobsStand, Next
  PROVE  JobsStand'
<1>1. jobs \in SUBSET [dev : Devices, by : Rules]  BY DEF EngineInv, TypeOK
<1>2. \A j \in jobs : <<j.dev, Key(j.by)>> \in Subjects
  BY <1>1, KeyOfRule, SubjectOf
<1>3. ASSUME NEW r \in Rules, Raise(r) PROVE JobsStand'
  BY <1>2, <1>3 DEF Raise, JobsStand, EngineInv, TypeOK
<1>4. ASSUME NEW r \in Rules, Clear(r) PROVE JobsStand'
  BY <1>2, <1>4 DEF Clear, JobsStand, ApartInv, JobsApart, AtDevice, EngineInv, TypeOK
<1>5. CASE DeviceDone
  <2>1. ASSUME NEW j \in jobs'
        PROVE  j \in jobs \/ alert[<<j.dev, Key(j.by)>>] = "raised"
    <3>1. \/ j \in jobs
          \/ \E q \in rules : j = [dev |-> cur, by |-> q] /\ Key(q) \in Newly(cur)
      BY <1>5 DEF DeviceDone
    <3>2. ASSUME NEW q \in rules, j = [dev |-> cur, by |-> q], Key(q) \in Newly(cur)
          PROVE  alert[<<j.dev, Key(j.by)>>] = "raised"
      <4>1. j.dev = cur /\ j.by = q  BY <3>2
      <4> QED  BY <3>2, <4>1 DEF Newly, RaisedKeys
    <3> QED  BY <3>1, <3>2
  <2>2. alert' = alert /\ rule' = rule  BY <1>5 DEF DeviceDone, database
  <2> QED  BY <2>1, <2>2 DEF JobsStand
<1>6. ASSUME NEW r \in Rules, DeleteRule(r) PROVE JobsStand'
  <2> SUFFICES ASSUME NEW j \in jobs, rule'[j.by] # None
               PROVE  alert'[<<j.dev, Key(j.by)>>] = "raised"
    BY <1>6 DEF JobsStand, DeleteRule, Move
  <2>1. j.by # r /\ rule[j.by] # None
    BY <1>1, <1>6 DEF DeleteRule, EngineInv, TypeOK
  <2>2. Key(j.by) # r  BY <1>1, <2>1, KeyOfRule
  <2>3. alert'[<<j.dev, Key(j.by)>>] = alert[<<j.dev, Key(j.by)>>]
    BY <1>2, <1>6, <2>2 DEF DeleteRule, AlertsWithout
  <2> QED  BY <2>1, <2>3 DEF JobsStand
<1>7. ASSUME NEW r \in Rules, NEW on \in SUBSET Devices, AddRule(r, on)
      PROVE  JobsStand'
  BY <1>1, <1>7 DEF AddRule, Move, JobsStand, LifeInv, RuleLife, EngineInv, TypeOK
<1>8. ASSUME NEW r \in Rules,
             ToggleRule(r) \/ \E on \in SUBSET Devices : UpdateRule(r, on)
      PROVE  JobsStand'
  <2>1. jobs' = jobs /\ alert' = alert
    BY <1>8 DEF ToggleRule, UpdateRule, Move
  <2>2. rule[r] # None /\ \A q \in Rules : q # r => rule'[q] = rule[q]
    BY <1>8 DEF ToggleRule, UpdateRule, EngineInv, TypeOK
  <2> QED  BY <1>1, <2>1, <2>2 DEF JobsStand
<1>9. ASSUME ~DeviceDone,
             ~\E r \in Rules : \/ Raise(r) \/ Clear(r) \/ DeleteRule(r)
                               \/ ToggleRule(r),
             ~\E r \in Rules, on \in SUBSET Devices : AddRule(r, on) \/ UpdateRule(r, on)
      PROVE  jobs' \subseteq jobs /\ alert' = alert /\ rule' = rule
  BY <1>9 DEF Next, Engine, Fault, World, Begin, TakeDevice, NothingNew,
       RecordIncident, Mail, ScanDone, Remediate, Drain, Deliver, Rest,
       EvaluationFails, Restart, Reading, Connect, Disconnect, DeleteDevice, Move,
       database
<1> QED  BY <1>3, <1>4, <1>5, <1>6, <1>7, <1>8, <1>9 DEF JobsStand

LEMMA StutterKeepsJobs ==
  ASSUME LifeInv, ApartInv, WithinRules, JobsStand, UNCHANGED vars
  PROVE  (LifeInv /\ ApartInv /\ WithinRules /\ JobsStand)'
BY DEF LifeInv, RuleLife, TellsStored, SendsLast, ApartInv, JobsApart, NewEpisodes,
       WithinRules, About, JobsStand, AtDevice, Evaluating, vars, database, scan,
       history, bounds

LEMMA InitJobs == Init => LifeInv /\ ApartInv /\ WithinRules /\ JobsStand
<1> SUFFICES ASSUME Init PROVE LifeInv /\ ApartInv /\ WithinRules /\ JobsStand
  OBVIOUS
<1>1. LifeInv
  BY SubjectOf DEF Init, LifeInv, RuleLife, TellsStored, SendsLast, AtDevice, Keys
<1>2. ApartInv  BY DEF Init, ApartInv, JobsApart, NewEpisodes, AtDevice, Evaluating
<1>3. WithinRules
  <2> SUFFICES ASSUME NEW s \in Subjects
               PROVE  fixes[s] + Cardinality(About({}, s)) <= Cardinality(RulesOf(s[2]))
    BY DEF WithinRules, About, Init
  <2>1. /\ Cardinality(About({}, s)) \in Nat
        /\ Cardinality(RulesOf(s[2])) \in Nat
        /\ Cardinality(About({}, s)) <= Cardinality(RulesOf(s[2]))
    BY JobsBounded
  <2> QED  BY <2>1 DEF Init
<1>4. JobsStand  BY DEF Init, JobsStand
<1> QED  BY <1>1, <1>2, <1>3, <1>4

\* What the engine's remediations rest on, always.
THEOREM RemediationInvariant == Spec => [](LifeInv /\ JobsInv)
<1> DEFINE Inv == LifeInv /\ ApartInv /\ WithinRules /\ JobsStand
<1>1. Init => Inv  BY InitJobs
<1>2. EngineInv /\ Inv /\ [Next]_vars => Inv'
  BY LifeEngine, LifeOthers, ApartEngine, ApartOthers, WithinKept, StandKept,
     StutterKeepsJobs DEF Next
<1>3. Inv <=> LifeInv /\ JobsInv  BY DEF JobsInv
<1> QED  BY <1>1, <1>2, <1>3, EngineInvariant, PTL DEF Spec

\* A remediation is started at most once while an alert lasts, and only for an
\* alert that still stands or whose rule has been deleted: for any rules, any
\* failures of the evaluation and any restarts of the server.
THEOREM RemediationsOnce == Spec => []RemediationOnce
<1>1. EngineInv /\ LifeInv /\ JobsInv => RemediationOnce
  <2> SUFFICES ASSUME EngineInv, JobsInv PROVE RemediationOnce
    OBVIOUS
  <2>1. ASSUME NEW s \in Subjects
        PROVE  Cardinality({r \in Rules : Key(r) = s[2]}) >= fixes[s]
    <3>1. fixes[s] + Cardinality(About(jobs, s)) <= Cardinality(RulesOf(s[2]))
      BY DEF JobsInv, WithinRules, About
    <3>2. /\ Cardinality(About(jobs, s)) \in Nat
          /\ Cardinality(RulesOf(s[2])) \in Nat
          /\ fixes[s] \in Nat
      BY JobsBounded DEF EngineInv, TypeOK
    <3>3. Cardinality(RulesOf(s[2])) >= fixes[s]  BY <3>1, <3>2
    <3> QED  BY <3>3 DEF RulesOf
  <2> QED  BY <2>1 DEF RemediationOnce, JobsInv, JobsStand
<1> QED  BY <1>1, EngineInvariant, RemediationInvariant, PTL

-----------------------------------------------------------------------------
(* Episodes.                                                               *)

\* No administrator's request and no message of an agent changes what the loop
\* has said or has to say, nor an alert, except that of a rule it deletes.
LEMMA WorldSaysNothing ==
  ASSUME World
  PROVE  /\ UNCHANGED <<pc, pending, queue, sending, jobs, unmailed, owed, hooked,
                        fixes, errors, faults>>
         /\ \/ alert' = alert
            \/ \E r \in Rules : DeleteRule(r)
BY DEF World, Reading, Connect, Disconnect, DeleteDevice, AddRule, UpdateRule,
       ToggleRule, DeleteRule, Move, database

\* What a deletion does to the alerts.
LEMMA AlertsOfDeleted ==
  ASSUME EngineInv, NEW r \in Rules, DeleteRule(r), NEW s \in Subjects
  PROVE  alert'[s] = IF s[2] = r THEN "ok" ELSE alert[s]
BY DEF DeleteRule, AlertsWithout

\* What the loop tells changes in the steps of _apply and when one of them is cut
\* off, and in these only.
LEMMA OthersSayNothing ==
  ASSUME Next, ~RecordIncident, ~Mail(TRUE), ~Mail(FALSE), ~EvaluationFails,
         ~Restart, ~\E r \in Rules : Clear(r) \/ Raise(r)
  PROVE  /\ UNCHANGED <<owed, unmailed, pending, errors>>
         /\ (pc' \notin {"clear", "mail"} /\ pc \notin {"clear", "mail"}) \/ pc' = pc
         /\ faults' = faults \/ faults' = faults + 1
         /\ alert' = alert \/ \E r \in Rules : DeleteRule(r)
<1>1. CASE World  BY <1>1, WorldSaysNothing
<1>2. CASE Fault  BY <1>2 DEF Fault, Deliver, database
<1>3. CASE Engine
  BY <1>3 DEF Engine, Begin, TakeDevice, NothingNew, DeviceDone, ScanDone, Remediate,
     Drain, Deliver, Rest, database, history, bounds
<1> QED  BY <1>1, <1>2, <1>3 DEF Next

\* The two ways a step treats what the alerts have lost: it loses nothing, or it
\* is a failure and loses what was being told of one alert.
NothingLost ==
  /\ Failures' >= Failures
  /\ \A s \in Subjects : /\ LostMails(s)' = LostMails(s)
                         /\ LostRecords(s)' = LostRecords(s)
OneLost ==
  /\ Failures' = Failures + 1
  /\ \E t \in Subjects :
       /\ \A s \in Subjects : s # t => /\ LostMails(s)' = LostMails(s)
                                       /\ LostRecords(s)' = LostRecords(s)
       /\ LostMails(t)' \in {LostMails(t), LostMails(t) + 1}
       /\ LostRecords(t)' \in {LostRecords(t), LostRecords(t) + 1}

\* An evaluation or a server that stops between two steps of _apply.
LEMMA CutOff ==
  ASSUME EngineInv, pc' \notin {"clear", "mail"}, UNCHANGED <<owed, unmailed>>,
         Failures' = Failures + 1
  PROVE  NothingLost \/ OneLost
<1> USE DEF EngineInv, TypeOK, LostMails, LostRecords, Unsaid
<1>1. Failures \in Nat  BY DEF Failures
<1>2. CASE pc \in {"clear", "mail"}
  <2>1. PICK t \in Subjects : t = pending.about  BY <1>2 DEF Telling, Transitions
  <2>2. ASSUME NEW s \in Subjects, s # t
        PROVE  /\ LostMails(s)' = LostMails(s)
               /\ LostRecords(s)' = LostRecords(s)
    <3>1. ~Unsaid(s) /\ ~Unsaid(s)'  BY <2>1, <2>2
    <3> HIDE DEF EngineInv, TypeOK
    <3> QED  BY <2>1, <2>2, <3>1
  <2>3. unmailed[t] \in Nat /\ owed[t] \in Nat  BY <2>1
  <2>4. LostMails(t)' = unmailed[t] /\ LostRecords(t)' = owed[t]
    <3>1. LostMails(t)' = unmailed[t] - 0 /\ LostRecords(t)' = owed[t] - 0
      OBVIOUS
    <3> HIDE DEF EngineInv, TypeOK, LostMails, LostRecords, Unsaid
    <3> QED  BY <2>3, <3>1
  <2>5. LostMails(t) = unmailed[t] \/ LostMails(t) = unmailed[t] - 1
    BY <2>3
  <2>6. LostRecords(t) = owed[t] \/ LostRecords(t) = owed[t] - 1
    BY <2>3
  <2> HIDE DEF EngineInv, TypeOK, LostMails, LostRecords, Unsaid
  <2>7. LostMails(t)' \in {LostMails(t), LostMails(t) + 1}  BY <2>3, <2>4, <2>5
  <2>8. LostRecords(t)' \in {LostRecords(t), LostRecords(t) + 1}  BY <2>3, <2>4, <2>6
  <2> QED  BY <2>1, <2>2, <2>7, <2>8 DEF OneLost
<1>3. CASE pc \notin {"clear", "mail"}
  BY <1>1, <1>3 DEF NothingLost
<1> QED  BY <1>2, <1>3

\* A change of an alert is told of as it is stored.
LEMMA NewChange ==
  ASSUME EngineInv, NEW r \in Rules, Raise(r) \/ Clear(r)
  PROVE  NothingLost
<1> DEFINE t == <<cur, Key(r)>>
<1>1. t \in Subjects /\ Failures' = Failures /\ Failures \in Nat
  <2>1. pc = "rules" /\ UNCHANGED bounds  BY DEF Raise, Clear
  <2>2. Failures' = Failures /\ Failures \in Nat
    BY <2>1 DEF bounds, Failures, EngineInv, TypeOK
  <2>3. cur \in Devices
    BY <2>1, NamesAssumption DEF EngineInv, TypeOK, Evaluating
  <2> QED  BY <2>2, <2>3, KeyOfRule, SubjectOf
<1>2. /\ pc = "rules" /\ pending'.about = t /\ pending'.by = r
      /\ unmailed' = MailDue(t, r)
  <2>1. CASE Raise(r)  BY <2>1 DEF Raise
  <2>2. CASE Clear(r)  BY <2>2 DEF Clear
  <2> QED  BY <2>1, <2>2
<1>3. \/ /\ owed' = [owed EXCEPT ![t] = @ + 1] /\ pc' = "clear"
      \/ owed' = owed /\ pc' = IF r \in Notify THEN "mail" ELSE "rules"
  BY DEF Raise, Clear, AfterRaise
<1>4. unmailed \in [Subjects -> Nat] /\ owed \in [Subjects -> Nat]
  BY DEF EngineInv, TypeOK
<1> HIDE DEF t
<1>5. ASSUME NEW s \in Subjects PROVE LostRecords(s)' = LostRecords(s)
  <2>1. LostRecords(s) = owed[s] /\ owed[s] \in Nat  BY <1>2, <1>4 DEF LostRecords
  <2>2. LostRecords(s)' = owed'[s] - (IF pc' = "clear" /\ t = s THEN 1 ELSE 0)
    BY <1>2 DEF LostRecords
  <2> QED  BY <1>1, <1>3, <1>4, <2>1, <2>2
<1>6. ASSUME NEW s \in Subjects PROVE LostMails(s)' = LostMails(s)
  <2>1. LostMails(s) = unmailed[s] /\ unmailed[s] \in Nat
    BY <1>2, <1>4 DEF LostMails, Unsaid
  <2>2. LostMails(s)' = unmailed'[s] - (IF t = s /\ r \in Notify THEN 1 ELSE 0)
    BY <1>2, <1>3 DEF LostMails, Unsaid
  <2>3. unmailed'[s] = unmailed[s] + (IF t = s /\ r \in Notify THEN 1 ELSE 0)
    BY <1>1, <1>2, <1>4 DEF MailDue
  <2> QED  BY <2>1, <2>2, <2>3
<1> QED  BY <1>1, <1>5, <1>6 DEF NothingLost

LEMMA LossesStep ==
  ASSUME EngineInv, EngineInv', Next
  PROVE  NothingLost \/ OneLost
<1>1. CASE RecordIncident
  <2> USE DEF EngineInv, TypeOK, Telling, Transitions
  <2>1. /\ pc = "clear" /\ pc' = IF pending.by \in Notify THEN "mail" ELSE "rules"
        /\ UNCHANGED <<unmailed, pending>> /\ Failures' = Failures
        /\ owed' = [owed EXCEPT ![pending.about] = @ - 1]
        /\ pending.about \in Subjects /\ owed[pending.about] > 0
    BY <1>1 DEF RecordIncident, history, bounds, Failures
  <2>2. Failures \in Nat /\ owed \in [Subjects -> Nat]  BY DEF Failures
  <2> HIDE DEF EngineInv, TypeOK, Telling, Transitions
  <2> QED  BY <2>1, <2>2 DEF NothingLost, LostMails, LostRecords, Unsaid
<1>2. CASE Mail(TRUE)
  <2> USE DEF EngineInv, TypeOK, Telling, Transitions
  <2>1. /\ pc = "mail" /\ pc' = "rules" /\ pending.by \in Notify
        /\ UNCHANGED <<owed, pending>> /\ Failures' = Failures
        /\ unmailed' = [unmailed EXCEPT ![pending.about] = @ - 1]
        /\ pending.about \in Subjects
    BY <1>2 DEF Mail, Failures
  <2>2. Failures \in Nat /\ unmailed \in [Subjects -> Nat]  BY DEF Failures
  <2> HIDE DEF EngineInv, TypeOK, Telling, Transitions
  <2> QED  BY <2>1, <2>2 DEF NothingLost, LostMails, LostRecords, Unsaid
<1>3. CASE Mail(FALSE)
  BY <1>3, CutOff DEF Mail, Failures, EngineInv, TypeOK
<1>4. CASE EvaluationFails
  <2>1. /\ pc' \notin {"clear", "mail"} /\ UNCHANGED <<owed, unmailed, faults>>
        /\ errors' = errors + 1
    BY <1>4 DEF EvaluationFails, AfterFailure, history
  <2>2. Failures' = Failures + 1  BY <2>1 DEF Failures, EngineInv, TypeOK
  <2> QED  BY <2>1, <2>2, CutOff
<1>5. CASE Restart
  BY <1>5, CutOff DEF Restart, Failures, EngineInv, TypeOK
<1>6. CASE \E r \in Rules : Clear(r) \/ Raise(r)
  BY <1>6, NewChange
<1>7. CASE ~(\/ RecordIncident \/ Mail(TRUE) \/ Mail(FALSE) \/ EvaluationFails
             \/ Restart \/ \E r \in Rules : Clear(r) \/ Raise(r))
  <2>1. /\ UNCHANGED <<owed, unmailed, pending, errors>>
        /\ (pc' \notin {"clear", "mail"} /\ pc \notin {"clear", "mail"}) \/ pc' = pc
        /\ faults' = faults \/ faults' = faults + 1
    BY <1>7, OthersSayNothing
  <2>2. Failures' >= Failures
    <3>1. errors \in Nat /\ faults \in Nat
      BY DEF EngineInv, TypeOK
    <3> QED  BY <2>1, <3>1 DEF Failures
  <2> QED  BY <2>1, <2>2 DEF NothingLost, LostMails, LostRecords, Unsaid
<1> QED  BY <1>1, <1>2, <1>3, <1>4, <1>5, <1>6, <1>7

LEMMA SumOfNaturals == ASSUME NEW x \in Nat, NEW y \in Nat PROVE x + y \in Nat
OBVIOUS

\* What the steps lose stays within the failures.
LEMMA LossesKept ==
  ASSUME EngineInv, EngineInv', LifeInv', MailPerChange, IncidentPerEpisode, Next
  PROVE  MailPerChange' /\ IncidentPerEpisode'
<1>1. /\ \A s \in Subjects : LostMails(s) \in Int /\ LostRecords(s) \in Int
      /\ \A s \in Subjects : LostMails(s)' \in Int /\ LostRecords(s)' \in Int
      /\ Failures \in Nat /\ Failures' \in Nat
  <2>1. /\ unmailed \in [Subjects -> Nat] /\ owed \in [Subjects -> Nat]
        /\ errors \in Nat /\ faults \in Nat
    BY DEF EngineInv, TypeOK
  <2>2. /\ unmailed' \in [Subjects -> Nat] /\ owed' \in [Subjects -> Nat]
        /\ errors' \in Nat /\ faults' \in Nat
    BY DEF EngineInv, TypeOK
  <2>3. ASSUME NEW s \in Subjects
        PROVE  LostMails(s) \in Int /\ LostRecords(s) \in Int
    <3>1. unmailed[s] \in Nat /\ owed[s] \in Nat  BY <2>1, <2>3
    <3> QED  BY <3>1 DEF LostMails, LostRecords
  <2>4. ASSUME NEW s \in Subjects
        PROVE  LostMails(s)' \in Int /\ LostRecords(s)' \in Int
    <3>1. unmailed'[s] \in Nat /\ owed'[s] \in Nat  BY <2>2, <2>4
    <3> QED  BY <3>1 DEF LostMails, LostRecords
  <2>5. Failures \in Nat /\ Failures' \in Nat
    <3>1. errors \in Nat /\ faults \in Nat  BY <2>1
    <3>2. errors' \in Nat /\ faults' \in Nat  BY <2>2
    <3>3. Failures \in Nat  BY <3>1 DEF Failures
    <3>4. Failures' \in Nat  BY <3>2, SumOfNaturals DEF Failures
    <3> QED  BY <3>3, <3>4
  <2> QED  BY <2>3, <2>4, <2>5
<1>2. \A s \in Subjects : Unsaid(s)' => pending'.says = alert'[s]
  BY DEF LifeInv, TellsStored, Unsaid
<1>3. /\ \A s \in Subjects : 0 <= LostMails(s) /\ LostMails(s) <= Failures
      /\ \A s, t \in Subjects : s # t => LostMails(s) + LostMails(t) <= Failures
      /\ \A s \in Subjects : 0 <= LostRecords(s) /\ LostRecords(s) <= Failures
      /\ \A s, t \in Subjects : s # t => LostRecords(s) + LostRecords(t) <= Failures
  BY DEF MailPerChange, IncidentPerEpisode
<1>4. NothingLost \/ OneLost  BY LossesStep
<1>5. /\ \A s \in Subjects : 0 <= LostMails(s)' /\ LostMails(s)' <= Failures'
      /\ \A s, t \in Subjects : s # t => LostMails(s)' + LostMails(t)' <= Failures'
  BY <1>1, <1>3, <1>4 DEF NothingLost, OneLost
<1>6. /\ \A s \in Subjects : 0 <= LostRecords(s)' /\ LostRecords(s)' <= Failures'
      /\ \A s, t \in Subjects : s # t => LostRecords(s)' + LostRecords(t)' <= Failures'
  BY <1>1, <1>3, <1>4 DEF NothingLost, OneLost
<1> QED  BY <1>2, <1>5, <1>6 DEF MailPerChange, IncidentPerEpisode

\* One more event at the end: what it is about has changed to what it says.
LEMMA OneMoreWord ==
  ASSUME NEW w \in Seq(Event), NEW e \in Event, NEW s, NEW first, NEW now,
         Alternates(first, w, s, now), e.about = s => e.says # now
  PROVE  Alternates(first, Append(w, e), s, IF e.about = s THEN e.says ELSE now)
<1> DEFINE v == Append(w, e)
           n == Len(w)
           last == IF e.about = s THEN e.says ELSE now
<1>1. n \in Nat /\ Len(v) = n + 1 /\ v[n + 1] = e /\ \A i \in 1 .. n : v[i] = w[i]
  OBVIOUS
<1>2. \A i \in 0 .. n : /\ Speaks(v, s, i) <=> Speaks(w, s, i)
                        /\ Word(first, v, i) = Word(first, w, i)
  BY <1>1 DEF Speaks, Word
<1>3. Speaks(v, s, n + 1) <=> e.about = s  BY <1>1 DEF Speaks
<1>4. Word(first, v, n + 1) = e.says  BY <1>1 DEF Word
<1> HIDE DEF v, n
<1> SUFFICES ASSUME NEW i \in 0 .. n + 1, Speaks(v, s, i)
             PROVE  /\ \A j \in i + 1 .. n + 1 :
                         Speaks(v, s, j) /\ Silent(v, s, i + 1, j - 1)
                           => Word(first, v, j) # Word(first, v, i)
                    /\ Silent(v, s, i + 1, n + 1) => Word(first, v, i) = last
  BY <1>1 DEF Alternates, v
<1>5. CASE i = n + 1  BY <1>1, <1>3, <1>4, <1>5
<1>6. CASE i \in 0 .. n
  <2>1. Speaks(w, s, i) /\ Word(first, v, i) = Word(first, w, i)  BY <1>2, <1>6
  <2>2. ASSUME NEW to \in 0 .. n
        PROVE  Silent(v, s, i + 1, to) <=> Silent(w, s, i + 1, to)
    BY <1>1, <1>2, <1>6 DEF Silent
  <2>3. ASSUME NEW j \in i + 1 .. n, Speaks(v, s, j), Silent(v, s, i + 1, j - 1)
        PROVE  Word(first, v, j) # Word(first, v, i)
    <3>1. Speaks(w, s, j) /\ Word(first, v, j) = Word(first, w, j)
      BY <1>1, <1>2, <1>6, <2>3
    <3>2. Silent(w, s, i + 1, j - 1)  BY <1>1, <1>6, <2>2, <2>3
    <3> QED  BY <1>6, <2>1, <3>1, <3>2 DEF Alternates, n
  <2>4. Silent(w, s, i + 1, n) => Word(first, w, i) = now
    BY <1>6, <2>1 DEF Alternates, n
  <2>5. ASSUME Speaks(v, s, n + 1), Silent(v, s, i + 1, n)
        PROVE  Word(first, v, n + 1) # Word(first, v, i)
    BY <1>1, <1>3, <1>4, <2>1, <2>2, <2>4, <2>5
  <2>6. ASSUME Silent(v, s, i + 1, n + 1) PROVE Word(first, v, i) = last
    <3>1. ~Speaks(v, s, n + 1)  BY <1>1, <1>6, <2>6 DEF Silent
    <3>2. Silent(v, s, i + 1, n)  BY <1>1, <1>6, <2>6 DEF Silent
    <3> QED  BY <1>1, <1>3, <2>1, <2>2, <2>4, <3>1, <3>2
  <2> QED  BY <1>1, <1>6, <2>3, <2>5, <2>6
<1> QED  BY <1>1, <1>5, <1>6

\* The first event that waits is delivered.
LEMMA FirstWord ==
  ASSUME NEW w \in Seq(Event), w # <<>>, NEW s, NEW first, NEW now,
         Alternates(first, w, s, now)
  PROVE  Alternates(IF Head(w).about = s THEN Head(w).says ELSE first, Tail(w), s, now)
<1> DEFINE v == Tail(w)
           n == Len(v)
           said == IF Head(w).about = s THEN Head(w).says ELSE first
           At(i) == IF i = 0 /\ Head(w).about # s THEN 0 ELSE i + 1
<1>1. /\ n \in Nat /\ Len(w) = n + 1 /\ w[1] = Head(w)
      /\ \A i \in 1 .. n : v[i] = w[i + 1]
  OBVIOUS
<1>2. \A i \in 0 .. n : /\ Speaks(v, s, i) => Speaks(w, s, At(i))
                        /\ i > 0 => (Speaks(v, s, i) <=> Speaks(w, s, i + 1))
                        /\ Word(said, v, i) = Word(first, w, At(i))
                        /\ At(i) \in 0 .. n + 1
  BY <1>1 DEF Speaks, Word
<1>3. Speaks(w, s, 1) <=> Head(w).about = s  BY <1>1 DEF Speaks
<1> HIDE DEF v, n, said
<1>4. ASSUME NEW i \in 0 .. n, NEW to \in 0 .. n, Silent(v, s, i + 1, to)
      PROVE  Silent(w, s, At(i) + 1, to + 1)
  <2> SUFFICES ASSUME NEW k \in At(i) + 1 .. to + 1 PROVE ~Speaks(w, s, k)
    BY DEF Silent
  <2>1. CASE k = 1  BY <1>1, <1>3, <2>1
  <2>2. CASE k # 1
    <3>1. k - 1 \in i + 1 .. to /\ k - 1 \in 1 .. n /\ (k - 1) + 1 = k
      BY <1>1, <2>2
    <3> QED  BY <1>2, <1>4, <3>1 DEF Silent
  <2> QED  BY <2>1, <2>2
<1> SUFFICES ASSUME NEW i \in 0 .. n, Speaks(v, s, i)
             PROVE  /\ \A j \in i + 1 .. n :
                         Speaks(v, s, j) /\ Silent(v, s, i + 1, j - 1)
                           => Word(said, v, j) # Word(said, v, i)
                    /\ Silent(v, s, i + 1, n) => Word(said, v, i) = now
  BY <1>1 DEF Alternates, v, n, said
<1>5. Speaks(w, s, At(i)) /\ At(i) \in 0 .. n + 1  BY <1>2
<1>6. Word(said, v, i) = Word(first, w, At(i))  BY <1>2
<1>7. ASSUME NEW j \in i + 1 .. n, Speaks(v, s, j), Silent(v, s, i + 1, j - 1)
      PROVE  Word(said, v, j) # Word(said, v, i)
  <2>1. j \in 1 .. n /\ j - 1 \in 0 .. n /\ (j - 1) + 1 = (j + 1) - 1
    BY <1>1
  <2>2. Speaks(w, s, j + 1) /\ Word(said, v, j) = Word(first, w, j + 1)
    BY <1>1, <1>2, <1>7, <2>1
  <2>3. Silent(w, s, At(i) + 1, (j + 1) - 1)  BY <1>4, <1>7, <2>1
  <2>4. j + 1 \in At(i) + 1 .. n + 1  BY <1>1, <2>1
  <2> HIDE DEF At
  <2> QED  BY <1>1, <1>5, <1>6, <2>2, <2>3, <2>4 DEF Alternates
<1>8. ASSUME Silent(v, s, i + 1, n) PROVE Word(said, v, i) = now
  <2>1. Silent(w, s, At(i) + 1, n + 1)  BY <1>1, <1>4, <1>8
  <2> HIDE DEF At
  <2> QED  BY <1>1, <1>5, <1>6, <2>1 DEF Alternates
<1> QED  BY <1>7, <1>8

\* The alerts that webhooks are told of.  An alert never comes to be among them
\* later: ids are never used again.
Spoken(s) == s[2] \in born => rule[s[2]] # None

LEMMA SpokenBefore ==
  ASSUME EngineInv, LifeInv, Next, NEW s \in Subjects, Spoken(s)'
  PROVE  Spoken(s) /\ \A r \in Rules : DeleteRule(r) => s[2] # r
<1>1. ASSUME NEW r \in Rules, DeleteRule(r) PROVE s[2] # r
  BY <1>1 DEF DeleteRule, Spoken, Move, LifeInv, RuleLife, EngineInv, TypeOK
<1>2. ASSUME s[2] \in born, rule[s[2]] = None PROVE FALSE
  <2>1. born' = born \/ \E r \in Rules, on \in SUBSET Devices : AddRule(r, on)
    BY DEF Next, Engine, Fault, World, Begin, TakeDevice, NothingNew, Raise, Clear,
       RecordIncident, Mail, DeviceDone, ScanDone, Remediate, Drain, Deliver, Rest,
       EvaluationFails, Restart, Reading, Connect, Disconnect, DeleteDevice,
       UpdateRule, ToggleRule, DeleteRule, history
  <2>2. s[2] \in born'  BY <1>2, <2>1 DEF AddRule
  <2>3. rule' # rule  BY <1>2, <2>2 DEF Spoken
  <2>4. PICK r \in Rules : \/ \E on \in SUBSET Devices : \/ AddRule(r, on)
                                                         \/ UpdateRule(r, on)
                           \/ ToggleRule(r) \/ DeleteRule(r)
    BY <2>3 DEF Next, Engine, Fault, World, Begin, TakeDevice, NothingNew, Raise,
       Clear, RecordIncident, Mail, DeviceDone, ScanDone, Remediate, Drain, Deliver,
       Rest, EvaluationFails, Restart, Reading, Connect, Disconnect, DeleteDevice,
       database
  <2>5. s[2] = r
    <3>1. rule'[s[2]] # rule[s[2]] /\ s[2] \in Rules
      BY <1>2, <2>2 DEF Spoken, EngineInv, TypeOK
    <3> QED
      BY <2>4, <3>1 DEF AddRule, UpdateRule, ToggleRule, DeleteRule, EngineInv, TypeOK
  <2>6. rule'[s[2]] # None  BY <2>2 DEF Spoken
  <2> QED
    BY <1>2, <2>4, <2>5, <2>6, <1>1 DEF AddRule, UpdateRule, ToggleRule
<1> QED  BY <1>1, <1>2 DEF Spoken

\* The events that wait, when one is queued and when one is delivered.
LEMMA WaitingEvents ==
  ASSUME sending \in Seq(Event), queue \in Seq(Event)
  PROVE  /\ sending \o queue \in Seq(Event)
         /\ \A e \in Event : sending \o Append(queue, e) = Append(sending \o queue, e)
         /\ sending # <<>> =>
              /\ sending \o queue # <<>>
              /\ Head(sending \o queue) = Head(sending)
              /\ Tail(sending \o queue) = Tail(sending) \o queue
         /\ sending = <<>> => sending \o queue = queue \o <<>>
OBVIOUS

\* A step of _apply that stores an alert queues the event about it.
LEMMA StoredAndQueued ==
  ASSUME EngineInv, NEW t \in Subjects, NEW says \in {"raised", "ok"},
         alert[t] # says, alert' = [alert EXCEPT ![t] = says],
         queue' = Queued(t, says), UNCHANGED <<sending, hooked>>,
         NEW s \in Subjects, Alternates(hooked[s], sending \o queue, s, alert[s])
  PROVE  Alternates(hooked'[s], (sending \o queue)', s, alert'[s])
<1> DEFINE e == [about |-> t, says |-> says]
<1>1. e \in Event /\ e.about = t /\ e.says = says  BY DEF Event
<1>2. /\ sending \in Seq(Event) /\ queue \in Seq(Event)
      /\ alert \in [Subjects -> {"ok", "raised"}]
  BY DEF EngineInv, TypeOK
<1>3. queue' = Append(queue, e)  BY DEF Queued
<1> HIDE DEF e
<1>4. (sending \o queue)' = Append(sending \o queue, e)
  BY <1>1, <1>2, <1>3, WaitingEvents
<1>5. alert'[s] = IF e.about = s THEN e.says ELSE alert[s]  BY <1>1, <1>2
<1>6. e.about = s => e.says # alert[s]  BY <1>1
<1>7. sending \o queue \in Seq(Event)  BY <1>2, WaitingEvents
<1>8. Alternates(hooked[s], Append(sending \o queue, e), s,
                 IF e.about = s THEN e.says ELSE alert[s])
  BY <1>1, <1>6, <1>7, OneMoreWord
<1> QED  BY <1>4, <1>5, <1>8

LEMMA HooksKept ==
  ASSUME EngineInv, LifeInv, HooksFollowAlerts, Next
  PROVE  HooksFollowAlerts'
<1> SUFFICES ASSUME NEW s \in Subjects, Spoken(s)'
             PROVE  Alternates(hooked'[s], (sending \o queue)', s, alert'[s])
  BY DEF HooksFollowAlerts, Spoken
<1>1. sending \in Seq(Event) /\ queue \in Seq(Event) /\ faults \in Nat
      /\ hooked \in [Subjects -> {"ok", "raised"}]
      /\ alert \in [Subjects -> {"ok", "raised"}]
  BY DEF EngineInv, TypeOK
<1>2. Spoken(s) /\ \A r \in Rules : DeleteRule(r) => s[2] # r  BY SpokenBefore
<1>4. Alternates(hooked[s], sending \o queue, s, alert[s])
  BY <1>2 DEF HooksFollowAlerts, Spoken
<1>5. CASE World
  <2>1. alert'[s] = alert[s]  BY <1>2, <1>5, WorldSaysNothing, AlertsOfDeleted
  <2> QED  BY <1>4, <1>5, <2>1, WorldSaysNothing
<1>6. CASE Deliver(TRUE) \/ Deliver(FALSE)
  <2> DEFINE e == Head(sending)
  <2>1. sending # <<>> /\ sending' = Tail(sending) /\ UNCHANGED <<queue, alert>>
        /\ hooked' = [hooked EXCEPT ![e.about] = e.says]
    BY <1>6 DEF Deliver, database
  <2>2. e \in Event  BY <1>1, <2>1
  <2> DEFINE w == sending \o queue
  <2>3. w \in Seq(Event) /\ w # <<>> /\ Head(w) = e /\ (sending \o queue)' = Tail(w)
    BY <1>1, <2>1, WaitingEvents
  <2>4. hooked'[s] = IF Head(w).about = s THEN Head(w).says ELSE hooked[s]
    BY <1>1, <2>1, <2>2, <2>3 DEF Event
  <2>5. Alternates(hooked[s], w, s, alert[s])  BY <1>4
  <2> HIDE DEF w, e
  <2>6. Alternates(IF Head(w).about = s THEN Head(w).says ELSE hooked[s],
                   Tail(w), s, alert[s])
    BY <2>3, <2>5, FirstWord
  <2> QED  BY <2>1, <2>3, <2>4, <2>6
<1>8. CASE Restart
  <2>1. /\ alert' = alert /\ hooked' = alert
        /\ sending' = <<>> /\ queue' = <<>>
    BY <1>8 DEF Restart, database
  <2>2. Len((sending \o queue)') = 0  BY <2>1
  <2> QED  BY <2>1, <2>2 DEF Alternates, Word
<1>9. CASE EvaluationFails \/ Mail(FALSE)
  BY <1>4, <1>9 DEF EvaluationFails, Mail, database, history
<1>7. CASE Engine
  <2>1. ASSUME NEW r \in Rules, Raise(r)
        PROVE  Alternates(hooked'[s], (sending \o queue)', s, alert'[s])
    <3>1. <<cur, Key(r)>> \in Subjects
      BY <2>1, KeyOfRule, SubjectOf DEF Raise, EngineInv, TypeOK, Evaluating
    <3>2. alert[<<cur, Key(r)>>] # "raised"  BY <2>1 DEF Raise, Transition
    <3> QED  BY <1>4, <2>1, <3>1, <3>2, StoredAndQueued DEF Raise
  <2>2. ASSUME NEW r \in Rules, Clear(r)
        PROVE  Alternates(hooked'[s], (sending \o queue)', s, alert'[s])
    <3>1. <<cur, Key(r)>> \in Subjects
      BY <2>2, KeyOfRule, SubjectOf DEF Clear, EngineInv, TypeOK, Evaluating
    <3>2. alert[<<cur, Key(r)>>] # "ok"  BY <2>2 DEF Clear, Transition
    <3> QED  BY <1>4, <2>2, <3>1, <3>2, StoredAndQueued DEF Clear
  <2>3. CASE Drain
    <3>1. sending = <<>>  BY <2>3 DEF Drain, LifeInv, SendsLast
    <3>2. (sending \o queue)' = sending \o queue
      BY <1>1, <2>3, <3>1, WaitingEvents DEF Drain
    <3> QED  BY <1>4, <2>3, <3>2 DEF Drain, database, history
  <2>5. ASSUME ~Drain, ~Deliver(TRUE), ~\E r \in Rules : Clear(r) \/ Raise(r)
        PROVE  UNCHANGED <<sending, queue, hooked, alert>>
    BY <1>7, <2>5 DEF Engine, Begin, TakeDevice, NothingNew, RecordIncident, Mail,
       DeviceDone, ScanDone, Remediate, Rest, database, history
  <2> QED  BY <1>4, <1>6, <2>1, <2>2, <2>3, <2>5
<1> QED  BY <1>5, <1>6, <1>7, <1>8, <1>9 DEF Next, Fault

LEMMA EpisodesAtFirst == Init => EpisodesAreTold
<1> SUFFICES ASSUME Init PROVE EpisodesAreTold
  OBVIOUS
<1>1. HooksFollowAlerts
  <2> SUFFICES ASSUME NEW s \in Subjects
               PROVE  Alternates(hooked[s], sending \o queue, s, alert[s])
    BY DEF HooksFollowAlerts
  <2>1. Len(sending \o queue) = 0  BY DEF Init
  <2>2. hooked[s] = alert[s]  BY DEF Init
  <2> QED  BY <2>1, <2>2 DEF Alternates, Word
<1>2. MailPerChange
  BY DEF Init, MailPerChange, LostMails, Unsaid, Failures
<1>3. IncidentPerEpisode
  BY DEF Init, IncidentPerEpisode, LostRecords, Failures
<1> QED  BY <1>1, <1>2, <1>3 DEF EpisodesAreTold

LEMMA StutterKeepsEpisodes ==
  ASSUME EpisodesAreTold, UNCHANGED vars
  PROVE  EpisodesAreTold'
BY DEF EpisodesAreTold, HooksFollowAlerts, MailPerChange, IncidentPerEpisode,
       LostMails, LostRecords, Failures, Unsaid, vars, database, history, bounds

\* Webhooks, mails and the history tell of every change of an alert once and in
\* order, whatever the number of rules and devices and however the steps of the
\* loop and the requests of the administrators meet; a failed evaluation, a stop
\* or a refused mail between storing the alert and telling of it costs one mail
\* and one incident, of one alert, and no more.
THEOREM EpisodesTold == Spec => []EpisodesAreTold
<1>1. Init => EpisodesAreTold  BY EpisodesAtFirst
<1>2. ASSUME EngineInv, EngineInv', LifeInv, LifeInv', EpisodesAreTold, [Next]_vars
      PROVE  EpisodesAreTold'
  <2>1. CASE Next  BY <1>2, <2>1, HooksKept, LossesKept DEF EpisodesAreTold
  <2>2. CASE UNCHANGED vars  BY <1>2, <2>2, StutterKeepsEpisodes
  <2> QED  BY <1>2, <2>1, <2>2
<1> QED  BY <1>1, <1>2, EngineInvariant, RemediationInvariant, PTL DEF Spec
=============================================================================
