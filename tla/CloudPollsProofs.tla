--------------------------- MODULE CloudPollsProofs ---------------------------
(***************************************************************************)
(* What holds of the readings of the cloud services for any number of      *)
(* accounts, items and readings under way: the alerts are those of the     *)
(* reading on show.                                                        *)
(*                                                                         *)
(* The invariant says it of each item at every moment: the alert matches,  *)
(* or the one evaluation under way is of the stored reading and still has  *)
(* that item to judge.                                                     *)
(*                                                                         *)
(* Then, what a reading contains: for any account, and whatever requests   *)
(* fail, it says nothing that is not so and names what it leaves out.      *)
(***************************************************************************)
EXTENDS CloudReadings, FiniteSetTheorems, WellFoundedInduction, TLAPS

\* A reading is of an account that has been made, and judges its items alone.
PollsSound ==
  \A p \in Polls : poll[p] # None =>
    account[poll[p].acct] # "new" /\ poll[p].left \subseteq ItemsOf(poll[p].acct)

\* An account that is not made yet has no reading.
NewIsEmpty == \A a \in Accounts : account[a] = "new" => stored[a] = None

\* One reading is evaluated at a time.
OneJudges ==
  \A p, q \in Polls :
    Reading(p, "evaluating") /\ Reading(q, "evaluating") => p = q

\* While nothing fails a reading that has come back has read something, and the
\* one that is evaluated is on show.
JudgesStored ==
  errors = 0 => \A p \in Polls :
    /\ Reading(p, "read") => poll[p].snap # None
    /\ Reading(p, "evaluating") =>
         /\ poll[p].snap # None
         /\ account[poll[p].acct] # "deleted" => stored[poll[p].acct] = poll[p].snap

\* The alert about i is what a reading says.
Matches(i, snap) ==
  /\ snap[i] = "bad" => alert[i] = "raised"
  /\ snap[i] = "fine" => alert[i] = "ok"
  /\ snap[i] = "gone" /\ service = "m365" => alert[i] = "ok"

\* Some evaluation has yet to judge i.
IsAwaited(i) ==
  \E p \in Polls : Reading(p, "evaluating") /\ i \in poll[p].left

\* The alert about i is the stored reading's, or will be.
MatchedOrAwaited ==
  errors = 0 => \A i \in Items :
    account[Owner[i]] \in {"on", "off"} /\ stored[Owner[i]] # None =>
      Matches(i, stored[Owner[i]]) \/ IsAwaited(i)

\* The inductive invariant.
ReadingsInv ==
  /\ TypeOK /\ PollsSound /\ NewIsEmpty /\ OneJudges
  /\ JudgesStored /\ MatchedOrAwaited

-----------------------------------------------------------------------------
(* Readings.                                                               *)

\* A reading as it is started.
Fresh(a) == [acct |-> a, step |-> "reading", snap |-> None, left |-> {}]

\* A reading that is started is one, and nothing is awaited of it.
LEMMA FreshIsPoll ==
  ASSUME NEW a \in Accounts
  PROVE  /\ Fresh(a) \in Poll /\ Fresh(a) # None
         /\ Fresh(a).acct = a /\ Fresh(a).step = "reading" /\ Fresh(a).left = {}
<1>1. Fresh(a) \in Poll
  BY DEF Fresh, Poll
<1> QED  BY <1>1, NoneIsNothing DEF Fresh

\* What stays true when nothing but the readings that are not evaluated, and
\* the accounts that are there, change.
LEMMA ReadingsKept ==
  ASSUME ReadingsInv, TypeOK', NEW p \in Polls,
         errors' = errors, service' = service, stored' = stored, alert' = alert,
         \A a \in Accounts :
           \/ account'[a] = account[a]
           \/ account'[a] \in {"on", "off"} /\ account[a] \in {"on", "off", "new"},
         \A q \in Polls : q # p => poll'[q] = poll[q],
         ~Reading(p, "evaluating"),
         poll'[p] # None =>
           /\ poll'[p].step \in {"reading", "read"}
           /\ account'[poll'[p].acct] # "new"
           /\ poll'[p].left \subseteq ItemsOf(poll'[p].acct)
           /\ errors = 0 /\ poll'[p].step = "read" => poll'[p].snap # None
  PROVE  ReadingsInv'
<1>1. TypeOK /\ PollsSound /\ NewIsEmpty /\ OneJudges /\ JudgesStored /\ MatchedOrAwaited
  BY DEF ReadingsInv
<1>2. \A q \in Polls : Reading(q, "evaluating")' <=> Reading(q, "evaluating")
  BY DEF Reading
<1>3. \A q \in Polls : Reading(q, "evaluating") => q # p /\ poll'[q] = poll[q]
  OBVIOUS
<1>4. \A q \in Polls : poll[q] # None => poll[q].acct \in Accounts
  BY <1>1 DEF TypeOK, Poll
<1>5. PollsSound'
  BY <1>1, <1>4 DEF PollsSound, ItemsOf, TypeOK
<1>6. NewIsEmpty'
  BY <1>1 DEF NewIsEmpty
<1>7. OneJudges'
  BY <1>1, <1>2 DEF OneJudges
<1>8. JudgesStored'
  <2> SUFFICES ASSUME errors' = 0, NEW q \in Polls
               PROVE  /\ Reading(q, "read")' => poll'[q].snap # None
                      /\ Reading(q, "evaluating")' =>
                           /\ poll'[q].snap # None
                           /\ account'[poll'[q].acct] # "deleted" =>
                                stored'[poll'[q].acct] = poll'[q].snap
    BY DEF JudgesStored
  <2>1. CASE q = p
    BY <2>1, <1>2 DEF Reading
  <2>2. CASE q # p
    BY <2>2, <1>1, <1>4 DEF Reading, JudgesStored
  <2> QED  BY <2>1, <2>2
<1>9. MatchedOrAwaited'
  <2> SUFFICES ASSUME errors' = 0, NEW i \in Items,
                      account'[Owner[i]] \in {"on", "off"}, stored'[Owner[i]] # None
               PROVE  Matches(i, stored[Owner[i]])' \/ IsAwaited(i)'
    BY DEF MatchedOrAwaited
  <2>1. Owner[i] \in Accounts
    BY OwnerAssumption
  <2>2. account[Owner[i]] \in {"on", "off"} /\ stored[Owner[i]] # None
    BY <2>1, <1>1 DEF NewIsEmpty
  <2>3. Matches(i, stored[Owner[i]]) \/ IsAwaited(i)
    BY <2>2, <1>1 DEF MatchedOrAwaited
  <2>4. Matches(i, stored[Owner[i]]) => Matches(i, stored[Owner[i]])'
    BY DEF Matches
  <2>5. IsAwaited(i) => IsAwaited(i)'
    BY <1>2, <1>3 DEF IsAwaited
  <2> QED  BY <2>3, <2>4, <2>5
<1> QED  BY <1>5, <1>6, <1>7, <1>8, <1>9 DEF ReadingsInv

-----------------------------------------------------------------------------
(* Types.                                                                  *)

\* A reading that is written to is one.
LEMMA PollKept ==
  ASSUME TypeOK, NEW p \in Polls, poll[p] # None,
         NEW step \in {"reading", "read", "evaluating"},
         NEW snap \in Snapshots \cup {None}, NEW left \in SUBSET Items
  PROVE  /\ [poll[p] EXCEPT !.step = step, !.snap = snap, !.left = left] \in Poll
         /\ [poll[p] EXCEPT !.step = step, !.snap = snap] \in Poll
         /\ [poll[p] EXCEPT !.step = step, !.left = left] \in Poll
         /\ [poll[p] EXCEPT !.left = left] \in Poll
BY DEF TypeOK, Poll

\* Every step of a reading keeps the invariant: reading the service ...
LEMMA CollectStep ==
  ASSUME ReadingsInv, NEW p \in Polls, NEW failed \in BOOLEAN, NEW missing,
         Collect(p, failed, missing), UNCHANGED service
  PROVE  ReadingsInv'
<1> USE BoundsAssumption
<1>1. TypeOK /\ PollsSound /\ poll[p] # None /\ poll[p].step = "reading" /\ poll[p] \in Poll
  BY DEF ReadingsInv, Collect, Reading, TypeOK
<1> DEFINE new == [i \in Items |-> IF \/ Owner[i] # poll[p].acct
                                      \/ Part[i] \in missing
                                     THEN "gone" ELSE cloud[i]]
<1> DEFINE snap == IF failed THEN None ELSE new
<1>2. new \in Snapshots /\ new # None
  <2>1. new \in Snapshots
    BY <1>1 DEF TypeOK, Snapshots, State
  <2> QED  BY <2>1, NoneIsNothing
<1>3. poll' = [poll EXCEPT ![p].step = "read", ![p].snap = snap]
  BY DEF Collect
<1> HIDE DEF new
<1>4. [poll[p] EXCEPT !.step = "read", !.snap = snap] \in Poll
  BY <1>1, <1>2 DEF Poll
<1>5. /\ poll' = [poll EXCEPT ![p] = [poll[p] EXCEPT !.step = "read", !.snap = snap]]
      /\ poll'[p].step = "read" /\ poll'[p].snap = snap
      /\ poll'[p].acct = poll[p].acct /\ poll'[p].left = poll[p].left
      /\ \A q \in Polls : q # p => poll'[q] = poll[q]
  BY <1>1, <1>3 DEF TypeOK, Poll
<1>6. errors' \in 0 .. MaxErrors /\ (errors' = errors \/ errors' > 0)
      /\ (errors' = 0 => ~failed)
  BY <1>1 DEF Collect, TypeOK
<1>7. TypeOK'
  BY <1>1, <1>4, <1>5, <1>6, ZenonT(60) DEF TypeOK, Collect, database
<1>8. CASE errors' = errors
  BY <1>1, <1>2, <1>5, <1>6, <1>7, <1>8, ReadingsKept DEF Collect, database, Reading, PollsSound
<1>9. CASE errors' > 0
  <2>1. \A q \in Polls : Reading(q, "evaluating")' => Reading(q, "evaluating")
    BY <1>1, <1>5 DEF Reading
  <2>2. PollsSound'
    <3>1. account' = account
      BY DEF Collect, database
    <3> QED  BY <1>1, <1>5, <3>1 DEF PollsSound, ItemsOf
  <2>3. NewIsEmpty' /\ OneJudges'
    BY <2>1 DEF ReadingsInv, NewIsEmpty, OneJudges, Collect, database
  <2>4. JudgesStored' /\ MatchedOrAwaited'
    BY <1>9 DEF JudgesStored, MatchedOrAwaited
  <2> QED  BY <1>7, <2>2, <2>3, <2>4 DEF ReadingsInv
<1> QED  BY <1>6, <1>8, <1>9

\* ... storing what it has said ...
LEMMA SaveStep ==
  ASSUME ReadingsInv, NEW p \in Polls, Save(p), UNCHANGED service
  PROVE  ReadingsInv'
<1> DEFINE a == poll[p].acct
<1> DEFINE snap == poll[p].snap
<1>1. /\ TypeOK /\ PollsSound /\ NewIsEmpty /\ OneJudges /\ JudgesStored /\ MatchedOrAwaited
      /\ poll[p] # None /\ poll[p].step = "read" /\ poll[p] \in Poll
      /\ a \in Accounts /\ snap \in Snapshots \cup {None} /\ account[a] # "new"
  BY DEF ReadingsInv, Save, Reading, TypeOK, Poll, PollsSound
<1>2. ToJudge(a, snap) \in SUBSET Items /\ ToJudge(a, snap) \subseteq ItemsOf(a)
  BY DEF ToJudge, ItemsOf
<1>3. [poll[p] EXCEPT !.step = "evaluating", !.left = ToJudge(a, snap)] \in Poll
  BY <1>1, <1>2, PollKept
<1>4. /\ poll' = [poll EXCEPT ![p] = [poll[p] EXCEPT !.step = "evaluating", !.left = ToJudge(a, snap)]]
      /\ stored' = IF snap # None /\ account[a] # "deleted"
                      THEN [stored EXCEPT ![a] = snap] ELSE stored
      /\ UNCHANGED <<account, alert, cloud, moves, errors>>
      /\ \A q \in Polls : ~Reading(q, "evaluating")
  <2>1. poll' = [poll EXCEPT ![p].step = "evaluating", ![p].left = ToJudge(a, snap)]
    BY DEF Save
  <2> HIDE DEF a, snap
  <2> QED  BY <1>1, <2>1 DEF Save, LoopIsFree, bounds, TypeOK, a, snap
<1>5. /\ poll'[p] # None /\ poll'[p].step = "evaluating" /\ poll'[p].snap = snap
      /\ poll'[p].acct = a /\ poll'[p].left = ToJudge(a, snap)
      /\ \A q \in Polls : q # p => poll'[q] = poll[q]
  BY <1>1, <1>3, <1>4, NoneIsNothing DEF TypeOK, Poll
<1>6. TypeOK'
  <2>1. signin' \in [Accounts -> {"ok", "raised"}] /\ due' \in [Accounts -> BOOLEAN]
    BY <1>1 DEF Save, TypeOK
  <2>2. stored' \in [Accounts -> Snapshots \cup {None}] /\ poll' \in [Polls -> Poll \cup {None}]
    BY <1>1, <1>3, <1>4 DEF TypeOK
  <2> QED  BY <1>1, <1>4, <2>1, <2>2 DEF TypeOK
<1>7. \A q \in Polls : Reading(q, "evaluating")' <=> q = p
  BY <1>4, <1>5 DEF Reading
<1>8. PollsSound' /\ NewIsEmpty' /\ OneJudges'
  <2>1. PollsSound'
    BY <1>1, <1>2, <1>4, <1>5 DEF PollsSound, ItemsOf
  <2>2. NewIsEmpty'
    BY <1>1, <1>4 DEF NewIsEmpty, TypeOK
  <2>3. OneJudges'
    BY <1>7 DEF OneJudges
  <2> QED  BY <2>1, <2>2, <2>3
<1>9. JudgesStored'
  <2> SUFFICES ASSUME errors' = 0, NEW q \in Polls
               PROVE  /\ Reading(q, "read")' => poll'[q].snap # None
                      /\ Reading(q, "evaluating")' =>
                           /\ poll'[q].snap # None
                           /\ account'[poll'[q].acct] # "deleted" =>
                                stored'[poll'[q].acct] = poll'[q].snap
    BY DEF JudgesStored
  <2>1. snap # None
    BY <1>1, <1>4 DEF JudgesStored, Reading
  <2>2. CASE q = p
    BY <2>1, <2>2, <1>1, <1>4, <1>5 DEF Reading, TypeOK
  <2>3. CASE q # p
    BY <2>3, <1>1, <1>4, <1>5, <1>7 DEF Reading, JudgesStored
  <2> QED  BY <2>2, <2>3
<1>10. MatchedOrAwaited'
  <2> SUFFICES ASSUME errors' = 0, NEW i \in Items,
                      account'[Owner[i]] \in {"on", "off"}, stored'[Owner[i]] # None
               PROVE  Matches(i, stored[Owner[i]])' \/ IsAwaited(i)'
    BY DEF MatchedOrAwaited
  <2>1. Owner[i] \in Accounts
    BY OwnerAssumption
  <2>2. snap # None
    BY <1>1, <1>4 DEF JudgesStored, Reading
  <2>3. CASE Owner[i] = a
    <3>1. stored'[Owner[i]] = snap
      BY <2>2, <2>3, <1>1, <1>4 DEF TypeOK
    <3>2. CASE i \in ToJudge(a, snap)
      BY <3>2, <1>5, <1>7 DEF IsAwaited
    <3>3. CASE i \notin ToJudge(a, snap)
      <4>1. snap[i] = "gone" /\ (service = "m365" => alert[i] = "ok")
        BY <2>2, <2>3, <3>3, <1>1 DEF ToJudge, ItemsOf, TypeOK
      <4>2. /\ stored'[Owner[i]][i] = "gone"
            /\ (service' = "m365" => alert'[i] = "ok")
        BY <4>1, <3>1, <1>4
      <4> QED  BY <4>2 DEF Matches
    <3> QED  BY <3>2, <3>3
  <2>4. CASE Owner[i] # a
    <3>1. stored'[Owner[i]] = stored[Owner[i]]
      BY <2>1, <2>4, <1>1, <1>4 DEF TypeOK
    <3>2. ~IsAwaited(i)
      BY <1>4 DEF IsAwaited
    <3>3. Matches(i, stored[Owner[i]])
      BY <3>1, <3>2, <1>1, <1>4 DEF MatchedOrAwaited
    <3> QED  BY <3>1, <3>3, <1>4 DEF Matches
  <2> QED  BY <2>3, <2>4
<1> QED  BY <1>6, <1>8, <1>9, <1>10 DEF ReadingsInv

\* ... judging an item ...
LEMMA JudgeStep ==
  ASSUME ReadingsInv, NEW p \in Polls, NEW i \in Items, Judge(p, i), UNCHANGED service
  PROVE  ReadingsInv'
<1> DEFINE a == poll[p].acct
<1> DEFINE snap == poll[p].snap
<1>1. /\ TypeOK /\ PollsSound /\ NewIsEmpty /\ OneJudges /\ JudgesStored /\ MatchedOrAwaited
      /\ poll[p] # None /\ poll[p].step = "evaluating" /\ poll[p] \in Poll
      /\ a \in Accounts /\ snap \in Snapshots \cup {None} /\ account[a] # "new"
      /\ poll[p].left \in SUBSET Items /\ poll[p].left \subseteq ItemsOf(a)
  BY DEF ReadingsInv, Judge, Reading, TypeOK, Poll, PollsSound
<1>2. Owner[i] = a
  BY <1>1 DEF Judge, ItemsOf
<1>3. [poll[p] EXCEPT !.left = poll[p].left \ {i}] \in Poll
  BY <1>1, PollKept
<1>4. /\ poll' = [poll EXCEPT ![p] = [poll[p] EXCEPT !.left = poll[p].left \ {i}]]
      /\ alert' = [alert EXCEPT ![i] = IF Says(snap, i) THEN "raised" ELSE "ok"]
      /\ UNCHANGED <<account, stored, signin, due, cloud, moves, errors>>
  BY <1>1 DEF Judge, bounds, TypeOK
<1>5. /\ poll'[p] # None /\ poll'[p].step = "evaluating" /\ poll'[p].snap = snap
      /\ poll'[p].acct = a /\ poll'[p].left = poll[p].left \ {i}
      /\ \A q \in Polls : q # p => poll'[q] = poll[q]
  BY <1>1, <1>3, <1>4, NoneIsNothing DEF TypeOK, Poll
<1>6. TypeOK'
  BY <1>1, <1>3, <1>4 DEF TypeOK
<1>7. \A q \in Polls : \A step : Reading(q, step)' <=> Reading(q, step)
  BY <1>1, <1>5 DEF Reading
<1>8. PollsSound' /\ NewIsEmpty' /\ OneJudges'
  <2>1. PollsSound'
    BY <1>1, <1>4, <1>5 DEF PollsSound, ItemsOf
  <2>2. NewIsEmpty' /\ OneJudges'
    BY <1>1, <1>4, <1>7 DEF NewIsEmpty, OneJudges
  <2> QED  BY <2>1, <2>2
<1>9. JudgesStored'
  <2>1. \A q \in Polls : poll'[q] # None => poll'[q].snap = poll[q].snap /\ poll'[q].acct = poll[q].acct
    BY <1>5
  <2> QED  BY <2>1, <1>1, <1>4, <1>7 DEF JudgesStored, Reading
<1>10. MatchedOrAwaited'
  <2> SUFFICES ASSUME errors' = 0, NEW j \in Items,
                      account'[Owner[j]] \in {"on", "off"}, stored'[Owner[j]] # None
               PROVE  Matches(j, stored[Owner[j]])' \/ IsAwaited(j)'
    BY DEF MatchedOrAwaited
  <2>1. CASE j = i
    <3>1. stored'[Owner[j]] = snap /\ snap # None
      BY <2>1, <1>1, <1>2, <1>4 DEF JudgesStored, Reading
    <3>2. alert'[i] = IF snap[i] = "bad" THEN "raised" ELSE "ok"
      BY <3>1, <1>1, <1>4 DEF Says, TypeOK
    <3> QED  BY <2>1, <3>1, <3>2 DEF Matches
  <2>2. CASE j # i
    <3>1. Matches(j, stored[Owner[j]]) \/ IsAwaited(j)
      BY <1>1, <1>4 DEF MatchedOrAwaited
    <3>2. Matches(j, stored[Owner[j]]) => Matches(j, stored[Owner[j]])'
      BY <2>2, <1>1, <1>4 DEF Matches, TypeOK
    <3>3. IsAwaited(j) => IsAwaited(j)'
      BY <2>2, <1>5, <1>7 DEF IsAwaited
    <3> QED  BY <3>1, <3>2, <3>3
  <2> QED  BY <2>1, <2>2
<1> QED  BY <1>6, <1>8, <1>9, <1>10 DEF ReadingsInv

\* ... and ending.
LEMMA DoneStep ==
  ASSUME ReadingsInv, NEW p \in Polls, Done(p), UNCHANGED service
  PROVE  ReadingsInv'
<1>1. /\ TypeOK /\ PollsSound /\ NewIsEmpty /\ OneJudges /\ JudgesStored /\ MatchedOrAwaited
      /\ poll[p].left = {}
  BY DEF ReadingsInv, Done
<1>2. /\ poll' = [poll EXCEPT ![p] = None] /\ poll'[p] = None
      /\ UNCHANGED <<account, stored, alert, signin, due, cloud, moves, errors>>
      /\ \A q \in Polls : q # p => poll'[q] = poll[q]
  BY <1>1 DEF Done, database, bounds, TypeOK
<1>3. TypeOK'
  BY <1>1, <1>2 DEF TypeOK
<1>4. PollsSound' /\ NewIsEmpty' /\ OneJudges'
  <2>1. PollsSound'
    BY <1>1, <1>2 DEF PollsSound, ItemsOf
  <2>2. NewIsEmpty' /\ OneJudges'
    BY <1>1, <1>2 DEF NewIsEmpty, OneJudges, Reading
  <2> QED  BY <2>1, <2>2
<1>5. JudgesStored'
  BY <1>1, <1>2 DEF JudgesStored, Reading
<1>6. MatchedOrAwaited'
  <2>1. \A i \in Items : IsAwaited(i) => IsAwaited(i)'
    BY <1>1, <1>2 DEF IsAwaited, Reading
  <2>2. \A i \in Items : Matches(i, stored[Owner[i]]) => Matches(i, stored[Owner[i]])'
    BY <1>2 DEF Matches
  <2> QED  BY <2>1, <2>2, <1>1, <1>2 DEF MatchedOrAwaited
<1> QED  BY <1>3, <1>4, <1>5, <1>6 DEF ReadingsInv

-----------------------------------------------------------------------------
(* The administrator, the clouds, the clock.                               *)

\* A reading of an account that is started keeps the invariant, whatever makes
\* or enables the account.
LEMMA StartedStep ==
  ASSUME ReadingsInv, NEW p \in Polls, NEW a \in Accounts, poll[p] = None, Started(a, p),
         account' \in [Accounts -> {"new", "on", "off", "deleted"}],
         account'[a] # "new",
         \A b \in Accounts :
           \/ account'[b] = account[b]
           \/ account'[b] \in {"on", "off"} /\ account[b] \in {"on", "off", "new"},
         due' \in [Accounts -> BOOLEAN], moves' \in 0 .. MaxMoves,
         UNCHANGED <<stored, alert, signin, cloud, errors, service>>
  PROVE  ReadingsInv'
<1>1. TypeOK
  BY DEF ReadingsInv
<1>2. /\ Fresh(a) \in Poll /\ Fresh(a) # None
      /\ Fresh(a).acct = a /\ Fresh(a).step = "reading" /\ Fresh(a).left = {}
  BY FreshIsPoll
<1>3. poll' = [poll EXCEPT ![p] = Fresh(a)]
  BY DEF Started, Fresh
<1>4. poll'[p] = Fresh(a) /\ \A q \in Polls : q # p => poll'[q] = poll[q]
  BY <1>1, <1>3 DEF TypeOK
<1>5. TypeOK'
  BY <1>1, <1>2, <1>3 DEF TypeOK
<1>6. ~Reading(p, "evaluating")
  BY DEF Reading
<1>7. /\ poll'[p] # None /\ poll'[p].step = "reading"
      /\ account'[poll'[p].acct] # "new"
      /\ poll'[p].left \subseteq ItemsOf(poll'[p].acct)
  BY <1>2, <1>4
<1> QED  BY <1>4, <1>5, <1>6, <1>7, ReadingsKept

\* An account is switched off, or on, without a reading.
LEMMA SwitchStep ==
  ASSUME ReadingsInv, NEW a \in Accounts, UNCHANGED poll,
         account' = account \/ (account[a] \in {"on", "off"}
           /\ \E v \in {"on", "off"} : account' = [account EXCEPT ![a] = v]),
         due' \in [Accounts -> BOOLEAN], moves' \in 0 .. MaxMoves, cloud' \in Snapshots,
         UNCHANGED <<stored, alert, signin, errors, service>>
  PROVE  ReadingsInv'
<1>1. TypeOK /\ PollsSound /\ NewIsEmpty /\ OneJudges /\ JudgesStored /\ MatchedOrAwaited
  BY DEF ReadingsInv
<1>2. \A b \in Accounts :
        \/ account'[b] = account[b]
        \/ account'[b] \in {"on", "off"} /\ account[b] \in {"on", "off"}
  BY <1>1 DEF TypeOK
<1>3. TypeOK'
  BY <1>1 DEF TypeOK
<1>4. \A q \in Polls : poll[q] # None => poll[q].acct \in Accounts
  BY <1>1 DEF TypeOK, Poll
<1>5. PollsSound' /\ NewIsEmpty' /\ OneJudges'
  BY <1>1, <1>2, <1>4 DEF PollsSound, NewIsEmpty, OneJudges, Reading, ItemsOf
<1>6. JudgesStored'
  BY <1>1, <1>2, <1>4 DEF JudgesStored, Reading
<1>7. MatchedOrAwaited'
  <2>1. \A i \in Items : Owner[i] \in Accounts
    BY OwnerAssumption
  <2> QED  BY <1>1, <1>2, <2>1 DEF MatchedOrAwaited, Matches, IsAwaited, Reading
<1> QED  BY <1>3, <1>5, <1>6, <1>7 DEF ReadingsInv

\* An account is deleted, also while a reading of it is evaluated.
LEMMA DeleteStep ==
  ASSUME ReadingsInv, NEW a \in Accounts, DeleteAccount(a), UNCHANGED service
  PROVE  ReadingsInv'
<1> USE BoundsAssumption
<1>1. TypeOK /\ PollsSound /\ NewIsEmpty /\ OneJudges /\ JudgesStored /\ MatchedOrAwaited
  BY DEF ReadingsInv
<1>2. /\ account' = [account EXCEPT ![a] = "deleted"]
      /\ stored' = [stored EXCEPT ![a] = None]
      /\ alert' = [i \in Items |-> IF Owner[i] = a THEN "ok" ELSE alert[i]]
      /\ signin' = [signin EXCEPT ![a] = "ok"]
      /\ moves' \in 0 .. MaxMoves
      /\ UNCHANGED <<due, poll, cloud, errors>>
  BY <1>1 DEF DeleteAccount, Move, TypeOK
<1>3. /\ account'[a] = "deleted" /\ stored'[a] = None
      /\ \A b \in Accounts : b # a => account'[b] = account[b] /\ stored'[b] = stored[b]
      /\ \A i \in Items : Owner[i] # a => alert'[i] = alert[i]
  BY <1>1, <1>2 DEF TypeOK
<1>4. TypeOK'
  BY <1>1, <1>2 DEF TypeOK
<1>5. \A q \in Polls : poll[q] # None => poll[q].acct \in Accounts
  BY <1>1 DEF TypeOK, Poll
<1>6. PollsSound' /\ NewIsEmpty' /\ OneJudges'
  BY <1>1, <1>2, <1>3, <1>5 DEF PollsSound, NewIsEmpty, OneJudges, Reading, ItemsOf
<1>7. JudgesStored'
  BY <1>1, <1>2, <1>3, <1>5 DEF JudgesStored, Reading
<1>8. MatchedOrAwaited'
  <2>1. \A i \in Items : Owner[i] \in Accounts
    BY OwnerAssumption
  <2> QED  BY <1>1, <1>2, <1>3, <2>1 DEF MatchedOrAwaited, Matches, IsAwaited, Reading
<1> QED  BY <1>4, <1>6, <1>7, <1>8 DEF ReadingsInv

\* The server stops.
LEMMA RestartStep ==
  ASSUME ReadingsInv, Restart, UNCHANGED service
  PROVE  ReadingsInv'
<1> USE BoundsAssumption
<1>1. TypeOK /\ NewIsEmpty
  BY DEF ReadingsInv
<1>2. /\ poll' = [p \in Polls |-> None]
      /\ due' \in [Accounts -> BOOLEAN]
      /\ errors' \in 0 .. MaxErrors /\ errors' > 0
      /\ UNCHANGED <<account, stored, alert, signin, cloud, moves>>
  BY <1>1 DEF Restart, database, TypeOK
<1>3. TypeOK'
  BY <1>1, <1>2 DEF TypeOK
<1>4. \A p \in Polls : poll'[p] = None
  BY <1>2
<1> QED  BY <1>1, <1>2, <1>3, <1>4 DEF ReadingsInv, PollsSound, NewIsEmpty, OneJudges,
            JudgesStored, MatchedOrAwaited, Reading

-----------------------------------------------------------------------------
(* The invariant and the theorems.                                         *)

\* Every step keeps the invariant.
LEMMA ReadingsStep ==
  ASSUME ReadingsInv, [Next]_vars
  PROVE  ReadingsInv'
<1> USE BoundsAssumption
<1>1. TypeOK
  BY DEF ReadingsInv
<1>2. CASE UNCHANGED vars
  BY <1>2 DEF vars, database, bounds, ReadingsInv, TypeOK, PollsSound, NewIsEmpty, OneJudges,
     JudgesStored, MatchedOrAwaited, Matches, IsAwaited, Reading
<1>3. ASSUME NEW p \in Polls, Step(p), UNCHANGED service
      PROVE  ReadingsInv'
  BY <1>3, CollectStep, SaveStep, JudgeStep, DoneStep DEF Step
<1>4. ASSUME NEW a \in Accounts, NEW p \in Polls,
             LoopPoll(a, p) \/ CreateAccount(a, p) \/ UserPoll(a, p), UNCHANGED service
      PROVE  ReadingsInv'
  <2>1. /\ poll[p] = None /\ Started(a, p)
        /\ UNCHANGED <<stored, alert, signin, cloud, errors, service>>
    BY <1>4 DEF LoopPoll, CreateAccount, UserPoll, Move, database, bounds
  <2>2. due' \in [Accounts -> BOOLEAN] /\ moves' \in 0 .. MaxMoves
    <3>1. moves' = moves \/ (moves < MaxMoves /\ moves' = moves + 1)
      BY <1>4 DEF LoopPoll, CreateAccount, UserPoll, Move, bounds
    <3>2. due' = due \/ due' = [due EXCEPT ![a] = FALSE]
      BY <1>4 DEF LoopPoll, CreateAccount, UserPoll
    <3>3. due' \in [Accounts -> BOOLEAN]
      BY <1>1, <3>2 DEF TypeOK
    <3>4. moves' \in 0 .. MaxMoves
      BY <1>1, <3>1 DEF TypeOK
    <3> QED  BY <3>3, <3>4
  <2>3. /\ account' = account \/ (account[a] = "new" /\ account' = [account EXCEPT ![a] = "on"])
        /\ account' = account => account[a] \in {"on", "off"}
    BY <1>1, <1>4 DEF LoopPoll, CreateAccount, UserPoll, database, TypeOK
  <2>4. /\ account' \in [Accounts -> {"new", "on", "off", "deleted"}] /\ account'[a] # "new"
        /\ \A b \in Accounts :
             \/ account'[b] = account[b]
             \/ account'[b] \in {"on", "off"} /\ account[b] \in {"on", "off", "new"}
    BY <2>3, <1>1 DEF TypeOK
  <2> QED  BY <2>1, <2>2, <2>4, StartedStep
<1>5. ASSUME NEW a \in Accounts, NEW p \in Polls, SwitchAccount(a, p), UNCHANGED service
      PROVE  ReadingsInv'
  <2>1. /\ due' \in [Accounts -> BOOLEAN] /\ moves' \in 0 .. MaxMoves
        /\ UNCHANGED <<stored, alert, signin, cloud, errors, service>>
    BY <1>1, <1>5 DEF SwitchAccount, Move, TypeOK
  <2>2. account[a] \in {"on", "off"} /\ \E v \in {"on", "off"} : account' = [account EXCEPT ![a] = v]
    BY <1>5 DEF SwitchAccount
  <2>3. CASE UNCHANGED poll
    BY <2>1, <2>2, <2>3, <1>1, SwitchStep DEF TypeOK
  <2>4. CASE poll[p] = None /\ Started(a, p)
    <3>1. /\ account' \in [Accounts -> {"new", "on", "off", "deleted"}] /\ account'[a] # "new"
          /\ \A b \in Accounts :
               \/ account'[b] = account[b]
               \/ account'[b] \in {"on", "off"} /\ account[b] \in {"on", "off", "new"}
      BY <2>2, <1>1 DEF TypeOK
    <3> QED  BY <2>1, <2>4, <3>1, StartedStep
  <2> QED  BY <1>5, <2>3, <2>4 DEF SwitchAccount
<1>6. ASSUME NEW i \in Items, NEW s \in State, CloudChanges(i, s), UNCHANGED service
      PROVE  ReadingsInv'
  <2>1. /\ cloud' \in Snapshots /\ moves' \in 0 .. MaxMoves /\ due' \in [Accounts -> BOOLEAN]
        /\ UNCHANGED <<account, stored, alert, signin, poll, errors, service>>
    BY <1>1, <1>6 DEF CloudChanges, Move, database, TypeOK, Snapshots
  <2>2. Owner[i] \in Accounts
    BY OwnerAssumption
  <2> QED  BY <2>1, <2>2, SwitchStep
<1>7. ASSUME NEW a \in Accounts, IntervalPasses(a), UNCHANGED service
      PROVE  ReadingsInv'
  <2>1. /\ cloud' \in Snapshots /\ moves' \in 0 .. MaxMoves /\ due' \in [Accounts -> BOOLEAN]
        /\ UNCHANGED <<account, stored, alert, signin, poll, errors, service>>
    BY <1>1, <1>7 DEF IntervalPasses, database, bounds, TypeOK
  <2> QED  BY <2>1, SwitchStep
<1> QED  BY <1>2, <1>3, <1>4, <1>5, <1>6, <1>7, CollectStep, DeleteStep, RestartStep DEF Next

\* What the server starts with.
LEMMA ReadingsStart ==
  ASSUME Init
  PROVE  ReadingsInv
<1> USE BoundsAssumption
<1>1. TypeOK
  <2>1. /\ account \in [Accounts -> {"new", "on", "off", "deleted"}]
        /\ stored \in [Accounts -> Snapshots \cup {None}]
        /\ alert \in [Items -> {"ok", "raised"}] /\ signin \in [Accounts -> {"ok", "raised"}]
    BY DEF Init
  <2>2. due \in [Accounts -> BOOLEAN] /\ poll \in [Polls -> Poll \cup {None}]
    BY DEF Init
  <2>3. cloud \in Snapshots /\ moves \in 0 .. MaxMoves /\ errors \in 0 .. MaxErrors
    BY DEF Init
  <2>4. service \in {"unifi", "m365"}
    BY ServiceAssumption DEF Init
  <2> QED  BY <2>1, <2>2, <2>3, <2>4 DEF TypeOK
<1>2. \A p \in Polls : poll[p] = None
  BY DEF Init
<1>3. \A a \in Accounts : account[a] = "new" /\ stored[a] = None
  BY DEF Init
<1>4. \A i \in Items : Owner[i] \in Accounts
  BY OwnerAssumption
<1> QED  BY <1>1, <1>2, <1>3, <1>4 DEF ReadingsInv, PollsSound, NewIsEmpty, OneJudges,
            JudgesStored, MatchedOrAwaited, Reading

\* The inductive invariant of the readings: one is evaluated at a time, it is
\* the one on show, and each alert matches that one or is awaited.
THEOREM ReadingsInvariant == Spec => []ReadingsInv
<1> QED  BY ReadingsStart, ReadingsStep, PTL DEF Spec

\* Every variable of the readings keeps its type.
THEOREM ReadingsTyping == Spec => []TypeOK
<1>1. ReadingsInv => TypeOK
  BY DEF ReadingsInv
<1> QED  BY <1>1, ReadingsInvariant, PTL

\* What is awaited is awaited of the item's own account.
LEMMA AwaitedIsJudged ==
  ASSUME PollsSound, NEW i \in Items, IsAwaited(i)
  PROVE  BeingJudged(Owner[i])
BY DEF PollsSound, IsAwaited, BeingJudged, Reading, ItemsOf

\* While nothing fails, the alerts are those of the reading on show, however
\* many readings of however many accounts overlap.
THEOREM AlertsFollowReadings == Spec => []AlertsMatchReading
<1>1. ReadingsInv => AlertsMatchReading
  <2> SUFFICES ASSUME ReadingsInv, errors = 0, NEW i \in Items,
                      account[Owner[i]] \in {"on", "off"}, stored[Owner[i]] # None,
                      ~BeingJudged(Owner[i])
               PROVE  Matches(i, stored[Owner[i]])
    BY DEF AlertsMatchReading, Matches
  <2> QED  BY AwaitedIsJudged DEF ReadingsInv, MatchedOrAwaited
<1> QED  BY <1>1, ReadingsInvariant, PTL

-----------------------------------------------------------------------------
(* What a UniFi reading contains.                                          *)

AllAnswered(w) == \A kind, x : Got(w, kind, x)

\* A refusal for the rate that ends is an answer.
LEMMA BusyIsAnswered ==
  ASSUME NEW w, \A f \in w : f[2] = "busy"
  PROVE  AllAnswered(w)
  BY DEF AllAnswered, Got

\* Without failures everything answers.
LEMMA NoneIsAnswered == AllAnswered({})
  BY DEF AllAnswered, Got

\* The devices of a reading.
LEMMA GearIs ==
  ASSUME NEW w, NEW selected
  PROVE  /\ GearRead(w, selected) \subseteq Gear
         /\ GearRead(w, selected) \in {GearRead({}, selected), {}}
         /\ Pages(w, "devices", DevicePages).ok => GearRead(w, selected) = GearRead({}, selected)
<1> DEFINE n == Min({Len(DevicePages), MaxPages})
           rows == UNION {ToSet(DevicePages[k]) : k \in 1 .. n}
<1>1. Len(DevicePages) \in Nat /\ MaxPages \in Nat /\ DOMAIN DevicePages = 1 .. Len(DevicePages)
  BY AccountAssumption
<1>2. n \in 0 .. Len(DevicePages)
  BY <1>1 DEF Min
<1>3. rows \subseteq Gear
  <2> SUFFICES ASSUME NEW k \in 1 .. n  PROVE ToSet(DevicePages[k]) \subseteq Gear
    OBVIOUS
  <2> HIDE DEF n
  <2>1. k \in DOMAIN DevicePages  BY <1>1, <1>2
  <2>2. DevicePages[k] \in ToSet(DevicePages)  BY <2>1 DEF ToSet
  <2> QED  BY <2>2, AccountAssumption
<1>4. \A x : Pages(x, "devices", DevicePages).rows = rows
  BY DEF Pages
<1>5. Pages({}, "devices", DevicePages).ok
  BY NoneIsAnswered DEF Pages, AllAnswered
<1> HIDE DEF rows
<1> QED  BY <1>3, <1>4, <1>5 DEF GearRead

\* A snapshot that is one, field by field.
LEMMA SnapshotOf ==
  ASSUME NEW w, NEW selected, UnifiSnapshot(w, selected).ok
  PROVE  UnifiSnapshot(w, selected) =
           [ok |-> TRUE, error |-> ~Pages(w, "devices", DevicePages).ok,
            hosts |-> Pages(w, "hosts", HostPages).rows,
            devices |-> {DeviceRow(w, GearRead(w, selected), g) : g \in GearRead(w, selected)},
            isp |-> IspRead(w, Chosen(selected)), edges |-> Edges(w, GearRead(w, selected)),
            networks |-> NetworkPart(w, GearRead(w, selected)).networks,
            read |-> NetworkPart(w, GearRead(w, selected)).read,
            unread |-> NetworkPart(w, GearRead(w, selected)).unread,
            vpns |-> NetworkPart(w, GearRead(w, selected)).vpns,
            vpnsRead |-> NetworkPart(w, GearRead(w, selected)).vpnsRead,
            vpnsUnread |-> NetworkPart(w, GearRead(w, selected)).vpnsUnread]
  BY DEF UnifiSnapshot, Nothing

\* The reading without failures is one.
LEMMA FairIsOk == \A selected : UnifiSnapshot({}, selected).ok
  BY NoneIsAnswered DEF UnifiSnapshot, Pages, AllAnswered

-----------------------------------------------------------------------------
\* With everything answered a reading is the one without failures.
LEMMA SameTopology ==
  ASSUME NEW w, AllAnswered(w), NEW gear
  PROVE  /\ Detailed(w, gear) = Detailed({}, gear)
         /\ \A g : UplinkRead(w, gear, g) = UplinkRead({}, gear, g)
         /\ Edges(w, gear) = Edges({}, gear)
<1>1. Detailed(w, gear) = Detailed({}, gear)
  BY NoneIsAnswered DEF Detailed, AllAnswered
<1>2. \A g : UplinkRead(w, gear, g) = UplinkRead({}, gear, g)
  BY <1>1, NoneIsAnswered DEF UplinkRead, AllAnswered
<1>3. Edges(w, gear) = Edges({}, gear)
  BY <1>2 DEF Edges
<1> QED  BY <1>1, <1>2, <1>3

LEMMA SameSites ==
  ASSUME NEW w, AllAnswered(w)
  PROVE  /\ \A c : NetSites(w, c) = NetSites({}, c)
         /\ \A kind, c : ClassicSites(w, kind, c) = ClassicSites({}, kind, c)
  BY NoneIsAnswered DEF NetSites, ClassicSites, AllAnswered

LEMMA SameNetworks ==
  ASSUME NEW w, AllAnswered(w), NEW gear, NEW c
  PROVE  ConsoleNetworks(w, c, gear) = ConsoleNetworks({}, c, gear)
<1>1. NetSites(w, c) = NetSites({}, c)
  BY SameSites
<1>2. \A n : DhcpRead(w, c, n) = DhcpRead({}, c, n)
  BY <1>1, NoneIsAnswered DEF DhcpRead, AllAnswered
<1>3. \A n : RouterRead(w, c, n, gear) = RouterRead({}, c, n, gear)
  BY <1>2, NoneIsAnswered DEF RouterRead, AllAnswered
<1> QED  BY <1>1, <1>2, <1>3 DEF ConsoleNetworks

LEMMA SameVpns ==
  ASSUME NEW w, AllAnswered(w), NEW c
  PROVE  ConsoleVpns(w, c) = ConsoleVpns({}, c)
<1>1. /\ ListedVpns(w, c) = ListedVpns({}, c)
      /\ ClassicVpns(w, c) = ClassicVpns({}, c)
  BY SameSites DEF ListedVpns, ClassicVpns
<1>2. \A v : ListedRow(w, c, v) = ListedRow({}, c, v)
  BY <1>1 DEF ListedRow, Joined
<1> QED  BY <1>1, <1>2 DEF ConsoleVpns

LEMMA SamePart ==
  ASSUME NEW w, AllAnswered(w), NEW gear
  PROVE  NetworkPart(w, gear) = NetworkPart({}, gear)
<1>1. \A c : NetworksAnswered(w, c) <=> NetworksAnswered({}, c)
  BY SameSites, NoneIsAnswered DEF NetworksAnswered, AllAnswered
<1>2. \A c : VpnsAnswered(w, c) <=> VpnsAnswered({}, c)
  BY SameSites, NoneIsAnswered DEF VpnsAnswered, AllAnswered
<1> DEFINE consoles == {Console[g] : g \in gear}
           networks(x) == UNION {{[console |-> c, row |-> n] : n \in ConsoleNetworks(x, c, gear)} :
                                   c \in {c \in consoles : NetworksAnswered(x, c)}}
           vpns(x) == UNION {{[console |-> c, row |-> n] : n \in ConsoleVpns(x, c)} :
                               c \in {c \in consoles : VpnsAnswered(x, c)}}
           read(x) == {c \in consoles : NetworksAnswered(x, c)}
           vpnsRead(x) == {c \in consoles : VpnsAnswered(x, c)}
<1>3. \A x : NetworkPart(x, gear) =
        [networks |-> networks(x), read |-> read(x), unread |-> consoles \ read(x),
         vpns |-> vpns(x), vpnsRead |-> vpnsRead(x), vpnsUnread |-> consoles \ vpnsRead(x)]
  BY DEF NetworkPart
<1> HIDE DEF consoles
<1>4. read(w) = read({}) /\ vpnsRead(w) = vpnsRead({})
  BY <1>1, <1>2
<1>5. \A c : ConsoleNetworks(w, c, gear) = ConsoleNetworks({}, c, gear)
  BY SameNetworks
<1>6. \A c : ConsoleVpns(w, c) = ConsoleVpns({}, c)
  BY SameVpns
<1>7. networks(w) = networks({})
  BY <1>1, <1>5
<1>8. vpns(w) = vpns({})
  BY <1>2, <1>6
<1> HIDE DEF read, vpnsRead, networks, vpns
<1> QED  BY <1>3, <1>4, <1>7, <1>8

LEMMA SameDevices ==
  ASSUME NEW w, AllAnswered(w), NEW gear, NEW g
  PROVE  DeviceRow(w, gear, g) = DeviceRow({}, gear, g)
<1>1. ClassicPorts(w, g) = ClassicPorts({}, g)
  <2>1. /\ ClassicSites(w, "device", Console[g]) = ClassicSites({}, "device", Console[g])
        /\ ClassicSites(w, "networkconf", Console[g]) = ClassicSites({}, "networkconf", Console[g])
        /\ ClassicSites(w, "portconf", Console[g]) = ClassicSites({}, "portconf", Console[g])
    BY SameSites
  <2>2. Got(w, "sta", GearSite[g]) /\ Got({}, "sta", GearSite[g])
    BY NoneIsAnswered DEF AllAnswered
  <2> QED  BY <2>1, <2>2, Zenon DEF ClassicPorts
<1> QED  BY <1>1, SameTopology, NoneIsAnswered DEF DeviceRow, AllAnswered

LEMMA SameReading ==
  ASSUME NEW w, AllAnswered(w), NEW selected
  PROVE  UnifiSnapshot(w, selected) = UnifiSnapshot({}, selected)
<1>1. \A kind, pages : Pages(w, kind, pages) = Pages({}, kind, pages)
  BY NoneIsAnswered DEF Pages, AllAnswered
<1>2. GearRead(w, selected) = GearRead({}, selected)
  BY <1>1 DEF GearRead
<1>3. UnifiSnapshot(w, selected).ok
  BY <1>1, FairIsOk, NoneIsAnswered DEF UnifiSnapshot, Nothing, Pages, AllAnswered
<1>4. IspRead(w, Chosen(selected)) = IspRead({}, Chosen(selected))
  BY NoneIsAnswered DEF IspRead, AllAnswered
<1>5. {DeviceRow(w, GearRead(w, selected), g) : g \in GearRead(w, selected)}
        = {DeviceRow({}, GearRead({}, selected), g) : g \in GearRead({}, selected)}
  BY <1>2, SameDevices
<1>6. /\ NetworkPart(w, GearRead(w, selected)) = NetworkPart({}, GearRead({}, selected))
      /\ Edges(w, GearRead(w, selected)) = Edges({}, GearRead({}, selected))
  BY <1>2, SamePart, SameTopology
<1>7. /\ Pages(w, "devices", DevicePages) = Pages({}, "devices", DevicePages)
      /\ Pages(w, "hosts", HostPages) = Pages({}, "hosts", HostPages)
  BY <1>1
<1> QED  BY <1>3, <1>4, <1>5, <1>6, <1>7, FairIsOk, SnapshotOf

-----------------------------------------------------------------------------
\* The first of the parts of EveryReadingIsHonest.
LEMMA DevicesAreKept ==
  ASSUME NEW w, NEW selected
  PROVE  DevicesStay(UnifiSnapshot(w, selected), UnifiSnapshot({}, selected))
<1>1. \A x, gear, g : DeviceRow(x, gear, g).dev = g
  BY DEF DeviceRow
<1>2. ASSUME NEW x, UnifiSnapshot(x, selected).ok
      PROVE  {d.dev : d \in UnifiSnapshot(x, selected).devices} = GearRead(x, selected)
  <2>1. UnifiSnapshot(x, selected).devices =
          {DeviceRow(x, GearRead(x, selected), g) : g \in GearRead(x, selected)}
    BY <1>2, SnapshotOf
  <2> QED  BY <2>1, <1>1
<1>3. ASSUME UnifiSnapshot(w, selected).ok, ~UnifiSnapshot(w, selected).error
      PROVE  GearRead(w, selected) = GearRead({}, selected)
  <2>1. Pages(w, "devices", DevicePages).ok
    BY <1>3, Zenon DEF UnifiSnapshot, Nothing
  <2> QED  BY <2>1, GearIs
<1> QED  BY <1>2, <1>3, FairIsOk DEF DevicesStay

\* A snapshot's consoles, whether it is one or not.
LEMMA PartOf ==
  ASSUME NEW w, NEW selected, UnifiSnapshot(w, selected).ok
  PROVE  LET snap == UnifiSnapshot(w, selected)
             consoles == {Console[g] : g \in GearRead(w, selected)}
         IN /\ snap.read = {c \in consoles : NetworksAnswered(w, c)}
            /\ snap.unread = consoles \ snap.read
            /\ snap.vpnsRead = {c \in consoles : VpnsAnswered(w, c)}
            /\ snap.vpnsUnread = consoles \ snap.vpnsRead
            /\ snap.networks = UNION {{[console |-> c, row |-> x] :
                 x \in ConsoleNetworks(w, c, GearRead(w, selected))} : c \in snap.read}
            /\ snap.vpns = UNION {{[console |-> c, row |-> x] :
                 x \in ConsoleVpns(w, c)} : c \in snap.vpnsRead}
            /\ snap.devices = {DeviceRow(w, GearRead(w, selected), g) : g \in GearRead(w, selected)}
            /\ snap.edges = Edges(w, GearRead(w, selected))
  BY SnapshotOf DEF NetworkPart

\* A reading without the consoles is empty.
LEMMA UnreadIsEmpty ==
  ASSUME NEW w, NEW selected, ~UnifiSnapshot(w, selected).ok
  PROVE  UnifiSnapshot(w, selected) = Nothing
  BY DEF UnifiSnapshot

\* Consoles are read or named.
LEMMA ConsolesAreNamed ==
  ASSUME NEW w, NEW selected
  PROVE  ConsolesNamed(w, UnifiSnapshot(w, selected))
<1>1. CASE ~UnifiSnapshot(w, selected).ok
  BY <1>1, UnreadIsEmpty DEF ConsolesNamed, Nothing
<1>2. CASE UnifiSnapshot(w, selected).ok
  <2> DEFINE snap == UnifiSnapshot(w, selected)
             gear == GearRead(w, selected)
             consoles == {Console[g] : g \in gear}
  <2>1. /\ snap.read = {c \in consoles : NetworksAnswered(w, c)}
        /\ snap.unread = consoles \ snap.read
        /\ snap.vpnsRead = {c \in consoles : VpnsAnswered(w, c)}
        /\ snap.vpnsUnread = consoles \ snap.vpnsRead
        /\ snap.networks = UNION {{[console |-> c, row |-> x] :
             x \in ConsoleNetworks(w, c, gear)} : c \in snap.read}
        /\ snap.vpns = UNION {{[console |-> c, row |-> x] : x \in ConsoleVpns(w, c)} : c \in snap.vpnsRead}
        /\ snap.devices = {DeviceRow(w, gear, g) : g \in gear}
    BY <1>2, PartOf
  <2> HIDE DEF snap
  <2>2. {Console[d.dev] : d \in snap.devices} = consoles
    <3>1. \A g : DeviceRow(w, gear, g).dev = g  BY DEF DeviceRow
    <3> HIDE DEF gear
    <3> QED  BY <3>1, <2>1
  <2> HIDE DEF consoles, gear
  <2>3. snap.read \subseteq consoles /\ snap.vpnsRead \subseteq consoles
    BY <2>1
  <2>4. \A n \in snap.networks : n.console \in snap.read
    BY <2>1
  <2>5. \A v \in snap.vpns : v.console \in snap.vpnsRead
    BY <2>1
  <2>6. \A n \in snap.networks : PublishedConsoles(snap)[n.console]
    BY <2>4 DEF PublishedConsoles
  <2>7. \A c \in snap.read : \E s \in ToSet(SitesOf[c]) : Got(w, "networks", s)
    BY <2>1 DEF NetworksAnswered, NetSites
  <2> QED  BY <2>1, <2>2, <2>3, <2>5, <2>6, <2>7 DEF ConsolesNamed, snap
<1> QED  BY <1>1, <1>2

-----------------------------------------------------------------------------
\* A failure takes devices from those that are looked at, and adds none.
LEMMA DetailedIs ==
  ASSUME NEW w, NEW gear
  PROVE  /\ Detailed(w, gear) \subseteq Detailed({}, gear)
         /\ \A g : UplinkRead(w, gear, g) \in {UplinkRead({}, gear, g), Nobody}
<1>1. Detailed(w, gear) \subseteq Detailed({}, gear)
  BY NoneIsAnswered DEF Detailed, AllAnswered
<1> QED  BY <1>1, NoneIsAnswered DEF UplinkRead, AllAnswered

\* No edge is read that is not one.
LEMMA EdgesAreTrue ==
  ASSUME NEW w, NEW gear, Nobody \notin gear
  PROVE  Edges(w, gear) \subseteq Edges({}, gear)
<1> SUFFICES ASSUME NEW g \in gear, UplinkRead(w, gear, g) \in gear \ {g}
             PROVE  <<g, UplinkRead(w, gear, g)>> \in Edges({}, gear)
  BY DEF Edges
<1>1. UplinkRead({}, gear, g) = UplinkRead(w, gear, g)
  BY DetailedIs
<1> QED  BY <1>1 DEF Edges

\* The ports of the classic API: all of a device or none, and their VLANs as the
\* networks and the profiles that were read have them.
LEMMA ClassicIs ==
  ASSUME NEW w, NEW g, ClassicPorts(w, g) # <<>>
  PROVE  /\ DOMAIN ClassicPorts(w, g) = DOMAIN PortsOf[g]
         /\ DOMAIN ClassicPorts({}, g) = DOMAIN PortsOf[g]
         /\ (\A s \in ToSet(SitesOf[Console[g]]) : AllGot(w, {"portconf", "networkconf"}, s))
              => \A i \in DOMAIN PortsOf[g] :
                   ClassicPorts(w, g)[i].vlans = ClassicPorts({}, g)[i].vlans
<1> DEFINE c == Console[g]
           nets(x) == Rows(NetsOf, ClassicSites(x, "networkconf", c))
           profiles(x) == Rows(ProfilesOf, ClassicSites(x, "portconf", c))
           vlans(x, i) == PortVlans(PortSources(PortsOf[g][i], profiles(x)), nets(x), DefaultNet[c])
<1>1. GearSite[g] \in ClassicSites(w, "device", c)
  BY DEF ClassicPorts
<1>2. GearSite[g] \in ClassicSites({}, "device", c)
  BY <1>1, NoneIsAnswered DEF ClassicSites, AllAnswered
<1>3. \A x : GearSite[g] \in ClassicSites(x, "device", c) =>
        /\ DOMAIN ClassicPorts(x, g) = DOMAIN PortsOf[g]
        /\ \A i \in DOMAIN PortsOf[g] : ClassicPorts(x, g)[i].vlans = vlans(x, i)
  BY DEF ClassicPorts
<1>4. ASSUME \A s \in ToSet(SitesOf[c]) : AllGot(w, {"portconf", "networkconf"}, s)
      PROVE  /\ ClassicSites(w, "networkconf", c) = ClassicSites({}, "networkconf", c)
             /\ ClassicSites(w, "portconf", c) = ClassicSites({}, "portconf", c)
  BY <1>4, NoneIsAnswered DEF ClassicSites, AllAnswered, AllGot
<1> QED  BY <1>1, <1>2, <1>3, <1>4

\* What is said of a device is that of the reading without failures, or nothing.
LEMMA DevicesAreTrue ==
  ASSUME NEW w, NEW selected
  PROVE  DevicesTrue(w, UnifiSnapshot(w, selected), UnifiSnapshot({}, selected))
<1> DEFINE snap == UnifiSnapshot(w, selected)
           fair == UnifiSnapshot({}, selected)
           gear == GearRead({}, selected)
<1>1. fair.devices = {DeviceRow({}, gear, g) : g \in gear} /\ fair.edges = Edges({}, gear)
  BY FairIsOk, PartOf
<1>2. /\ snap.devices \subseteq {DeviceRow(w, gear, g) : g \in gear}
      /\ snap.edges \subseteq Edges(w, gear)
  <2>1. CASE snap.ok /\ GearRead(w, selected) = gear
    BY <2>1, PartOf
  <2>2. CASE ~snap.ok
    BY <2>2, UnreadIsEmpty DEF Nothing
  <2>3. CASE snap.ok /\ GearRead(w, selected) = {}
    BY <2>3, PartOf DEF Edges
  <2> QED  BY <2>1, <2>2, <2>3, GearIs
<1>3. Nobody \notin gear
  BY GearIs, AccountAssumption
<1> HIDE DEF snap, fair, gear
<1>4. snap.edges \subseteq fair.edges
  BY <1>1, <1>2, <1>3, EdgesAreTrue
<1>5. \A x, g : DeviceRow(x, gear, g).dev = g
  BY DEF DeviceRow
<1>6. ASSUME NEW d \in snap.devices
      PROVE  LET row == CHOOSE x \in fair.devices : x.dev = d.dev
             IN /\ d.uplink \in {row.uplink, Nobody}
                /\ d.ports \in {row.ports, {}}
                /\ (\A s \in ToSet(SitesOf[Console[d.dev]]) : AllGot(w, {"portconf", "networkconf"}, s))
                     => \A i \in DOMAIN d.vlans : d.vlans[i].vlans = row.vlans[i].vlans
  <2>1. PICK g \in gear : d = DeviceRow(w, gear, g)
    BY <1>2
  <2> DEFINE row == DeviceRow({}, gear, g)
             classic(x) == IF Role[g] # "ap" /\ Got(x, "sites", Console[g])
                             THEN ClassicPorts(x, g) ELSE <<>>
             up(x) == UplinkRead(x, gear, g)
             detail(x) == g \in Detailed(x, gear) /\ Got(x, "deviceDetail", g) /\ Role[g] # "ap"
  <2>2. (CHOOSE x \in fair.devices : x.dev = d.dev) = row
    <3>1. row \in fair.devices /\ d.dev = g /\ row.dev = g
      BY <1>1, <1>5, <2>1
    <3>2. \A x \in fair.devices : x.dev = g => x = row
      BY <1>1, <1>5
    <3> QED  BY <3>1, <3>2
  <2>3. \A x : /\ DeviceRow(x, gear, g).vlans = classic(x)
               /\ DeviceRow(x, gear, g).uplink = IF up(x) \in gear THEN up(x) ELSE Nobody
               /\ DeviceRow(x, gear, g).ports =
                    IF detail(x) \/ classic(x) # <<>> THEN DOMAIN PortsOf[g] ELSE {}
    BY DEF DeviceRow
  <2>4. detail(w) => detail({})
    BY DetailedIs, NoneIsAnswered DEF AllAnswered
  <2>5. classic(w) # <<>> =>
          /\ classic(w) = ClassicPorts(w, g) /\ classic({}) = ClassicPorts({}, g)
          /\ ClassicPorts(w, g) # <<>>
    BY NoneIsAnswered DEF AllAnswered
  <2>6. up(w) \in {up({}), Nobody}
    BY DetailedIs
  <2>7. d.uplink \in {row.uplink, Nobody}
    BY <2>1, <2>3, <2>6, <1>3
  <2> HIDE DEF classic, detail
  <2>8. d.ports \in {row.ports, {}}
    <3>1. CASE detail(w)
      BY <3>1, <2>1, <2>3, <2>4
    <3>2. CASE classic(w) # <<>> /\ DOMAIN PortsOf[g] # {}
      <4>1. DOMAIN classic({}) = DOMAIN PortsOf[g]
        BY <3>2, <2>5, ClassicIs
      <4>2. classic({}) # <<>>
        BY <4>1, <3>2
      <4> QED  BY <4>2, <3>2, <2>1, <2>3
    <3>3. CASE DOMAIN PortsOf[g] = {}
      BY <3>3, <2>1, <2>3
    <3>4. CASE ~detail(w) /\ classic(w) = <<>>
      BY <3>4, <2>1, <2>3
    <3> QED  BY <3>1, <3>2, <3>3, <3>4
  <2>9. ASSUME \A s \in ToSet(SitesOf[Console[d.dev]]) : AllGot(w, {"portconf", "networkconf"}, s),
               NEW i \in DOMAIN d.vlans
        PROVE  d.vlans[i].vlans = row.vlans[i].vlans
    <3>1. d.vlans = classic(w) /\ row.vlans = classic({}) /\ d.dev = g
      BY <2>1, <2>3, <1>5
    <3>2. classic(w) # <<>>
      BY <3>1, <2>9
    <3>3. DOMAIN ClassicPorts(w, g) = DOMAIN PortsOf[g]
      BY <3>2, <2>5, ClassicIs
    <3>4. ClassicPorts(w, g)[i].vlans = ClassicPorts({}, g)[i].vlans
      BY <3>1, <3>2, <3>3, <2>5, <2>9, ClassicIs
    <3> QED  BY <3>1, <3>2, <3>4, <2>5
  <2> HIDE DEF row
  <2> QED  BY <2>2, <2>7, <2>8, <2>9
<1> QED  BY <1>4, <1>6 DEF DevicesTrue, snap, fair

-----------------------------------------------------------------------------
\* A network or VPN is at one site, which is the one its map gives, and at one
\* console.
LEMMA SiteIs ==
  ASSUME NEW f, Apart(f, USites), NEW c \in UConsoles,
         NEW s \in ToSet(SitesOf[c]), NEW x \in ToSet(f[s])
  PROVE  s \in USites /\ At(f)[x] = s
<1>1. s \in USites
  BY AccountAssumption DEF Rows
<1>2. \A t \in USites : x \in ToSet(f[t]) => t = s
  BY <1>1 DEF Apart
<1>3. x \in Rows(f, USites)
  BY <1>1 DEF Rows
<1>4. At(f)[x] = CHOOSE t \in USites : x \in ToSet(f[t])
  BY <1>3 DEF At
<1> QED  BY <1>1, <1>2, <1>4

\* What is at a site is at a site of one console only.
LEMMA OneConsole ==
  ASSUME NEW f, Apart(f, USites), NEW c \in UConsoles, NEW d \in UConsoles,
         NEW s \in ToSet(SitesOf[c]), NEW t \in ToSet(SitesOf[d]), NEW x,
         x \in ToSet(f[s]), x \in ToSet(f[t])
  PROVE  c = d
<1>1. s = t
  BY SiteIs
<1> QED  BY <1>1, AccountAssumption DEF Apart

\* The consoles of a reading.
LEMMA ConsolesRead ==
  ASSUME NEW w, NEW selected, UnifiSnapshot(w, selected).ok,
         NEW c \in {Console[g] : g \in GearRead(w, selected)}
  PROVE  c \in Chosen(selected)
  BY DEF GearRead

\* What is said of a network is so, and a site that answers has all of its own.
LEMMA NetworksAreTrue ==
  ASSUME NEW w, NEW selected \in Selections
  PROVE  NetworksTrue(w, UnifiSnapshot(w, selected), UnifiSnapshot({}, selected))
<1> DEFINE snap == UnifiSnapshot(w, selected)
           fair == UnifiSnapshot({}, selected)
<1>1. CASE ~snap.ok
  BY <1>1, UnreadIsEmpty DEF NetworksTrue, Nothing
<1>2. CASE snap.ok
  <2> DEFINE gear == GearRead(w, selected)
             all == GearRead({}, selected)
             rows(x, g, read) == UNION {{[console |-> c, row |-> y] : y \in ConsoleNetworks(x, c, g)} : c \in read}
  <2>1. snap.networks = rows(w, gear, snap.read)
    BY <1>2, PartOf
  <2>2. fair.networks = rows({}, all, fair.read)
    BY FairIsOk, PartOf
  <2> HIDE DEF snap, fair
  <2>3. \A x, c, g : ConsoleNetworks(x, c, g) =
          {[net |-> n, dhcp |-> DhcpRead(x, c, n), router |-> RouterRead(x, c, n, g)] :
             n \in Rows(NetsOf, NetSites(x, c))}
    BY DEF ConsoleNetworks
  <2>4. gear \subseteq Gear
    BY GearIs
  <2>5. \A c, n : DhcpRead(w, c, n) \in {Dhcp[n], "unknown"}
    BY DEF DhcpRead
  <2>6. \A c, n : RouterRead(w, c, n, gear) \in {Nobody, Router[n]} \cup
          {g \in Gear : Role[g] = "gateway" /\ Console[g] = c}
    <3> SUFFICES ASSUME NEW c, NEW n
                 PROVE  RouterRead(w, c, n, gear) \in {Nobody, Router[n]} \cup
                          {g \in Gear : Role[g] = "gateway" /\ Console[g] = c}
      OBVIOUS
    <3> DEFINE gateways == {g \in gear : Role[g] = "gateway" /\ Console[g] = c}
               switch == IF DhcpRead(w, c, n) # "unknown" /\ Got(w, "switches", NetSite[n])
                           THEN Router[n] ELSE Nobody
    <3>1. gateways # {} => (CHOOSE g \in gateways : TRUE) \in gateways
      <4> HIDE DEF gateways
      <4> QED  OBVIOUS
    <3>2. RouterRead(w, c, n, gear) =
            IF switch # Nobody \/ Managed[n] # "gateway" \/ gateways = {}
              THEN switch ELSE CHOOSE g \in gateways : TRUE
      BY Zenon DEF RouterRead
    <3>3. switch \in {Nobody, Router[n]}
      OBVIOUS
    <3> HIDE DEF gear, switch
    <3>4. CASE switch # Nobody \/ Managed[n] # "gateway" \/ gateways = {}
      BY <3>2, <3>3, <3>4
    <3>5. CASE ~(switch # Nobody \/ Managed[n] # "gateway" \/ gateways = {})
      BY <3>1, <3>2, <3>5, <2>4
    <3> QED  BY <3>4, <3>5
  <2> HIDE DEF gear, all
  <2>7. ASSUME NEW n \in snap.networks
        PROVE  /\ n.row.dhcp \in {Dhcp[n.row.net], "unknown"}
               /\ n.row.router \in {Nobody, Router[n.row.net]} \cup
                    {g \in Gear : Role[g] = "gateway" /\ Console[g] = n.console}
    <3>1. PICK c \in snap.read : \E y \in ConsoleNetworks(w, c, gear) : n = [console |-> c, row |-> y]
      BY <2>1
    <3>2. PICK m : n = [console |-> c, row |->
                 [net |-> m, dhcp |-> DhcpRead(w, c, m), router |-> RouterRead(w, c, m, gear)]]
      BY <3>1, <2>3
    <3>3. n.console = c /\ n.row.net = m /\ n.row.dhcp = DhcpRead(w, c, m)
          /\ n.row.router = RouterRead(w, c, m, gear)
      BY <3>2
    <3> QED  BY <3>3, <2>5, <2>6
  <2>8. ASSUME NEW f \in fair.networks, f.console \in snap.read, Got(w, "networks", NetSite[f.row.net])
        PROVE  \E n \in snap.networks : n.row.net = f.row.net
    <3>1. PICK c \in fair.read : \E y \in ConsoleNetworks({}, c, all) : f = [console |-> c, row |-> y]
      BY <2>2
    <3>2. PICK m \in Rows(NetsOf, NetSites({}, c)) : f.console = c /\ f.row.net = m
      BY <3>1, <2>3
    <3>3. PICK s \in NetSites({}, c) : m \in ToSet(NetsOf[s])
      BY <3>2 DEF Rows
    <3>4. s \in ToSet(SitesOf[c])
      BY <3>3 DEF NetSites
    <3>5. c \in UConsoles
      <4>1. c \in Chosen(selected)
        BY FairIsOk, PartOf, ConsolesRead DEF fair
      <4> QED  BY <4>1 DEF Chosen, Selections
    <3>6. NetSite[m] = s
      BY <3>3, <3>4, <3>5, SiteIs, AccountAssumption DEF NetSite
    <3>7. s \in NetSites(w, c)
      BY <3>2, <3>4, <3>6, <2>8 DEF NetSites
    <3>8. m \in Rows(NetsOf, NetSites(w, c))
      BY <3>3, <3>7 DEF Rows
    <3> DEFINE y == [net |-> m, dhcp |-> DhcpRead(w, c, m), router |-> RouterRead(w, c, m, gear)]
    <3>9. y \in ConsoleNetworks(w, c, gear)
      BY <3>8, <2>3
    <3>10. [console |-> c, row |-> y] \in snap.networks
      BY <3>9, <3>2, <2>8, <2>1
    <3> QED  BY <3>10, <3>2
  <2> QED  BY <2>7, <2>8 DEF NetworksTrue, snap, fair
<1> QED  BY <1>1, <1>2

\* The VPNs that a console is asked for are at its sites.
LEMMA VpnsAtSites ==
  ASSUME NEW w, NEW c, NEW v \in ListedVpns(w, c) \cup ClassicVpns(w, c)
  PROVE  /\ v \in Rows(VpnsOf, ToSet(SitesOf[c]))
         /\ \E s \in ToSet(SitesOf[c]) : v \in ToSet(VpnsOf[s])
  BY DEF ListedVpns, ClassicVpns, Rows, ClassicSites

\* A VPN is listed in both readings, or in neither, if its site answered; and no
\* reading lists one that the reading without failures does not.
LEMMA VpnListed ==
  ASSUME NEW w, NEW c \in UConsoles, NEW v,
         AllGot(w, {"servers", "tunnels", "networkconf"}, VpnSite[v])
  PROVE  /\ v \in ListedVpns(w, c) <=> v \in ListedVpns({}, c)
         /\ v \in ClassicVpns(w, c) <=> v \in ClassicVpns({}, c)
         /\ ListedVpns(w, c) \subseteq ListedVpns({}, c)
<1>1. ASSUME NEW request \in {"servers", "tunnels", "networkconf"}
      PROVE  v \in Rows(VpnsOf, ClassicSites(w, request, c))
               <=> v \in Rows(VpnsOf, ClassicSites({}, request, c))
  <2>1. \A s \in ClassicSites(w, request, c) : s \in ClassicSites({}, request, c)
    BY NoneIsAnswered DEF ClassicSites, AllAnswered
  <2>2. ASSUME NEW s \in ClassicSites({}, request, c), v \in ToSet(VpnsOf[s])
        PROVE  s \in ClassicSites(w, request, c)
    <3>1. s \in ToSet(SitesOf[c])
      BY DEF ClassicSites
    <3>2. VpnSite[v] = s
      BY <2>2, <3>1, SiteIs, AccountAssumption DEF VpnSite
    <3> QED  BY <1>1, <3>1, <3>2 DEF ClassicSites, AllGot
  <2> QED  BY <2>1, <2>2 DEF Rows
<1>2. \A request : Rows(VpnsOf, ClassicSites(w, request, c))
                     \subseteq Rows(VpnsOf, ClassicSites({}, request, c))
  BY NoneIsAnswered DEF ClassicSites, AllAnswered, Rows
<1> QED  BY <1>1, <1>2 DEF ListedVpns, ClassicVpns

\* One VPN is the last of one.
LEMMA LastOfOne == \A api, c, v : LastOf(api, c, {v}) = v
  BY DEF LastOf

\* A VPN with a name of its own is joined to itself.
LEMMA JoinedToItself ==
  ASSUME NEW w, NEW c, NEW v \in ListedVpns(w, c), OwnName(c, v)
  PROVE  Joined(w, c, v) = {v} \cap ClassicVpns(w, c)
<1>1. \A u \in ListedVpns(w, c) \cup ClassicVpns(w, c) :
        u # v => ListedAs[u] # ListedAs[v] /\ KeptAs[u] # ListedAs[v]
  BY VpnsAtSites DEF OwnName
<1>2. {u \in ListedVpns(w, c) : ListedAs[u] = ListedAs[v]} = {v}
  BY <1>1
<1>3. {u \in ClassicVpns(w, c) : KeptAs[u] = ListedAs[v]} = {v} \cap ClassicVpns(w, c)
  BY <1>1 DEF OwnName
<1> QED  BY <1>2, <1>3, LastOfOne DEF Joined

\* Its row is the same in both readings if its site answered.
LEMMA VpnRows ==
  ASSUME NEW w, NEW c \in UConsoles, NEW y \in ConsoleVpns({}, c), OwnName(c, y.vpn),
         AllGot(w, {"servers", "tunnels", "networkconf"}, VpnSite[y.vpn])
  PROVE  y \in ConsoleVpns(w, c)
<1>1. CASE \E v \in ListedVpns({}, c) : y = ListedRow({}, c, v)
  <2>1. PICK v \in ListedVpns({}, c) : y = ListedRow({}, c, v)
    BY <1>1
  <2>2. y.vpn = v
    BY <2>1 DEF ListedRow
  <2>3. v \in ListedVpns(w, c) /\ (v \in ClassicVpns(w, c) <=> v \in ClassicVpns({}, c))
    BY <2>2, VpnListed
  <2>4. Joined(w, c, v) = Joined({}, c, v)
    BY <2>2, <2>3, JoinedToItself
  <2>5. ListedRow(w, c, v) = ListedRow({}, c, v)
    BY <2>4 DEF ListedRow
  <2> QED  BY <2>1, <2>3, <2>5 DEF ConsoleVpns
<1>2. CASE \E v \in ClassicVpns({}, c) :
             /\ \A x \in ListedVpns({}, c) : ListedAs[x] # KeptAs[v]
             /\ y = ClassicRow(v)
  <2>1. PICK v \in ClassicVpns({}, c) :
          /\ \A x \in ListedVpns({}, c) : ListedAs[x] # KeptAs[v]
          /\ y = ClassicRow(v)
    BY <1>2
  <2>2. y.vpn = v
    BY <2>1 DEF ClassicRow
  <2>3. v \in ClassicVpns(w, c) /\ ListedVpns(w, c) \subseteq ListedVpns({}, c)
    BY <2>2, VpnListed
  <2> QED  BY <2>1, <2>3 DEF ConsoleVpns
<1> QED  BY <1>1, <1>2 DEF ConsoleVpns

\* A name that the answers of a site gave is there, whoever has it.
LEMMA VpnNames ==
  ASSUME NEW w, NEW c \in UConsoles, NEW y \in ConsoleVpns({}, c),
         AllGot(w, {"servers", "tunnels", "networkconf"}, VpnSite[y.vpn])
  PROVE  \E z \in ConsoleVpns(w, c) : z.name = y.name
<1>1. CASE \E v \in ListedVpns({}, c) : y = ListedRow({}, c, v)
  <2>1. PICK v \in ListedVpns({}, c) : y = ListedRow({}, c, v)
    BY <1>1
  <2>2. y.vpn = v /\ y.name = ListedAs[v]
    BY <2>1 DEF ListedRow
  <2>3. v \in ListedVpns(w, c)
    BY <2>2, VpnListed
  <2>4. ListedRow(w, c, v) \in ConsoleVpns(w, c) /\ ListedRow(w, c, v).name = ListedAs[v]
    BY <2>3 DEF ConsoleVpns, ListedRow
  <2> QED  BY <2>2, <2>4
<1>2. CASE \E v \in ClassicVpns({}, c) :
             /\ \A x \in ListedVpns({}, c) : ListedAs[x] # KeptAs[v]
             /\ y = ClassicRow(v)
  <2>1. PICK v \in ClassicVpns({}, c) :
          /\ \A x \in ListedVpns({}, c) : ListedAs[x] # KeptAs[v]
          /\ y = ClassicRow(v)
    BY <1>2
  <2>2. y.vpn = v
    BY <2>1 DEF ClassicRow
  <2>3. v \in ClassicVpns(w, c) /\ ListedVpns(w, c) \subseteq ListedVpns({}, c)
    BY <2>2, VpnListed
  <2> QED  BY <2>1, <2>3 DEF ConsoleVpns
<1> QED  BY <1>1, <1>2 DEF ConsoleVpns

\* A VPN of a console is at one of its sites, and has one row there if its name is
\* its own.
LEMMA VpnIsAt ==
  ASSUME NEW w, NEW c, NEW y \in ConsoleVpns(w, c)
  PROVE  /\ \E s \in ToSet(SitesOf[c]) : y.vpn \in ToSet(VpnsOf[s])
         /\ \A z \in ConsoleVpns(w, c) : z.vpn = y.vpn /\ OwnName(c, y.vpn) => z = y
<1> DEFINE listed(x) == x.vpn \in ListedVpns(w, c) /\ x = ListedRow(w, c, x.vpn)
           classic(x) == /\ x.vpn \in ClassicVpns(w, c) /\ x = ClassicRow(x.vpn)
                         /\ \A v \in ListedVpns(w, c) : ListedAs[v] # KeptAs[x.vpn]
<1>1. /\ \A v : ListedRow(w, c, v).vpn = v
      /\ \A v : ClassicRow(v).vpn = v
  BY DEF ListedRow, ClassicRow
<1>2. \A x \in ConsoleVpns(w, c) : listed(x) \/ classic(x)
  BY <1>1 DEF ConsoleVpns
<1>3. \A x, z : OwnName(c, x.vpn) /\ z.vpn = x.vpn /\ listed(x) => ~classic(z)
  BY DEF OwnName
<1>4. \A x, z : z.vpn = x.vpn /\ listed(x) /\ listed(z) => z = x
  OBVIOUS
<1>5. \A x, z : z.vpn = x.vpn /\ classic(x) /\ classic(z) => z = x
  OBVIOUS
<1>6. \E s \in ToSet(SitesOf[c]) : y.vpn \in ToSet(VpnsOf[s])
  BY <1>2, VpnsAtSites
<1> HIDE DEF listed, classic
<1>7. ASSUME NEW z \in ConsoleVpns(w, c), z.vpn = y.vpn, OwnName(c, y.vpn)
      PROVE  z = y
  BY <1>2, <1>3, <1>4, <1>5, <1>7
<1> QED  BY <1>6, <1>7

\* A VPN with a name of its own is there once, and is there if its site answers;
\* so is every name.
LEMMA VpnsAreTrue ==
  ASSUME NEW w, NEW selected \in Selections
  PROVE  VpnsTrue(w, UnifiSnapshot(w, selected), UnifiSnapshot({}, selected))
<1> DEFINE snap == UnifiSnapshot(w, selected)
           fair == UnifiSnapshot({}, selected)
           rows(x, read) == UNION {{[console |-> c, row |-> y] : y \in ConsoleVpns(x, c)} : c \in read}
<1>1. snap.vpns = rows(w, snap.vpnsRead) /\ snap.vpnsRead \subseteq UConsoles
  <2>1. CASE ~snap.ok
    BY <2>1, UnreadIsEmpty DEF Nothing
  <2>2. CASE snap.ok
    <3>1. snap.vpnsRead \subseteq {Console[g] : g \in GearRead(w, selected)}
      BY <2>2, PartOf
    <3>2. snap.vpnsRead \subseteq Chosen(selected)
      BY <2>2, <3>1, ConsolesRead
    <3> QED  BY <2>2, <3>2, PartOf DEF Chosen, Selections
  <2> QED  BY <2>1, <2>2
<1>2. fair.vpns = rows({}, fair.vpnsRead)
  BY FairIsOk, PartOf
<1>3. fair.vpnsRead \subseteq UConsoles
  <2>1. fair.vpnsRead \subseteq {Console[g] : g \in GearRead({}, selected)}
    BY FairIsOk, PartOf
  <2>2. fair.vpnsRead \subseteq Chosen(selected)
    BY FairIsOk, <2>1, ConsolesRead
  <2> QED  BY <2>2 DEF Chosen, Selections
<1> HIDE DEF snap, fair
<1>4. ASSUME NEW f, NEW e, NEW v \in snap.vpns, NEW u \in snap.vpns, v.row.vpn = f,
             u.row.vpn = f, e \in UConsoles, OwnName(e, f),
             \E s \in ToSet(SitesOf[e]) : f \in ToSet(VpnsOf[s])
      PROVE  v = u
  <2>1. PICK c \in snap.vpnsRead : \E y \in ConsoleVpns(w, c) : v = [console |-> c, row |-> y]
    BY <1>1
  <2>2. PICK d \in snap.vpnsRead : \E z \in ConsoleVpns(w, d) : u = [console |-> d, row |-> z]
    BY <1>1
  <2>3. PICK y \in ConsoleVpns(w, c) : v = [console |-> c, row |-> y]
    BY <2>1
  <2>4. PICK z \in ConsoleVpns(w, d) : u = [console |-> d, row |-> z]
    BY <2>2
  <2>5. y.vpn = f /\ z.vpn = f
    BY <2>3, <2>4, <1>4
  <2>6. c = d /\ c = e
    <3>1. PICK s \in ToSet(SitesOf[c]) : f \in ToSet(VpnsOf[s])
      BY <2>3, <2>5, VpnIsAt
    <3>2. PICK t \in ToSet(SitesOf[d]) : f \in ToSet(VpnsOf[t])
      BY <2>4, <2>5, VpnIsAt
    <3>3. PICK r \in ToSet(SitesOf[e]) : f \in ToSet(VpnsOf[r])
      BY <1>4
    <3>4. c \in UConsoles /\ d \in UConsoles
      BY <1>1
    <3>5. Apart(VpnsOf, USites)
      BY AccountAssumption
    <3>6. c = d
      BY <3>1, <3>2, <3>4, <3>5, OneConsole
    <3>7. c = e
      BY <1>4, <3>1, <3>3, <3>4, <3>5, OneConsole
    <3> QED  BY <3>6, <3>7
  <2>7. y = z
    BY <1>4, <2>3, <2>4, <2>5, <2>6, VpnIsAt
  <2> QED  BY <2>3, <2>4, <2>6, <2>7
<1>5. ASSUME NEW f, NEW e \in UConsoles, OwnName(e, f),
             \E s \in ToSet(SitesOf[e]) : f \in ToSet(VpnsOf[s])
      PROVE  Cardinality({v \in snap.vpns : v.row.vpn = f}) < 2
  <2> DEFINE S == {v \in snap.vpns : v.row.vpn = f}
  <2>1. CASE S = {}
    BY <2>1, FS_EmptySet
  <2>2. CASE S # {}
    <3>1. PICK v \in S : TRUE
      BY <2>2
    <3>2. S = {v}
      BY <1>5, <3>1, <1>4
    <3>3. Cardinality(S) = 1
      BY <3>2, FS_Singleton
    <3> HIDE DEF S
    <3>4. Cardinality(S) < 2
      BY <3>3
    <3> QED  BY <3>4 DEF S
  <2> QED  BY <2>1, <2>2
<1>6. ASSUME NEW f \in fair.vpns
      PROVE  /\ f.console \in UConsoles
             /\ f.row \in ConsoleVpns({}, f.console)
             /\ f = [console |-> f.console, row |-> f.row]
             /\ \E s \in ToSet(SitesOf[f.console]) : f.row.vpn \in ToSet(VpnsOf[s])
  <2>1. PICK c \in fair.vpnsRead : \E y \in ConsoleVpns({}, c) : f = [console |-> c, row |-> y]
    BY <1>2
  <2>2. PICK y \in ConsoleVpns({}, c) : f = [console |-> c, row |-> y]
    BY <2>1
  <2>3. f.console = c /\ f.row = y
    BY <2>2
  <2>4. f = [console |-> f.console, row |-> f.row]
    BY <2>2, <2>3
  <2> QED  BY <2>2, <2>3, <2>4, <1>3, VpnIsAt
<1>7. ASSUME NEW f \in fair.vpns, OwnName(f.console, f.row.vpn)
      PROVE  Cardinality({v \in snap.vpns : v.row.vpn = f.row.vpn}) < 2
  BY <1>5, <1>6, <1>7
<1>8. \A c \in snap.vpnsRead : \A y \in ConsoleVpns(w, c) :
        [console |-> c, row |-> y] \in snap.vpns
  BY <1>1
<1>9. ASSUME NEW f \in fair.vpns, OwnName(f.console, f.row.vpn), f.console \in snap.vpnsRead,
             AllGot(w, {"servers", "tunnels", "networkconf"}, VpnSite[f.row.vpn])
      PROVE  f \in snap.vpns
  <2>1. f.row \in ConsoleVpns(w, f.console)
    BY <1>6, <1>9, VpnRows
  <2> QED  BY <2>1, <1>6, <1>8, <1>9
<1>10. ASSUME NEW f \in fair.vpns, f.console \in snap.vpnsRead,
              AllGot(w, {"servers", "tunnels", "networkconf"}, VpnSite[f.row.vpn])
       PROVE  \E v \in snap.vpns : v.console = f.console /\ v.row.name = f.row.name
  <2>1. PICK z \in ConsoleVpns(w, f.console) : z.name = f.row.name
    BY <1>6, <1>10, VpnNames
  <2>2. [console |-> f.console, row |-> z] \in snap.vpns
    BY <1>8, <1>10
  <2> QED  BY <2>1, <2>2
<1> QED  BY <1>7, <1>9, <1>10 DEF VpnsTrue, snap, fair

\* A UniFi reading that has been stored, of whatever account and whatever failed
\* on the way, agrees with the account wherever what it was made of was answered,
\* and names the consoles of its devices that did not answer.
THEOREM ReadingHonest == Spec => []ReadingIsHonest
<1>1. EveryReadingIsHonest
  <2> SUFFICES ASSUME NEW w \in Weathers, NEW selected \in Selections
               PROVE  LET snap == UnifiSnapshot(w, selected)
                          fair == UnifiSnapshot({}, selected)
                      IN /\ (\A f \in w : f[2] = "busy") => snap = fair
                         /\ DevicesStay(snap, fair) /\ ConsolesNamed(w, snap)
                         /\ DevicesTrue(w, snap, fair) /\ NetworksTrue(w, snap, fair)
                         /\ VpnsTrue(w, snap, fair)
    BY DEF EveryReadingIsHonest, FairSnapshot
  <2>1. (\A f \in w : f[2] = "busy") => UnifiSnapshot(w, selected) = UnifiSnapshot({}, selected)
    BY BusyIsAnswered, SameReading
  <2> QED  BY <2>1, DevicesAreKept, ConsolesAreNamed, DevicesAreTrue, NetworksAreTrue, VpnsAreTrue
<1>2. ReadingIsHonest
  BY <1>1 DEF ReadingIsHonest
<1> QED  BY <1>2, PTL

-----------------------------------------------------------------------------
(* What a reading of Microsoft 365 contains.                               *)

\* A set of numbers has a least one.
LEMMA Least ==
  ASSUME NEW S, S \subseteq Nat, S # {}
  PROVE  \E m \in S : \A n \in S : m <= n
<1> DEFINE R == {ss \in Nat \X Nat : ss[1] < ss[2]}
<1>1. IsWellFoundedOn(R, Nat)
  BY NatLessThanWellFounded DEF OpToRel
<1>2. \E x \in S : \A y \in S : ~ (<<y, x>> \in R)
  <2> HIDE DEF R
  <2> QED  BY <1>1, WFMin
<1>3. PICK m \in S : \A y \in S : ~ (<<y, m>> \in R)
  BY <1>2
<1>4. ASSUME NEW n \in S
      PROVE  m <= n
  <2>1. <<n, m>> \notin R  BY <1>3
  <2>2. n \in Nat /\ m \in Nat  OBVIOUS
  <2>3. ~ (n < m)  BY <2>1, <2>2
  <2> QED  BY <2>2, <2>3
<1> QED  BY <1>4

\* A list is worked off as far as its end, and to the end if all of it is
\* answered.
LEMMA WorkedOffIs ==
  ASSUME NEW n \in Nat, NEW answered
  PROVE  /\ WorkedOff(n, answered) \in 0 .. n
         /\ 1 .. n \subseteq answered => WorkedOff(n, answered) = n
<1> DEFINE K == {k \in 0 .. n : 1 .. k \subseteq answered}
           L == {n - k : k \in K}
<1>1. 0 \in K  OBVIOUS
<1>2. K \subseteq 0 .. n  OBVIOUS
<1>3. PICK m \in L : \A l \in L : m <= l
  <2>1. L \subseteq Nat /\ L # {}  BY <1>1, <1>2
  <2> HIDE DEF L
  <2> QED  BY <2>1, Least
<1>4. PICK top \in K : m = n - top
  OBVIOUS
<1>5. \A k \in K : top >= k
  <2> SUFFICES ASSUME NEW k \in K  PROVE top >= k
    OBVIOUS
  <2>1. n - k \in L  OBVIOUS
  <2>2. n - top <= n - k  BY <2>1, <1>3, <1>4
  <2> HIDE DEF K
  <2> QED  BY <2>2, <1>2
<1>6. Max(K) \in K /\ \A k \in K : Max(K) >= k
  <2> HIDE DEF K
  <2> QED  BY <1>5 DEF Max
<1>7. WorkedOff(n, answered) = Max(K)
  BY DEF WorkedOff
<1>8. ASSUME 1 .. n \subseteq answered
      PROVE  Max(K) = n
  <2> DEFINE far == Max(K)
  <2>1. n \in K  BY <1>8
  <2>2. far \in 0 .. n /\ far >= n  BY <2>1, <1>6, <1>2
  <2> HIDE DEF far
  <2> QED  BY <2>2 DEF far
<1> HIDE DEF K
<1> QED  BY <1>2, <1>6, <1>7, <1>8

\* In a reading without failures everything answers.
LEMMA AllAnswer == \A r : Answers({}, r) /\ ~Forbidden({}, r)
  BY DEF Answers, Forbidden

\* The lists of roles and groups.
LEMMA ListsRead ==
  ASSUME NEW w
  PROVE  /\ RolesRead(w) \in 0 .. Len(RoleHolders) /\ GroupsRead(w) \in 0 .. Len(Groups)
         /\ RolesRead({}) = Len(RoleHolders) /\ GroupsRead({}) = Len(Groups)
         /\ ~Failed(w, "roles") => RolesRead(w) = Len(RoleHolders)
         /\ ~Failed(w, "groups") => GroupsRead(w) = Len(Groups)
<1>1. /\ Len(RoleHolders) \in Nat /\ DOMAIN RoleHolders = 1 .. Len(RoleHolders)
      /\ Len(Groups) \in Nat /\ DOMAIN Groups = 1 .. Len(Groups)
  BY ListsAssumption
<1>2. ASSUME NEW x PROVE RolesRead(x) \in 0 .. Len(RoleHolders) /\ GroupsRead(x) \in 0 .. Len(Groups)
  <2>1. RolesRead(x) \in 0 .. Len(RoleHolders)
    BY <1>1, WorkedOffIs DEF RolesRead
  <2>2. GroupsRead(x) \in 0 .. Len(Groups)
    BY <1>1, WorkedOffIs DEF GroupsRead
  <2> QED  BY <2>1, <2>2
<1>3. RolesRead({}) = Len(RoleHolders)
  <2> DEFINE answered == {i \in DOMAIN RoleHolders : Answers({}, <<"holders", i>>)}
  <2>1. 1 .. Len(RoleHolders) \subseteq answered  BY <1>1, AllAnswer
  <2>2. RolesRead({}) = WorkedOff(Len(RoleHolders), answered)
    BY AllAnswer DEF RolesRead
  <2> HIDE DEF answered
  <2> QED  BY <1>1, <2>1, <2>2, WorkedOffIs
<1>4. GroupsRead({}) = Len(Groups)
  <2> DEFINE answered == {i \in DOMAIN Groups : \A r \in GroupRequests(i) : Answers({}, r)}
  <2>1. 1 .. Len(Groups) \subseteq answered  BY <1>1, AllAnswer
  <2>2. GroupsRead({}) = WorkedOff(Len(Groups), answered)
    BY AllAnswer DEF GroupsRead
  <2> HIDE DEF answered
  <2> QED  BY <1>1, <2>1, <2>2, WorkedOffIs
<1>5. ~Failed(w, "roles") => RolesRead(w) = Len(RoleHolders)
  <2>1. ~Failed(w, "roles") => ~(RolesRead(w) < Len(RoleHolders))
    BY DEF Failed
  <2> QED  BY <1>1, <1>2, <2>1
<1>6. ~Failed(w, "groups") => GroupsRead(w) = Len(Groups)
  <2>1. ~Failed(w, "groups") => ~(GroupsRead(w) < Len(Groups))
    BY DEF Failed
  <2> QED  BY <1>1, <1>2, <2>1
<1> QED  BY <1>2, <1>3, <1>4, <1>5, <1>6

\* Which parts there are.
LEMMA PartNames ==
  /\ AboutPeople \subseteq M365Parts
  /\ {"users", "mailboxes", "groups", "roles", "devices", "managers", "mfa"} \subseteq M365Parts
  /\ {"users", "mailboxes", "groups"} \cap AboutPeople = {}
  BY DEF M365Parts, AboutPeople, Single

\* Which parts of a reading without failures fail: none.
LEMMA NoneFails ==
  ASSUME NEW part \in M365Parts
  PROVE  ~Failed({}, part)
<1>1. ~(RolesRead({}) < Len(RoleHolders)) /\ ~(GroupsRead({}) < Len(Groups))
  <2>1. Len(RoleHolders) \in Nat /\ Len(Groups) \in Nat  BY ListsAssumption
  <2> QED  BY <2>1, ListsRead
<1>2. ~MailboxesForbidden({})
  BY AllAnswer DEF MailboxesForbidden
<1> QED  BY <1>1, <1>2, AllAnswer DEF Failed

\* A person is named by the id.
LEMMA PersonHasId == \A w, u : Person(w, u).id = u
  BY DEF Person

\* The people of a snapshot are the users that were read.
LEMMA IdsOf ==
  ASSUME NEW w
  PROVE  Ids({Person(w, u) : u \in UsersRead(w)}) = UsersRead(w)
  BY PersonHasId DEF Ids

\* The reading without failures.
LEMMA FairIs ==
  /\ FairReading.users = {Person({}, u) : u \in UsersRead({})}
  /\ FairReading.mailboxes =
       {Checked[i] : i \in {k \in MailboxesRead({}) : Purpose[Checked[k]] # "user"}}
  /\ Ids(FairReading.users) = UsersRead({})
  /\ \A u \in UsersRead({}) : InFairReading(u) = Person({}, u)
<1>1. FairReading.users = {Person({}, u) : u \in UsersRead({})}
  BY AllAnswer DEF FairReading, M365Snapshot
<1>2. FairReading.mailboxes =
        {Checked[i] : i \in {k \in MailboxesRead({}) : Purpose[Checked[k]] # "user"}}
  BY AllAnswer DEF FairReading, M365Snapshot
<1>3. Ids(FairReading.users) = UsersRead({})
  BY <1>1, IdsOf
<1>4. ASSUME NEW u \in UsersRead({})
      PROVE  InFairReading(u) = Person({}, u)
  <2>1. Person({}, u) \in FairReading.users  BY <1>1
  <2>2. \A p \in FairReading.users : p.id = u => p = Person({}, u)
    BY <1>1, PersonHasId
  <2> QED  BY <2>1, <2>2, PersonHasId DEF InFairReading
<1> QED  BY <1>1, <1>2, <1>3, <1>4

\* The reading with failures, if there is one.
LEMMA SnapshotIs ==
  ASSUME NEW w, M365Snapshot(w).ok
  PROVE  /\ M365Snapshot(w).problems = Problems(w)
         /\ M365Snapshot(w).users = {Person(w, u) : u \in UsersRead(w)}
         /\ M365Snapshot(w).mailboxes =
              {Checked[i] : i \in {k \in MailboxesRead(w) : Purpose[Checked[k]] # "user"}}
         /\ M365Snapshot(w).parts = {part \in M365Parts \ AboutPeople : ~Failed(w, part)}
<1>1. Answers(w, <<"token", 0>>)
  BY DEF M365Snapshot, Unread
<1> QED  BY <1>1 DEF M365Snapshot

\* A part that is given has not failed, and neither have the users.
LEMMA GivenIs ==
  ASSUME NEW w, NEW part \in M365Parts, Given(w, part),
         part \in AboutPeople => UsersRead(w) # {}
  PROVE  M365Snapshot(w).ok /\ ~Failed(w, part) /\ Answers(w, <<"users", 0>>)
<1>1. M365Snapshot(w).ok /\ part \notin Problems(w) /\ "users" \notin Problems(w)
  BY SnapshotIs DEF Given
<1>2. ~Failed(w, "users")
  BY <1>1, PartNames DEF Problems
<1>3. Answers(w, <<"users", 0>>)
  BY <1>2 DEF Failed, Single
<1> QED  BY <1>1, <1>3 DEF Problems

\* Every part is there or named.
LEMMA PartsAreAccounted ==
  ASSUME NEW w
  PROVE  PartsAccounted(w)
  BY SnapshotIs, PartNames DEF PartsAccounted, Problems

\* The candidates that are looked at differ, and have no licence.
LEMMA CheckedAre ==
  /\ \A i, j \in DOMAIN Checked : Checked[i] = Checked[j] => i = j
  /\ \A i \in DOMAIN Checked : Checked[i] \notin Licensed
<1> DEFINE n == Min({MaxMailboxChecks, Len(Candidates)})
<1>1. Len(Candidates) \in Nat /\ MaxMailboxChecks \in Nat
  BY CandidatesAssumption, ListsAssumption
<1>2. n \in 0 .. Len(Candidates)
  BY <1>1 DEF Min
<1> HIDE DEF n
<1>3. Checked = SubSeq(Candidates, 1, n)
  BY DEF Checked, n
<1>4. Candidates \in Seq(ToSet(Candidates))
  BY CandidatesAssumption
<1>5. Checked = [i \in 1 .. n |-> Candidates[i]]
  BY <1>1, <1>2, <1>3, <1>4
<1>6. \A i \in 1 .. n : i \in DOMAIN Candidates
  BY <1>1, <1>2, <1>4
<1>7. \A i \in DOMAIN Candidates : Candidates[i] \notin Licensed
  BY CandidatesAssumption DEF ToSet
<1>8. \A i, j \in DOMAIN Candidates : Candidates[i] = Candidates[j] => i = j
  BY CandidatesAssumption DEF IsInjective
<1> QED  BY <1>5, <1>6, <1>7, <1>8

\* Mailboxes are missing only where their own request failed.
LEMMA MailboxesAreComplete ==
  ASSUME NEW w
  PROVE  MailboxesComplete(w)
<1> DEFINE answered == {i \in DOMAIN Checked : Answers(w, <<"mailbox", i>>)}
           lost == {Checked[i] : i \in {k \in DOMAIN Checked : ~Answers(w, <<"mailbox", k>>)}}
<1> SUFFICES ASSUME Given(w, "mailboxes")
             PROVE  /\ M365Snapshot(w).mailboxes = FairReading.mailboxes \ lost
                    /\ Ids(M365Snapshot(w).users) = Ids(FairReading.users) \ lost
  BY DEF MailboxesComplete
<1>1. M365Snapshot(w).ok /\ Answers(w, <<"users", 0>>) /\ ~MailboxesForbidden(w)
  <2>1. M365Snapshot(w).ok /\ Answers(w, <<"users", 0>>) /\ ~Failed(w, "mailboxes")
    BY PartNames, GivenIs
  <2> QED  BY <2>1 DEF Failed
<1>2. MailboxesRead(w) = answered
  BY <1>1 DEF MailboxesRead
<1>3. MailboxesRead({}) = DOMAIN Checked /\ ~MailboxesForbidden({})
  BY AllAnswer DEF MailboxesRead, MailboxesForbidden
<1>4. \A i, j \in DOMAIN Checked : Checked[i] = Checked[j] => i = j
  BY CheckedAre
<1>5. \A i \in DOMAIN Checked : Checked[i] \notin Licensed
  BY CheckedAre
<1>6. \A i \in DOMAIN Checked : Checked[i] \in lost <=> i \notin answered
  BY <1>4
<1>7. M365Snapshot(w).mailboxes = FairReading.mailboxes \ lost
  <2>1. M365Snapshot(w).mailboxes =
          {Checked[i] : i \in {k \in answered : Purpose[Checked[k]] # "user"}}
    BY <1>1, <1>2, SnapshotIs
  <2>2. FairReading.mailboxes =
          {Checked[i] : i \in {k \in DOMAIN Checked : Purpose[Checked[k]] # "user"}}
    BY <1>3, FairIs
  <2>3. answered \subseteq DOMAIN Checked  OBVIOUS
  <2> HIDE DEF answered, lost
  <2> QED  BY <2>1, <2>2, <2>3, <1>6
<1>8. Ids(M365Snapshot(w).users) = Ids(FairReading.users) \ lost
  <2>1. Ids(M365Snapshot(w).users) = UsersRead(w)
    BY <1>1, SnapshotIs, IdsOf
  <2>2. UsersRead(w) = Licensed \cup {Checked[i] : i \in {k \in answered : Purpose[Checked[k]] = "user"}}
    BY <1>1, <1>2 DEF UsersRead
  <2>3. UsersRead({}) = Licensed \cup {Checked[i] : i \in {k \in DOMAIN Checked : Purpose[Checked[k]] = "user"}}
    BY <1>3, AllAnswer DEF UsersRead
  <2>4. answered \subseteq DOMAIN Checked /\ \A x \in lost : x \notin Licensed
    BY <1>5
  <2> HIDE DEF answered, lost
  <2> QED  BY <2>1, <2>2, <2>3, <2>4, <1>6, FairIs
<1> QED  BY <1>7, <1>8

\* What is said of a person is so, and complete where its part is not named.
LEMMA PeopleAreTrue ==
  ASSUME NEW w
  PROVE  PeopleTrue(w)
<1> SUFFICES ASSUME NEW u \in UsersRead(w), u \in UsersRead({}), M365Snapshot(w).ok
             PROVE  LET p == Person(w, u)
                        fair == Person({}, u)
                    IN /\ p.roles \subseteq fair.roles /\ p.groups \subseteq fair.groups
                       /\ Given(w, "roles") => p.roles = fair.roles
                       /\ Given(w, "groups") => p.groups = fair.groups
                       /\ Given(w, "devices") => p.devices = fair.devices
                       /\ Given(w, "managers") => p.manager
                       /\ Given(w, "mfa") => p.mfa
  <2>1. M365Snapshot(w).ok \/ M365Snapshot(w).users = {}
    BY DEF M365Snapshot, Unread
  <2> QED  BY <2>1, SnapshotIs, FairIs, PersonHasId DEF PeopleTrue
<1>1. \A part \in M365Parts : Given(w, part) => ~Failed(w, part)
  BY GivenIs
<1>2. /\ Given(w, "roles") => RolesRead(w) = Len(RoleHolders)
      /\ Given(w, "groups") => GroupsRead(w) = Len(Groups)
      /\ \A part \in {"devices", "managers", "mfa"} : Given(w, part) => ~Failed(w, part)
  BY <1>1, PartNames, ListsRead
<1>3. /\ 1 .. RolesRead(w) \subseteq 1 .. RolesRead({})
      /\ 1 .. GroupsRead(w) \subseteq 1 .. GroupsRead({})
  <2>1. Len(RoleHolders) \in Nat /\ Len(Groups) \in Nat  BY ListsAssumption
  <2> QED  BY <2>1, ListsRead
<1>4. ~Failed({}, "devices")
  BY PartNames, NoneFails
<1>5. \A x : /\ Person(x, u).roles = {i \in 1 .. RolesRead(x) : u \in RoleHolders[i]}
             /\ Person(x, u).groups = {i \in 1 .. GroupsRead(x) : i \in Listed /\ u \in Groups[i].members}
             /\ Person(x, u).devices = (~Failed(x, "devices") /\ u \in Laptop)
             /\ Person(x, u).manager = ~Failed(x, "managers")
             /\ Person(x, u).mfa = ~Failed(x, "mfa")
  BY DEF Person
<1>6. RolesRead({}) = Len(RoleHolders) /\ GroupsRead({}) = Len(Groups)
  BY ListsRead
<1>7. Person(w, u).roles \subseteq Person({}, u).roles /\ Person(w, u).groups \subseteq Person({}, u).groups
  BY <1>3, <1>5
<1>8. /\ Given(w, "roles") => Person(w, u).roles = Person({}, u).roles
      /\ Given(w, "groups") => Person(w, u).groups = Person({}, u).groups
  BY <1>2, <1>5, <1>6
<1>9. /\ Given(w, "devices") => Person(w, u).devices = Person({}, u).devices
      /\ Given(w, "managers") => Person(w, u).manager
      /\ Given(w, "mfa") => Person(w, u).mfa
  BY <1>2, <1>4, <1>5
<1> QED  BY <1>7, <1>8, <1>9

\* The users with a licence are there if the users were read.
LEMMA LicensedAreListed ==
  ASSUME NEW w
  PROVE  LicensedListed(w)
<1> SUFFICES ASSUME Given(w, "users")  PROVE Licensed \subseteq Ids(M365Snapshot(w).users)
  BY DEF LicensedListed
<1>1. M365Snapshot(w).ok /\ Answers(w, <<"users", 0>>)
  BY PartNames, GivenIs
<1>2. Ids(M365Snapshot(w).users) = UsersRead(w)
  BY <1>1, SnapshotIs, IdsOf
<1> QED  BY <1>1, <1>2 DEF UsersRead

\* A reading of Microsoft 365 that has been stored, of whatever tenant and
\* whatever failed on the way, is complete and true but for what it names.
THEOREM PartsNamed == Spec => []PartsAreNamed
<1>1. EveryPartIsNamed
  BY PartsAreAccounted, MailboxesAreComplete, PeopleAreTrue, LicensedAreListed DEF EveryPartIsNamed
<1>2. PartsAreNamed
  BY <1>1 DEF PartsAreNamed
<1> QED  BY <1>2, PTL
=============================================================================
