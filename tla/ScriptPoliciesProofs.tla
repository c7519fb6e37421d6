------------------------ MODULE ScriptPoliciesProofs ------------------------
(***************************************************************************)
(* What holds of the executions of jobs and policies for any entries, any  *)
(* devices and any number of requests under way: the types of the          *)
(* variables, and that an execution is told once, in the history of script *)
(* runs and to the readers of the mails.                                   *)
(***************************************************************************)
EXTENDS ScriptPolicies, FiniteSetTheorems, TLAPS

Item == [of : Entries, was : Row]

\* The runners that wait for a script on d.
Busy(d) == {k \in Runners : task[k] # None /\ task[k].at = d}

\* An execution is at a device exactly while a script runs for it.
StepsFit ==
  \A k \in Runners : task[k] # None =>
    (task[k].at # None <=> task[k].step \in {"script", "fix"})

\* Every run that an execution waits for has a row that says 'running'; a
\* restart of the server may leave more of these rows, nothing else does.
RowsCover ==
  \A d \in Devices :
    /\ running[d] >= Cardinality(Busy(d))
    /\ faults = 0 => running[d] = Cardinality(Busy(d))

RunsInv == TypeOK /\ StepsFit /\ RowsCover

-----------------------------------------------------------------------------
(* Lemmas.                                                                 *)

\* A row and an execution are something.
LEMMA RecordsAreSomething ==
  /\ \A x \in Row : x # None
  /\ \A x \in Task : x # None
  /\ \A d \in Devices : d # None
BY NoneIsNoRecord

LEMMA BusyFinite ==
  ASSUME NEW d
  PROVE  IsFiniteSet(Busy(d)) /\ Cardinality(Busy(d)) \in Nat
<1>1. IsFiniteSet(Runners)
  BY FiniteAssumption, FS_AddElement DEF Runners
<1>2. Busy(d) \in SUBSET Runners  BY DEF Busy
<1>3. IsFiniteSet(Busy(d))  BY <1>1, <1>2, FS_Subset
<1> QED  BY <1>3, FS_CardinalityType

\* The execution of k becomes x, and the others stay as they are.
Becomes(k, x) ==
  /\ task' \in [Runners -> Task \cup {None}]
  /\ task'[k] = x
  /\ \A m \in Runners \ {k} : task'[m] = task[m]

\* The devices on which executions wait, when k's execution changes.
LEMMA BusyWhenOneChanges ==
  ASSUME NEW k \in Runners, NEW x, Becomes(k, x), NEW d
  PROVE  /\ x # None /\ x.at = d =>
              Busy(d)' = Busy(d) \cup {k}
         /\ ~(x # None /\ x.at = d) =>
              Busy(d)' = Busy(d) \ {k}
BY DEF Becomes, Busy

LEMMA BusyCounts ==
  ASSUME NEW k \in Runners, NEW x, Becomes(k, x), NEW d
  PROVE  Cardinality(Busy(d)') =
           IF x # None /\ x.at = d
             THEN IF k \in Busy(d) THEN Cardinality(Busy(d)) ELSE Cardinality(Busy(d)) + 1
             ELSE IF k \in Busy(d) THEN Cardinality(Busy(d)) - 1 ELSE Cardinality(Busy(d))
<1>1. IsFiniteSet(Busy(d))  BY BusyFinite
<1>2. CASE x # None /\ x.at = d
  <2>1. Busy(d)' = Busy(d) \cup {k}  BY <1>2, BusyWhenOneChanges
  <2> QED  BY <1>1, <1>2, <2>1, FS_AddElement
<1>3. CASE ~(x # None /\ x.at = d)
  <2>1. Busy(d)' = Busy(d) \ {k}  BY <1>3, BusyWhenOneChanges
  <2> QED  BY <1>1, <1>3, <2>1, FS_RemoveElement
<1> QED  BY <1>2, <1>3

\* An execution of e, begun with the row that was read.
LEMMA BegunTask ==
  ASSUME TypeOK, NEW k \in Runners, NEW e \in Entries, NEW was \in Row,
         Begun(k, e, was)
  PROVE  \E x \in Task :
           /\ Becomes(k, x)
           /\ x.of = e /\ x.was = was /\ x.at = None /\ x.step = "idle"
           /\ x.result = "error" => e \notin scripts
<1> DEFINE x == [of |-> e, was |-> was, at |-> None,
                 left |-> IF e \in scripts THEN online ELSE {},
                 step |-> "idle",
                 result |-> IF e \in scripts \/ e \in Jobs THEN "ok" ELSE "error"]
<1>1. x \in Task  BY DEF Task, TypeOK, Statuses
<1>2. task' = [task EXCEPT ![k] = x]  BY DEF Begun
<1>3. Becomes(k, x)  BY <1>1, <1>2 DEF Becomes, TypeOK
<1>4. /\ x.of = e /\ x.was = was /\ x.at = None /\ x.step = "idle"
      /\ x.result = "error" => e \notin scripts
  OBVIOUS
<1> QED  BY <1>1, <1>3, <1>4

\* A script begins on a device.
LEMMA StartRunTask ==
  ASSUME TypeOK, NEW k \in Runners, NEW d \in Devices, StartRun(k, d)
  PROVE  \E x \in Task :
           /\ Becomes(k, x)
           /\ x.of = task[k].of /\ x.was = task[k].was /\ x.result = task[k].result
           /\ x.at = d /\ x.step = "script"
<1> DEFINE x == [task[k] EXCEPT !.left = @ \ {d}, !.at = d, !.step = "script"]
<1>1. task[k] \in Task  BY DEF StartRun, At, TypeOK
<1>2. x \in Task  BY <1>1 DEF Task
<1>3. task' = [task EXCEPT ![k] = x]  BY <1>1 DEF StartRun, TypeOK
<1>4. Becomes(k, x)  BY <1>2, <1>3 DEF Becomes, TypeOK
<1>5. /\ x.of = task[k].of /\ x.was = task[k].was /\ x.result = task[k].result
      /\ x.at = d /\ x.step = "script"
  BY <1>1 DEF Task
<1> QED  BY <1>2, <1>4, <1>5

Outcomes == {"ok", "failed", "raised"}

\* A script ends; its remediation may follow on the same device.
LEMMA EndRunTask ==
  ASSUME TypeOK, NEW k \in Runners, NEW outcome \in Outcomes, EndRun(k, outcome)
  PROVE  \E x \in Task :
           /\ Becomes(k, x)
           /\ x.of = task[k].of /\ x.was = task[k].was
           /\ x.result = Result(k, outcome)
           /\ IF outcome = "failed" /\ task[k].of \in Remediated
                THEN x.step = "fix" /\ x.at = task[k].at
                ELSE x.step = "idle" /\ x.at = None
<1> DEFINE fix == outcome = "failed" /\ task[k].of \in Remediated
           x == [task[k] EXCEPT !.result = Result(k, outcome),
                                !.step = IF fix THEN "fix" ELSE "idle",
                                !.at = IF fix THEN @ ELSE None]
<1>1. task[k] \in Task  BY DEF EndRun, At, TypeOK
<1>2. Result(k, outcome) \in Statuses  BY <1>1 DEF Result, Task, Statuses
<1>3. x \in Task  BY <1>1, <1>2 DEF Task
<1>4. task' = [task EXCEPT ![k] = x]  BY <1>1 DEF EndRun, TypeOK
<1>5. Becomes(k, x)  BY <1>3, <1>4 DEF Becomes, TypeOK
<1>6. /\ x.of = task[k].of /\ x.was = task[k].was
      /\ x.result = Result(k, outcome)
      /\ IF fix THEN x.step = "fix" /\ x.at = task[k].at
                ELSE x.step = "idle" /\ x.at = None
  BY <1>1 DEF Task
<1> QED  BY <1>3, <1>5, <1>6

LEMMA EndFixTask ==
  ASSUME TypeOK, NEW k \in Runners, NEW outcome \in Outcomes, EndFix(k, outcome)
  PROVE  \E x \in Task :
           /\ Becomes(k, x)
           /\ x.of = task[k].of /\ x.was = task[k].was /\ x.result = task[k].result
           /\ x.at = None /\ x.step = "idle"
<1> DEFINE x == [task[k] EXCEPT !.step = "idle", !.at = None]
<1>1. task[k] \in Task  BY DEF EndFix, At, TypeOK
<1>2. x \in Task  BY <1>1 DEF Task
<1>3. task' = [task EXCEPT ![k] = x]  BY <1>1 DEF EndFix, TypeOK
<1>4. Becomes(k, x)  BY <1>2, <1>3 DEF Becomes, TypeOK
<1>5. /\ x.of = task[k].of /\ x.was = task[k].was /\ x.result = task[k].result
      /\ x.at = None /\ x.step = "idle"
  BY <1>1 DEF Task
<1> QED  BY <1>2, <1>4, <1>5

LEMMA NotifyTask ==
  ASSUME TypeOK, NEW k \in Runners, Notify(k)
  PROVE  \E x \in Task :
           /\ Becomes(k, x)
           /\ x.of = task[k].of /\ x.was = task[k].was /\ x.result = task[k].result
           /\ x.at = task[k].at /\ x.step = "mark"
<1> DEFINE x == [task[k] EXCEPT !.step = "mark"]
<1>1. task[k] \in Task  BY DEF Notify, At, TypeOK
<1>2. x \in Task  BY <1>1 DEF Task
<1>3. task' = [task EXCEPT ![k] = x]  BY <1>1 DEF Notify, TypeOK
<1>4. Becomes(k, x)  BY <1>2, <1>3 DEF Becomes, TypeOK
<1>5. /\ x.of = task[k].of /\ x.was = task[k].was /\ x.result = task[k].result
      /\ x.at = task[k].at /\ x.step = "mark"
  BY <1>1 DEF Task
<1> QED  BY <1>2, <1>4, <1>5

LEMMA MarkTask ==
  ASSUME TypeOK, NEW k \in Runners, Mark(k)
  PROVE  Becomes(k, None)
BY DEF Mark, Becomes, TypeOK

\* Marking, switching and editing write a row that is there and keep it one.
LEMMA EntryWritten ==
  ASSUME TypeOK, NEW e \in Entries, entry[e] # None, NEW row \in Row
  PROVE  /\ [entry EXCEPT ![e] = row] \in [Entries -> Row \cup {None}]
         /\ \A f \in Entries \ {e} : [entry EXCEPT ![e] = row][f] = entry[f]
         /\ [entry EXCEPT ![e] = row][e] = row
         /\ row # None
BY RecordsAreSomething DEF TypeOK

-----------------------------------------------------------------------------
(* The rows of script runs.                                                *)

\* Whether an execution waits on d: what it has in the rows of d.
On(x, d) == IF x # None /\ x.at = d THEN 1 ELSE 0

\* One execution changes, and the rows by as much.
RowsMoveAlong(k, x) ==
  running' = [d \in Devices |-> running[d] + On(x, d) - On(task[k], d)]

LEMMA RowsKept ==
  ASSUME RunsInv, NEW k \in Runners, NEW x \in Task \cup {None}, Becomes(k, x),
         x # None => (x.at # None <=> x.step \in {"script", "fix"}),
         RowsMoveAlong(k, x), faults' = faults
  PROVE  running' \in [Devices -> Nat] /\ StepsFit' /\ RowsCover'
<1>1. StepsFit'
  BY DEF RunsInv, StepsFit, Becomes
<1>2. ASSUME NEW d \in Devices
      PROVE  /\ running'[d] \in Nat
             /\ running'[d] >= Cardinality(Busy(d)')
             /\ faults' = 0 => running'[d] = Cardinality(Busy(d)')
  <2>1. running'[d] = running[d] + On(x, d) - On(task[k], d)
    BY DEF RowsMoveAlong
  <2>2. k \in Busy(d) <=> task[k] # None /\ task[k].at = d  BY DEF Busy
  <2>3. IsFiniteSet(Busy(d)) /\ Cardinality(Busy(d)) \in Nat  BY BusyFinite
  <2>4. k \in Busy(d) => Cardinality(Busy(d)) >= 1
    <3>1. k \in Busy(d) => Cardinality(Busy(d)) # 0  BY <2>3, FS_EmptySet
    <3> QED  BY <2>3, <3>1
  <2>5. Cardinality(Busy(d)') = Cardinality(Busy(d)) + On(x, d) - On(task[k], d)
    BY <2>2, <2>3, BusyCounts DEF On
  <2>6. /\ running[d] \in Nat
        /\ running[d] >= Cardinality(Busy(d))
        /\ faults = 0 => running[d] = Cardinality(Busy(d))
    BY DEF RunsInv, TypeOK, RowsCover
  <2>7. On(x, d) \in {0, 1} /\ On(task[k], d) \in {0, 1}
        /\ (On(task[k], d) = 1 => Cardinality(Busy(d)) >= 1)
    BY <2>2, <2>4 DEF On
  <2> QED  BY <2>1, <2>3, <2>5, <2>6, <2>7
<1>3. running' \in [Devices -> Nat]  BY <1>2 DEF RowsMoveAlong
<1> QED  BY <1>1, <1>2, <1>3 DEF RowsCover

\* An execution that is not at a device has nothing in the rows.
LEMMA NotOn ==
  ASSUME NEW x, x = None \/ x.at = None, NEW d \in Devices
  PROVE  On(x, d) = 0
BY RecordsAreSomething DEF On

\* An execution that starts, ends or goes on without a script leaves the rows.
LEMMA RowsStay ==
  ASSUME RunsInv, NEW k \in Runners, NEW x \in Task \cup {None}, Becomes(k, x),
         x = None \/ (x.at = None /\ x.step \notin {"script", "fix"}),
         task[k] = None \/ task[k].at = None,
         running' = running, faults' = faults
  PROVE  running' \in [Devices -> Nat] /\ StepsFit' /\ RowsCover'
<1>1. \A d \in Devices : On(x, d) = 0 /\ On(task[k], d) = 0  BY NotOn
<1>2. running \in [Devices -> Nat]  BY DEF RunsInv, TypeOK
<1>3. RowsMoveAlong(k, x)  BY <1>1, <1>2 DEF RowsMoveAlong
<1> QED  BY <1>3, RowsKept

\* The same when no execution changes.
LEMMA RowsFrame ==
  ASSUME RunsInv, task' = task, running' = running, faults' = faults
  PROVE  StepsFit' /\ RowsCover'
BY DEF RunsInv, StepsFit, RowsCover, Busy

\* What an execution does by itself.
LEMMA RunsExecute ==
  ASSUME RunsInv, NEW k \in Runners, Execute(k)
  PROVE  /\ task' \in [Runners -> Task \cup {None}]
         /\ running' \in [Devices -> Nat] /\ StepsFit' /\ RowsCover'
<1> USE DEF bounds, database
<1>0. TypeOK /\ StepsFit /\ running \in [Devices -> Nat]
      /\ task \in [Runners -> Task \cup {None}]
  BY DEF RunsInv, TypeOK
<1>1. ASSUME NEW d \in Devices, StartRun(k, d)
      PROVE  task' \in [Runners -> Task \cup {None}]
             /\ running' \in [Devices -> Nat] /\ StepsFit' /\ RowsCover'
  <2>1. PICK x \in Task : Becomes(k, x) /\ x.at = d /\ x.step = "script"
    BY <1>0, <1>1, StartRunTask
  <2>2. x # None /\ d # None  BY RecordsAreSomething
  <2>3. task[k].at = None  BY <1>0, <1>1 DEF StartRun, At, StepsFit
  <2>4. running' = [running EXCEPT ![d] = @ + 1] /\ faults' = faults
    BY <1>1 DEF StartRun
  <2>5. \A c \in Devices : /\ On(task[k], c) = 0
                           /\ On(x, c) = IF c = d THEN 1 ELSE 0
    BY <2>1, <2>2, <2>3, NotOn DEF On
  <2>6. \A c \in Devices : running'[c] = running[c] + On(x, c) - On(task[k], c)
    BY <1>0, <2>4, <2>5
  <2>7. running' = [c \in Devices |-> running'[c]]  BY <1>0, <2>4
  <2>8. RowsMoveAlong(k, x)  BY <2>6, <2>7 DEF RowsMoveAlong
  <2> QED  BY <2>1, <2>2, <2>4, <2>8, RowsKept DEF Becomes
<1>2. ASSUME NEW outcome \in Outcomes, EndRun(k, outcome)
      PROVE  task' \in [Runners -> Task \cup {None}]
             /\ running' \in [Devices -> Nat] /\ StepsFit' /\ RowsCover'
  <2> DEFINE fix == outcome = "failed" /\ task[k].of \in Remediated
             d == task[k].at
  <2>1. PICK x \in Task :
           /\ Becomes(k, x)
           /\ IF fix THEN x.step = "fix" /\ x.at = d ELSE x.step = "idle" /\ x.at = None
    BY <1>0, <1>2, EndRunTask
  <2>2. x # None  BY RecordsAreSomething
  <2>3. /\ task[k] # None /\ task[k] \in Task /\ d # None /\ faults' = faults
        /\ running' = [running EXCEPT ![d] = Closed(d, outcome) + (IF fix THEN 1 ELSE 0)]
    BY <1>0, <1>2 DEF EndRun, At, StepsFit
  <2>4. d \in Devices  BY <2>3 DEF Task
  <2>5. \A c \in Devices : /\ On(task[k], c) = IF c = d THEN 1 ELSE 0
                           /\ On(x, c) = IF fix /\ c = d THEN 1 ELSE 0
    BY <2>1, <2>2, <2>3, NotOn DEF On
  <2> HIDE DEF fix, d
  <2>6. \A c \in Devices : running'[c] = running[c] + On(x, c) - On(task[k], c)
    BY <1>0, <2>3, <2>4, <2>5 DEF Closed
  <2>7. running' = [c \in Devices |-> running'[c]]  BY <1>0, <2>3
  <2>8. RowsMoveAlong(k, x)  BY <2>6, <2>7 DEF RowsMoveAlong
  <2> USE DEF d
  <2> QED  BY <2>1, <2>2, <2>3, <2>8, RowsKept DEF Becomes
<1>3. ASSUME NEW outcome \in Outcomes, EndFix(k, outcome)
      PROVE  task' \in [Runners -> Task \cup {None}]
             /\ running' \in [Devices -> Nat] /\ StepsFit' /\ RowsCover'
  <2> DEFINE d == task[k].at
  <2>1. PICK x \in Task : Becomes(k, x) /\ x.at = None /\ x.step = "idle"
    BY <1>0, <1>3, EndFixTask
  <2>2. /\ task[k] # None /\ task[k] \in Task /\ d # None /\ faults' = faults
        /\ running' = [running EXCEPT ![d] = Closed(d, outcome)]
    BY <1>0, <1>3 DEF EndFix, At, StepsFit
  <2>3. d \in Devices  BY <2>2 DEF Task
  <2>4. \A c \in Devices : /\ On(task[k], c) = IF c = d THEN 1 ELSE 0
                           /\ On(x, c) = 0
    BY <2>1, <2>2, NotOn DEF On
  <2> HIDE DEF d
  <2>5. \A c \in Devices : running'[c] = running[c] + On(x, c) - On(task[k], c)
    BY <1>0, <2>2, <2>3, <2>4 DEF Closed
  <2>6. running' = [c \in Devices |-> running'[c]]  BY <1>0, <2>2
  <2>7. RowsMoveAlong(k, x)  BY <2>5, <2>6 DEF RowsMoveAlong
  <2> QED  BY <2>1, <2>2, <2>7, RowsKept DEF Becomes
<1>4. CASE Notify(k)
  <2>1. PICK x \in Task : Becomes(k, x) /\ x.at = task[k].at /\ x.step = "mark"
    BY <1>0, <1>4, NotifyTask
  <2>2. task[k].at = None /\ running' = running /\ faults' = faults
    BY <1>0, <1>4 DEF Notify, At, StepsFit
  <2> QED  BY <2>1, <2>2, RowsStay DEF Becomes
<1>5. CASE Mark(k)
  <2>1. Becomes(k, None)  BY <1>0, <1>5, MarkTask
  <2>2. task[k].at = None /\ running' = running /\ faults' = faults
    BY <1>0, <1>5 DEF Mark, At, StepsFit
  <2> QED  BY <2>1, <2>2, RowsStay DEF Becomes
<1> QED  BY <1>1, <1>2, <1>3, <1>4, <1>5 DEF Execute, Outcomes

\* A runner without an execution begins one.
LEMMA RunsBegin ==
  ASSUME RunsInv, NEW k \in Runners, NEW e \in Entries, NEW was \in Row,
         Begun(k, e, was), task[k] = None, running' = running, faults' = faults
  PROVE  /\ task' \in [Runners -> Task \cup {None}]
         /\ running' \in [Devices -> Nat] /\ StepsFit' /\ RowsCover'
<1>1. TypeOK  BY DEF RunsInv
<1>2. PICK x \in Task : Becomes(k, x) /\ x.at = None /\ x.step = "idle"
  BY <1>1, BegunTask
<1> QED  BY <1>2, RowsStay DEF Becomes

-----------------------------------------------------------------------------
(* The database and the loop.                                              *)

\* What a row may hold as its status.
StoredStatuses == Statuses \cup {None}

\* The entries after a step of an administrator or of the clock: one is gone,
\* or has other times and the same status; the rest are as they were.
Edits(e) ==
  /\ entry' \in [Entries -> Row \cup {None}]
  /\ \A f \in Entries : f # e => entry'[f] = entry[f]
  /\ entry'[e] # None => entry[e] # None /\ entry'[e].status = entry[e].status

LEMMA AdministratorEdits ==
  ASSUME TypeOK, NEW e \in Entries,
         \/ Toggle(e) \/ Delete(e) \/ DeleteScript(e) \/ UpdatePolicy(e)
         \/ BecomesDue(e)
  PROVE  Edits(e)
<1>0. entry \in [Entries -> Row \cup {None}]  BY DEF TypeOK
<1>1. CASE Toggle(e)
  <2> DEFINE row == [entry[e] EXCEPT !.on = ~@, !.due = FALSE]
  <2>1. entry[e] \in Row /\ entry[e].on \in BOOLEAN  BY <1>0, <1>1 DEF Toggle, Row
  <2>2. row \in Row /\ row.status = entry[e].status  BY <2>1 DEF Row
  <2>3. entry' = [entry EXCEPT ![e] = row]  BY <1>0, <1>1 DEF Toggle
  <2> HIDE DEF row
  <2> QED  BY <1>0, <1>1, <2>2, <2>3 DEF Edits, Toggle
<1>2. CASE Delete(e)
  BY <1>0, <1>2 DEF Delete, Edits
<1>3. CASE DeleteScript(e)
  BY <1>0, <1>3 DEF DeleteScript, Edits
<1>4. CASE UpdatePolicy(e)
  <2> DEFINE row == [entry[e] EXCEPT !.due = @ /\ ~entry[e].on]
  <2>1. entry[e] \in Row /\ entry[e].on \in BOOLEAN /\ entry[e].due \in BOOLEAN
    BY <1>0, <1>4 DEF UpdatePolicy, Row
  <2>2. row \in Row /\ row.status = entry[e].status  BY <2>1 DEF Row
  <2>3. entry' = [entry EXCEPT ![e] = row]  BY <1>0, <1>4 DEF UpdatePolicy
  <2> HIDE DEF row
  <2> QED  BY <1>0, <1>4, <2>2, <2>3 DEF Edits, UpdatePolicy
<1>5. CASE BecomesDue(e)
  <2> DEFINE row == [entry[e] EXCEPT !.due = TRUE]
  <2>1. entry[e] \in Row  BY <1>0, <1>5 DEF BecomesDue
  <2>2. row \in Row /\ row.status = entry[e].status  BY <2>1 DEF Row
  <2>3. entry' = [entry EXCEPT ![e] = row]  BY <1>0, <1>5 DEF BecomesDue
  <2> HIDE DEF row
  <2> QED  BY <1>0, <1>5, <2>2, <2>3 DEF Edits, BecomesDue
<1> QED  BY <1>1, <1>2, <1>3, <1>4, <1>5

\* The entries after an execution has been marked.
LEMMA MarkEdits ==
  ASSUME TypeOK, NEW k \in Runners, Mark(k)
  PROVE  LET e == task[k].of IN
         /\ e \in Entries
         /\ entry' \in [Entries -> Row \cup {None}]
         /\ \A f \in Entries : f # e => entry'[f] = entry[f]
         /\ entry[e] = None <=> entry'[e] = None
         /\ e \in Policies /\ entry[e] # None => entry'[e].status = task[k].result
<1> DEFINE e == task[k].of
           status == IF e \in Policies THEN task[k].result ELSE entry[e].status
           row == [entry[e] EXCEPT !.due = NextDue(k), !.status = status]
<1>0. entry \in [Entries -> Row \cup {None}]  BY DEF TypeOK
<1>1. task[k] \in Task  BY DEF Mark, At, TypeOK
<1>2. e \in Entries /\ NextDue(k) \in BOOLEAN /\ task[k].result \in Statuses
  BY <1>1 DEF Task, NextDue, Row
<1>3. CASE entry[e] = None \/ (k # Loop /\ e \in Jobs)
  <2>1. entry' = entry  BY <1>3 DEF Mark
  <2> QED  BY <1>0, <1>2, <1>3, <2>1, EntriesAssumption
<1>4. CASE ~(entry[e] = None \/ (k # Loop /\ e \in Jobs))
  <2>1. entry[e] \in Row  BY <1>0, <1>2, <1>4
  <2>2. row \in Row /\ (e \in Policies => row.status = task[k].result)
    <3>1. NextDue(k) \in BOOLEAN  BY <1>2
    <3>2. entry[e].status \in StoredStatuses  BY <2>1 DEF Row, StoredStatuses
    <3>3. status \in StoredStatuses  BY <1>2, <3>2 DEF StoredStatuses
    <3>4. e \in Policies => status = task[k].result  OBVIOUS
    <3> HIDE DEF status, e
    <3>5. row \in Row  BY <2>1, <3>1, <3>3 DEF Row, StoredStatuses
    <3>6. row.status = status  BY <2>1 DEF Row
    <3> QED  BY <3>4, <3>5, <3>6
  <2>3. entry' = [entry EXCEPT ![e] = row]  BY <1>0, <1>4 DEF Mark
  <2>4. row # None  BY <2>2, RecordsAreSomething
  <2> HIDE DEF row, e
  <2> QED  BY <1>0, <1>2, <1>4, <2>2, <2>3, <2>4 DEF e
<1> QED  BY <1>3, <1>4

\* What the loop fetches: one item for each entry, with its row.
LEMMA FetchedItems ==
  ASSUME TypeOK, NEW es \in SUBSET Entries
  PROVE  /\ Fetched(es) \subseteq Item
         /\ \A i \in Fetched(es) : i.of \in es /\ i.was = entry[i.of]
BY DEF Fetched, Due, Item, TypeOK

\* Nothing but a restart counts as a fault.
LEMMA FaultsCounted ==
  ASSUME TypeOK, Next
  PROVE  \/ faults' = faults /\ ~Restart
         \/ Restart /\ faults' # 0
<1>1. CASE Restart  BY <1>1 DEF Restart, TypeOK
<1>2. CASE ~Restart
  BY <1>2, ZenonT(60) DEF Next, LoopStep, Execute, StartRun, EndRun, EndFix, Notify, Mark, Fetch,
     LoopBegins, RunNow, Toggle, Delete, DeleteScript, UpdatePolicy, BecomesDue,
     Connection, Move, bounds
<1> QED  BY <1>1, <1>2

LEMMA TypesExecute ==
  ASSUME RunsInv, NEW k \in Runners, Execute(k)
  PROVE  RunsInv'
<1>0. /\ TypeOK /\ task' \in [Runners -> Task \cup {None}]
      /\ running' \in [Devices -> Nat] /\ StepsFit' /\ RowsCover'
  BY RunsExecute DEF RunsInv
<1>1. UNCHANGED <<scripts, online, stage, list, spoilt, bounds>>
  BY DEF Execute, StartRun, EndRun, EndFix, Notify, Mark, database
<1>2. entry' = entry \/ Mark(k)
  BY DEF Execute, StartRun, EndRun, EndFix, Notify, database
<1>3. entry' \in [Entries -> Row \cup {None}]
  BY <1>0, <1>2, MarkEdits DEF TypeOK
<1>4. told' = told \/ Notify(k)
  BY DEF Execute, StartRun, EndRun, EndFix, Mark
<1>5. told' \in [Policies -> {"ok", "alert"}]
  <2>1. told \in [Policies -> {"ok", "alert"}]  BY <1>0 DEF TypeOK
  <2>2. CASE Notify(k)
    BY <2>1, <2>2 DEF Notify, Flips
  <2> QED  BY <1>4, <2>1, <2>2
<1>6. TypeOK'  BY <1>0, <1>1, <1>3, <1>5 DEF TypeOK, bounds
<1> QED  BY <1>0, <1>6 DEF RunsInv

LEMMA TypesOthers ==
  ASSUME RunsInv, Next, ~\E k \in Runners : Execute(k)
  PROVE  RunsInv'
<1>0. TypeOK  BY DEF RunsInv
<1>1. CASE Fetch
  <2>1. /\ UNCHANGED <<entry, scripts, running, online, task, told, moves, faults>>
        /\ stage' \in {"sleep", "jobs", "policies"} /\ spoilt' \subseteq Policies
    BY <1>0, <1>1 DEF Fetch, database, bounds, TypeOK
  <2>2. list' \subseteq Item
    <3>1. list' \in {{}, Fetched(Jobs), Fetched(Policies)}  BY <1>1 DEF Fetch
    <3> QED  BY <1>0, <3>1, FetchedItems DEF Entries
  <2> QED  BY <1>0, <2>1, <2>2, RowsFrame DEF RunsInv, TypeOK, Item
<1>2. ASSUME NEW item \in list, LoopBegins(item) PROVE RunsInv'
  <2>1. /\ item.of \in Entries /\ item.was \in Row /\ Begun(Loop, item.of, item.was)
        /\ task[Loop] = None /\ Loop \in Runners
        /\ UNCHANGED <<entry, scripts, running, online, stage, told, moves, faults>>
        /\ list' \subseteq list
    BY <1>0, <1>2 DEF LoopBegins, TypeOK, Runners, database, bounds
  <2>2. spoilt' \subseteq Policies  BY <1>0, <1>2 DEF LoopBegins, Spoilt, TypeOK
  <2>3. /\ task' \in [Runners -> Task \cup {None}]
        /\ running' \in [Devices -> Nat] /\ StepsFit' /\ RowsCover'
    BY <2>1, RunsBegin
  <2> QED  BY <1>0, <2>1, <2>2, <2>3 DEF RunsInv, TypeOK
<1>3. ASSUME NEW k \in Requests, NEW e \in Entries, RunNow(k, e) PROVE RunsInv'
  <2>1. /\ entry[e] \in Row /\ Begun(k, e, entry[e])
        /\ task[k] = None /\ k \in Runners
        /\ UNCHANGED <<entry, scripts, running, online, stage, list, told, faults>>
        /\ moves' \in 0 .. MaxMoves
    BY <1>0, <1>3, BoundsAssumption DEF RunNow, Move, TypeOK, Runners, database
  <2>2. spoilt' \subseteq Policies  BY <1>0, <1>3 DEF RunNow, Spoilt, TypeOK
  <2>3. /\ task' \in [Runners -> Task \cup {None}]
        /\ running' \in [Devices -> Nat] /\ StepsFit' /\ RowsCover'
    BY <2>1, RunsBegin
  <2> QED  BY <1>0, <2>1, <2>2, <2>3 DEF RunsInv, TypeOK
<1>4. ASSUME NEW e \in Entries,
             \/ Toggle(e) \/ Delete(e) \/ DeleteScript(e) \/ UpdatePolicy(e)
             \/ BecomesDue(e)
      PROVE  RunsInv'
  <2>1. entry' \in [Entries -> Row \cup {None}]
    BY <1>0, <1>4, AdministratorEdits DEF Edits
  <2>2. /\ UNCHANGED <<running, online, stage, list, task, told, spoilt, faults>>
        /\ scripts' \subseteq Entries /\ moves' \in 0 .. MaxMoves
    BY <1>0, <1>4, BoundsAssumption DEF Toggle, Delete, DeleteScript, UpdatePolicy,
       BecomesDue, Move, bounds, TypeOK
  <2> QED  BY <1>0, <2>1, <2>2, RowsFrame DEF RunsInv, TypeOK
<1>5. ASSUME NEW d \in Devices, Connection(d) PROVE RunsInv'
  <2>1. /\ UNCHANGED <<entry, scripts, running, stage, list, task, told, spoilt, faults>>
        /\ online' \subseteq Devices /\ moves' \in 0 .. MaxMoves
    BY <1>0, <1>5, BoundsAssumption DEF Connection, Move, database, TypeOK
  <2> QED  BY <1>0, <2>1, RowsFrame DEF RunsInv, TypeOK
<1>6. CASE Restart
  <2>1. /\ UNCHANGED <<entry, scripts, running, told, spoilt, moves>>
        /\ faults' \in 0 .. MaxFaults /\ faults' # 0 /\ stage' = "sleep" /\ list' = {}
        /\ online' = {} /\ task' = [k \in Runners |-> None]
    BY <1>0, <1>6, BoundsAssumption DEF Restart, database, TypeOK
  <2>2. StepsFit'  BY <2>1 DEF StepsFit
  <2>3. RowsCover'
    <3> SUFFICES ASSUME NEW d \in Devices PROVE running[d] >= Cardinality(Busy(d)')
      BY <2>1 DEF RowsCover
    <3>1. Busy(d)' = {}  BY <2>1 DEF Busy
    <3> QED  BY <1>0, <3>1, FS_EmptySet DEF TypeOK
  <2> QED  BY <1>0, <2>1, <2>2, <2>3 DEF RunsInv, TypeOK
<1> QED
  BY <1>1, <1>2, <1>3, <1>4, <1>5, <1>6 DEF Next, LoopStep, Runners

LEMMA InitRuns == Init => RunsInv
<1> SUFFICES ASSUME Init PROVE RunsInv
  OBVIOUS
<1>1. entry \in [Entries -> Row \cup {None}]  BY DEF Init, Row
<1>2. TypeOK
  <2>1. /\ scripts \subseteq Entries /\ online \subseteq Devices /\ list = {}
        /\ running \in [Devices -> Nat] /\ told \in [Policies -> {"ok", "alert"}]
        /\ spoilt = {} /\ stage = "sleep"
    BY DEF Init
  <2>2. task \in [Runners -> Task \cup {None}]  BY DEF Init
  <2>3. moves \in 0 .. MaxMoves /\ faults \in 0 .. MaxFaults
    BY BoundsAssumption DEF Init
  <2> QED  BY <1>1, <2>1, <2>2, <2>3 DEF TypeOK
<1>3. StepsFit  BY DEF Init, StepsFit
<1>4. \A d \in Devices : Busy(d) = {}  BY DEF Init, Busy
<1>5. RowsCover  BY <1>4, FS_EmptySet DEF Init, RowsCover
<1> QED  BY <1>2, <1>3, <1>5 DEF RunsInv

\* The types, and that the rows of script runs cover what executions wait for.
THEOREM RunsInvariant == Spec => []RunsInv
<1>1. RunsInv /\ UNCHANGED vars => RunsInv'
  BY DEF RunsInv, TypeOK, StepsFit, RowsCover, Busy, vars, database, bounds
<1>2. RunsInv /\ [Next]_vars => RunsInv'
  BY <1>1, TypesExecute, TypesOthers
<1> QED  BY <1>2, InitRuns, PTL DEF Spec


-----------------------------------------------------------------------------
(* The mails.                                                              *)

Executes(k, p) == task[k] # None /\ task[k].of = p
Says(status) == IF status = "alert" THEN "alert" ELSE "ok"

\* The loop has fetched each entry once.
ListIsExact == \A i, j \in list : i.of = j.of => i = j

\* Nobody executes the policy beside another, or while the loop is about to.
Alone(p) ==
  /\ \A k, m \in Runners : Executes(k, p) /\ Executes(m, p) => k = m
  /\ \A item \in list : item.of = p => \A k \in Runners : ~Executes(k, p)

\* The status that was read before an execution is still the one stored, and
\* the last mail says it; between the mail and the mark it says the new one.
Current(p) ==
  entry[p] # None =>
    /\ \A item \in list : item.of = p => item.was.status = entry[p].status
    /\ \A k \in Runners : Executes(k, p) =>
         /\ task[k].was.status = entry[p].status
         /\ task[k].step = "mark" => told[p] = Says(task[k].result)
    /\ (\A k \in Runners : Executes(k, p) => task[k].step # "mark")
         => told[p] = Says(entry[p].status)

\* It has its script, so its result is a verdict.
HasVerdict(p) == \A k \in Runners : Executes(k, p) => task[k].result # "error"

Sound(p) == Alone(p) /\ Current(p) /\ HasVerdict(p)

\* The inductive invariant of MailsFollowStatus.  What is mailed goes by the
\* status read before the execution: it is right only if that is the stored one
\* when the execution is marked, for which nobody else may have marked one.
MailsInv ==
  /\ ListIsExact
  /\ faults = 0 => \A p \in Policies \ spoilt : Sound(p)

\* An execution goes on; nothing is said or stored.
LEMMA SoundGoesOn ==
  ASSUME NEW p \in Policies, Sound(p), NEW k \in Runners, NEW x \in Task,
         Becomes(k, x), task[k] # None, x.of = task[k].of, x.was = task[k].was,
         task[k].of = p /\ x.result = "error" => task[k].result = "error",
         x.step # "mark", task[k].step # "mark", UNCHANGED <<entry, list, told>>
  PROVE  Sound(p)'
<1>1. \A m \in Runners : Executes(m, p)' <=> Executes(m, p)
  BY RecordsAreSomething DEF Becomes, Executes
<1>2. Alone(p)'  BY <1>1 DEF Sound, Alone
<1>3. \A m \in Runners : Executes(m, p) =>
        /\ task'[m].was = task[m].was
        /\ task'[m].step = "mark" <=> task[m].step = "mark"
        /\ task[m].step = "mark" => task'[m].result = task[m].result
        /\ task[m].result # "error" => task'[m].result # "error"
  BY DEF Becomes, Executes
<1>4. Current(p)'  BY <1>1, <1>3 DEF Sound, Current
<1>5. HasVerdict(p)'  BY <1>1, <1>3 DEF Sound, HasVerdict
<1> QED  BY <1>2, <1>4, <1>5 DEF Sound

LEMMA SoundExecute ==
  ASSUME TypeOK, NEW p \in Policies, Sound(p), NEW k \in Runners, Execute(k)
  PROVE  Sound(p)'
<1>0. task \in [Runners -> Task \cup {None}] /\ p \in Entries
  BY DEF TypeOK, Entries
<1>1. ASSUME NEW d \in Devices, StartRun(k, d) PROVE Sound(p)'
  <2>1. PICK x \in Task :
           /\ Becomes(k, x) /\ x.of = task[k].of /\ x.was = task[k].was
           /\ x.result = task[k].result /\ x.step = "script"
    BY <1>0, <1>1, StartRunTask
  <2>2. task[k] # None /\ task[k].step # "mark" /\ UNCHANGED <<entry, list, told>>
    BY <1>1 DEF StartRun, At
  <2>3. x.step # "mark"  BY <2>1
  <2> QED  BY <2>1, <2>2, <2>3, SoundGoesOn
<1>2. ASSUME NEW outcome \in Outcomes, EndRun(k, outcome) PROVE Sound(p)'
  <2>1. PICK x \in Task :
           /\ Becomes(k, x) /\ x.of = task[k].of /\ x.was = task[k].was
           /\ x.result = Result(k, outcome) /\ x.step # "mark"
    BY <1>2, EndRunTask
  <2>2. x.result = "error" => task[k].result = "error"  BY <2>1 DEF Result
  <2>3. task[k] # None /\ task[k].step # "mark" /\ UNCHANGED <<entry, list, told>>
    BY <1>2 DEF EndRun, At
  <2> QED  BY <2>1, <2>2, <2>3, SoundGoesOn
<1>3. ASSUME NEW outcome \in Outcomes, EndFix(k, outcome) PROVE Sound(p)'
  BY <1>3, EndFixTask, SoundGoesOn DEF EndFix, At
<1>4. CASE Notify(k)
  <2>1. PICK x \in Task :
           /\ Becomes(k, x) /\ x.of = task[k].of /\ x.was = task[k].was
           /\ x.result = task[k].result /\ x.step = "mark"
    BY <1>4, NotifyTask
  <2>2. /\ task[k] # None /\ task[k].step = "idle" /\ task[k] \in Task
        /\ UNCHANGED <<entry, list>>
    BY <1>0, <1>4 DEF Notify, At, database
  <2>3. \A m \in Runners : Executes(m, p)' <=> Executes(m, p)
    BY <2>1, <2>2, RecordsAreSomething DEF Becomes, Executes
  <2>4. \A m \in Runners : Executes(m, p) =>
          task'[m].was = task[m].was /\ task'[m].result = task[m].result
    BY <2>1 DEF Becomes, Executes
  <2>5. Alone(p)' /\ HasVerdict(p)'
    BY <2>2, <2>3, <2>4 DEF Sound, Alone, HasVerdict
  <2>6. CASE task[k].of # p
    <3>1. told'[p] = told[p]  BY <1>4, <2>6 DEF Notify, TypeOK
    <3>2. \A m \in Runners : Executes(m, p) => task'[m] = task[m]
      BY <2>1, <2>6 DEF Becomes, Executes
    <3> QED  BY <2>2, <2>3, <2>5, <3>1, <3>2 DEF Sound, Current
  <2>7. CASE task[k].of = p
    <3>1. Executes(k, p) /\ \A m \in Runners : Executes(m, p) => m = k
      BY <2>2, <2>7 DEF Sound, Alone, Executes
    <3>2. task[k].result \in {"ok", "alert"}
      BY <2>2, <3>1 DEF Sound, HasVerdict, Task, Statuses
    <3>3. told' = [told EXCEPT ![p] = IF Flips(task[k].was.status, task[k].result)
                                        THEN task[k].result ELSE @]
      BY <1>4, <2>7 DEF Notify, TypeOK
    <3>4. ASSUME entry[p] # None PROVE told'[p] = Says(x.result)
      <4>1. task[k].was.status = entry[p].status /\ told[p] = Says(entry[p].status)
        BY <2>2, <3>1, <3>4 DEF Sound, Current
      <4>2. told'[p] = IF Flips(entry[p].status, task[k].result)
                         THEN task[k].result ELSE Says(entry[p].status)
        BY <3>3, <4>1 DEF TypeOK
      <4> QED  BY <2>1, <3>2, <4>2 DEF Flips, Says
    <3>5. x = task'[k]  BY <2>1 DEF Becomes
    <3>6. Current(p)'
      BY <2>1, <2>2, <2>3, <2>4, <3>1, <3>4, <3>5 DEF Sound, Current
    <3> QED  BY <2>5, <3>6 DEF Sound
  <2> QED  BY <2>6, <2>7
<1>5. CASE Mark(k)
  <2>1. Becomes(k, None) /\ task[k] # None /\ task[k].step = "mark"
        /\ UNCHANGED <<list, told>>
    BY <1>5, MarkTask DEF Mark, At
  <2>2. \A m \in Runners : /\ Executes(m, p)' <=> Executes(m, p) /\ m # k
                           /\ Executes(m, p) /\ m # k => task'[m] = task[m]
    BY <2>1 DEF Becomes, Executes
  <2>3. Alone(p)' /\ HasVerdict(p)'  BY <2>1, <2>2 DEF Sound, Alone, HasVerdict
  <2>4. CASE task[k].of # p
    <3>1. entry'[p] = entry[p]  BY <1>0, <1>5, <2>4, MarkEdits
    <3>2. ~Executes(k, p)  BY <2>4 DEF Executes
    <3> QED  BY <2>1, <2>2, <2>3, <3>1, <3>2 DEF Sound, Current
  <2>5. CASE task[k].of = p
    <3>1. Executes(k, p)  BY <2>1, <2>5 DEF Executes
    <3>2. \A m \in Runners : ~Executes(m, p)'
      BY <2>2, <3>1 DEF Sound, Alone
    <3>3. \A item \in list : item.of # p  BY <3>1 DEF Sound, Alone
    <3>4. entry'[p] # None => entry[p] # None /\ entry'[p].status = task[k].result
      BY <1>5, <2>5, MarkEdits
    <3>5. entry[p] # None => told[p] = Says(task[k].result)
      BY <2>1, <3>1 DEF Sound, Current
    <3>6. Current(p)'
      BY <2>1, <3>2, <3>3, <3>4, <3>5 DEF Current
    <3> QED  BY <2>3, <3>6 DEF Sound
  <2> QED  BY <2>4, <2>5
<1> QED  BY <1>1, <1>2, <1>3, <1>4, <1>5 DEF Execute, Outcomes

\* An execution of e begins: of p itself, alone and with the row as it is
\* stored, or of something else.
LEMMA SoundBegins ==
  ASSUME TypeOK, NEW p \in Policies, Sound(p), NEW k \in Runners, NEW e \in Entries,
         NEW was \in Row, Begun(k, e, was), task[k] = None,
         UNCHANGED <<entry, told>>, list' \subseteq list,
         e = p =>
           /\ p \in scripts
           /\ \A m \in Runners : ~Executes(m, p)
           /\ \A item \in list' : item.of # p
           /\ entry[p] # None => was.status = entry[p].status
  PROVE  Sound(p)'
<1>1. PICK x \in Task :
         /\ Becomes(k, x) /\ x.of = e /\ x.was = was /\ x.step = "idle"
         /\ x.result = "error" => e \notin scripts
  BY BegunTask
<1>2. x # None /\ x = task'[k]  BY <1>1, RecordsAreSomething DEF Becomes
<1>3. \A m \in Runners \ {k} : task'[m] = task[m]  BY <1>1 DEF Becomes
<1>4. \A m \in Runners : Executes(m, p)' <=> Executes(m, p) \/ (m = k /\ e = p)
  BY <1>1, <1>2, <1>3 DEF Executes
<1>5. Alone(p)' /\ HasVerdict(p)'
  BY <1>1, <1>2, <1>3, <1>4 DEF Sound, Alone, HasVerdict, Executes
<1>6. Current(p)'
  BY <1>1, <1>2, <1>3, <1>4 DEF Sound, Current, Executes
<1> QED  BY <1>5, <1>6 DEF Sound

\* The loop fetches: each entry once, with the status as it is stored, and a
\* policy that a request executes is counted as spoilt.
LEMMA MailsFetch ==
  ASSUME TypeOK, MailsInv, Fetch
  PROVE  MailsInv'
<1>1. /\ UNCHANGED <<entry, told, task, faults>> /\ task[Loop] = None
      /\ list' \in {{}, Fetched(Jobs), Fetched(Policies)}
      /\ spoilt \subseteq spoilt'
  BY DEF Fetch, database, bounds
<1>2. \A i \in list' : i.of \in Entries /\ i.was = entry[i.of] /\ i \in Item
  BY <1>1, FetchedItems DEF Entries
<1>3. ListIsExact'
  BY <1>2 DEF ListIsExact, Item
<1>4. ASSUME faults' = 0, NEW p \in Policies \ spoilt' PROVE Sound(p)'
  <2>1. Sound(p)  BY <1>1, <1>4 DEF MailsInv
  <2>2. \A item \in list' : item.of = p => \A k \in Requests : ~Executes(k, p)
    BY <1>4 DEF Fetch, Executes
  <2>3. \A k \in Runners : Executes(k, p)' <=> Executes(k, p)
    BY <1>1 DEF Executes
  <2>4. ~Executes(Loop, p)  BY <1>1 DEF Executes
  <2>5. Alone(p)'  BY <2>1, <2>2, <2>3, <2>4 DEF Sound, Alone, Runners
  <2>6. Current(p)'  BY <1>1, <1>2, <2>1, <2>3 DEF Sound, Current
  <2>7. HasVerdict(p)'  BY <1>1, <2>1, <2>3 DEF Sound, HasVerdict
  <2> QED  BY <2>5, <2>6, <2>7 DEF Sound
<1> QED  BY <1>3, <1>4 DEF MailsInv

\* A runner begins: what makes the mails wrong is counted as spoilt.
LEMMA MailsLoopBegins ==
  ASSUME TypeOK, MailsInv, NEW item \in list, LoopBegins(item)
  PROVE  MailsInv'
<1>1. /\ UNCHANGED <<entry, told, scripts, faults>> /\ task[Loop] = None
      /\ list' = list \ {item} /\ Begun(Loop, item.of, item.was)
      /\ spoilt' = Spoilt(Loop, item.of)
      /\ item.of \in Entries /\ item.was \in Row /\ Loop \in Runners
  BY DEF LoopBegins, database, bounds, TypeOK, Runners
<1>2. ListIsExact'  BY <1>1 DEF MailsInv, ListIsExact
<1>3. \A i \in list' : i.of # item.of  BY <1>1 DEF MailsInv, ListIsExact
<1>4. ASSUME faults' = 0, NEW p \in Policies \ spoilt' PROVE Sound(p)'
  <2>1. spoilt \subseteq spoilt'  BY <1>1 DEF Spoilt
  <2>2. Sound(p)  BY <1>1, <1>4, <2>1 DEF MailsInv
  <2>3. ASSUME item.of = p
        PROVE  /\ p \in scripts
               /\ \A m \in Runners : ~Executes(m, p)
               /\ \A i \in list' : i.of # p
               /\ entry[p] # None => item.was.status = entry[p].status
    <3>1. /\ p \in scripts
          /\ \A m \in Runners \ {Loop} : ~Executes(m, p)
      BY <1>1, <1>4, <2>3 DEF Spoilt, Executes
    <3>2. ~Executes(Loop, p)  BY <1>1 DEF Executes
    <3>3. entry[p] # None => item.was.status = entry[p].status
      BY <2>2, <2>3 DEF Sound, Current
    <3> QED  BY <1>3, <2>3, <3>1, <3>2, <3>3
  <2>4. list' \subseteq list /\ UNCHANGED <<entry, told>>  BY <1>1
  <2> QED  BY <1>1, <2>2, <2>3, <2>4, SoundBegins
<1> QED  BY <1>2, <1>4 DEF MailsInv

LEMMA MailsRunNow ==
  ASSUME TypeOK, MailsInv, NEW k \in Requests, NEW e \in Entries, RunNow(k, e)
  PROVE  MailsInv'
<1>1. /\ UNCHANGED <<entry, told, scripts, list, faults>> /\ task[k] = None
      /\ Begun(k, e, entry[e]) /\ entry[e] # None /\ entry[e] \in Row
      /\ spoilt' = Spoilt(k, e) /\ k \in Runners /\ k # Loop
  BY EntriesAssumption DEF RunNow, Move, database, TypeOK, Runners
<1>2. ListIsExact'  BY <1>1 DEF MailsInv, ListIsExact
<1>3. ASSUME faults' = 0, NEW p \in Policies \ spoilt' PROVE Sound(p)'
  <2>1. spoilt \subseteq spoilt'  BY <1>1 DEF Spoilt
  <2>2. Sound(p)  BY <1>1, <1>3, <2>1 DEF MailsInv
  <2>3. ASSUME e = p
        PROVE  /\ p \in scripts
               /\ \A m \in Runners : ~Executes(m, p)
               /\ \A i \in list' : i.of # p
    <3>1. /\ p \in scripts
          /\ \A m \in Runners \ {k} : ~Executes(m, p)
          /\ \A i \in list : i.of # p
      BY <1>1, <1>3, <2>3 DEF Spoilt, Executes
    <3>2. ~Executes(k, p)  BY <1>1 DEF Executes
    <3> QED  BY <1>1, <3>1, <3>2
  <2>4. list' \subseteq list /\ UNCHANGED <<entry, told>>  BY <1>1
  <2> QED  BY <1>1, <2>2, <2>3, <2>4, SoundBegins
<1> QED  BY <1>2, <1>3 DEF MailsInv

\* Deleting, switching and editing keep the statuses.
LEMMA MailsEdits ==
  ASSUME TypeOK, MailsInv, NEW e \in Entries,
         \/ Toggle(e) \/ Delete(e) \/ DeleteScript(e) \/ UpdatePolicy(e)
         \/ BecomesDue(e)
  PROVE  MailsInv'
<1>1. Edits(e)  BY AdministratorEdits
<1>2. UNCHANGED <<list, task, told, spoilt, faults>>
  BY DEF Toggle, Delete, DeleteScript, UpdatePolicy, BecomesDue, Move, bounds
<1>3. \A p \in Policies :
        entry'[p] # None => entry[p] # None /\ entry'[p].status = entry[p].status
  BY <1>1 DEF Edits, Entries
<1>4. ListIsExact'  BY <1>2 DEF MailsInv, ListIsExact
<1>5. ASSUME faults' = 0, NEW p \in Policies \ spoilt' PROVE Sound(p)'
  <2>1. Sound(p)  BY <1>2, <1>5 DEF MailsInv
  <2>2. \A k \in Runners : Executes(k, p)' <=> Executes(k, p)  BY <1>2 DEF Executes
  <2>3. Alone(p)' /\ HasVerdict(p)'
    BY <1>2, <2>1, <2>2 DEF Sound, Alone, HasVerdict
  <2>4. Current(p)'  BY <1>2, <1>3, <2>1, <2>2 DEF Sound, Current
  <2> QED  BY <2>3, <2>4 DEF Sound
<1> QED  BY <1>4, <1>5 DEF MailsInv

\* Nothing of what the invariant is about changes.
LEMMA MailsFrame ==
  ASSUME MailsInv, UNCHANGED <<entry, list, task, told, spoilt, faults>>
  PROVE  MailsInv'
BY DEF MailsInv, ListIsExact, Sound, Alone, Current, HasVerdict, Executes

LEMMA MailsExecute ==
  ASSUME TypeOK, MailsInv, NEW k \in Runners, Execute(k)
  PROVE  MailsInv'
<1>1. UNCHANGED <<list, spoilt, faults>>
  BY DEF Execute, StartRun, EndRun, EndFix, Notify, Mark, bounds
<1>2. ListIsExact'  BY <1>1 DEF MailsInv, ListIsExact
<1>3. ASSUME faults' = 0, NEW p \in Policies \ spoilt' PROVE Sound(p)'
  BY <1>1, <1>3, SoundExecute DEF MailsInv
<1> QED  BY <1>2, <1>3 DEF MailsInv

LEMMA MailsNext == RunsInv /\ MailsInv /\ [Next]_vars => MailsInv'
<1> SUFFICES ASSUME RunsInv, MailsInv, [Next]_vars PROVE MailsInv'
  OBVIOUS
<1>0. TypeOK  BY DEF RunsInv
<1>1. CASE UNCHANGED vars
  BY <1>1, MailsFrame DEF vars, database, bounds
<1>2. CASE \E k \in Runners : Execute(k)  BY <1>0, <1>2, MailsExecute
<1>3. CASE Fetch  BY <1>0, <1>3, MailsFetch
<1>4. CASE \E item \in list : LoopBegins(item)  BY <1>0, <1>4, MailsLoopBegins
<1>5. CASE \E k \in Requests, e \in Entries : RunNow(k, e)
  BY <1>0, <1>5, MailsRunNow
<1>6. ASSUME NEW e \in Entries,
             \/ Toggle(e) \/ Delete(e) \/ DeleteScript(e) \/ UpdatePolicy(e)
             \/ BecomesDue(e)
      PROVE  MailsInv'
  BY <1>0, <1>6, MailsEdits
<1>7. CASE \E d \in Devices : Connection(d)
  BY <1>7, MailsFrame DEF Connection, Move, database
<1>8. CASE Restart
  <2>1. list' = {} /\ faults' # 0
    BY <1>0, <1>8 DEF Restart, TypeOK
  <2> QED  BY <2>1 DEF MailsInv, ListIsExact
<1> QED
  BY <1>1, <1>2, <1>3, <1>4, <1>5, <1>6, <1>7, <1>8 DEF Next, LoopStep, Runners

LEMMA InitMails == Init => MailsInv
<1> SUFFICES ASSUME Init PROVE MailsInv
  OBVIOUS
<1>1. list = {} /\ \A k \in Runners : task[k] = None  BY DEF Init
<1>2. ASSUME NEW p \in Policies PROVE Sound(p)
  <2>1. \A k \in Runners : ~Executes(k, p)  BY <1>1 DEF Executes
  <2>2. entry[p].status = None /\ told[p] = "ok"  BY DEF Init, Entries
  <2>3. told[p] = Says(entry[p].status)
    BY <2>2, NoneAssumption DEF Says, Statuses
  <2> QED  BY <1>1, <2>1, <2>3 DEF Sound, Alone, Current, HasVerdict
<1> QED  BY <1>1, <1>2 DEF MailsInv, ListIsExact

\* An execution and the list of the loop are sound as long as nothing has spoilt
\* the policy: the rows an execution was begun with are the ones it marks.
THEOREM MailsInvariant == Spec => []MailsInv
BY RunsInvariant, MailsNext, InitMails, PTL DEF Spec

\* Every variable keeps its type.
THEOREM ExecutionsTyping == Spec => []TypeOK
<1>1. RunsInv => TypeOK  BY DEF RunsInv
<1> QED  BY <1>1, RunsInvariant, PTL

\* A run of a script has a row that says 'running' exactly while it runs, and
\* each change of a policy's status is mailed once.
THEOREM ExecutionsTold == Spec => []ExecutionsAreTold
<1>1. RunsInv => RowsFollowRuns
  BY DEF RunsInv, RowsCover, Busy, RowsFollowRuns
<1>2. MailsInv => MailsFollowStatus
  <2> SUFFICES ASSUME MailsInv, faults = 0, NEW p \in Policies,
                      entry[p] # None, p \notin spoilt,
                      \A k \in Runners : At(k, "mark") => task[k].of # p
               PROVE  told[p] = Says(entry[p].status)
    BY DEF MailsFollowStatus, Says
  <2>1. Current(p)  BY DEF MailsInv, Sound
  <2>2. \A k \in Runners : Executes(k, p) => task[k].step # "mark"
    BY DEF Executes, At
  <2> QED  BY <2>1, <2>2 DEF Current
<1>3. RunsInv /\ MailsInv => ExecutionsAreTold
  BY <1>1, <1>2 DEF ExecutionsAreTold
<1> QED  BY <1>3, RunsInvariant, MailsInvariant, PTL

=============================================================================
