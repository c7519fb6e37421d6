---------------------------- MODULE ServerUpdate ----------------------------
(***************************************************************************)
(* The server's own update, server/app/docker_update.py: a request to the  *)
(* running server pulls the image and launches a helper container          *)
(* (start_update), and the helper swaps the server's container for a new   *)
(* one through the Docker socket and puts the old one back when the new    *)
(* one does not come up (run_helper).                                      *)
(*                                                                         *)
(* A helper makes one request after the other.  The daemon refuses what    *)
(* Docker refuses (a name in use, a container that has gone), and the code *)
(* looks at the answer of some requests only.  A request may also fail     *)
(* with an exception, before or after the daemon has done what it asks.    *)
(* Nothing keeps two helpers from working at the same time.  The container *)
(* a helper makes is named after the helper; the containers share the      *)
(* host's network (docker-compose.yml), so one server has the port.        *)
(***************************************************************************)
EXTENDS Naturals, FiniteSets

CONSTANTS
  First,       \* the container that is running at the start
  Helpers,     \* updates over the life of the system
  None,
  MaxAtOnce,   \* bound: updates under way at once
  MaxFaults    \* bound: requests that fail on the way, helpers that are killed

Containers == Helpers \cup {First}

ASSUME NamesAssumption ==
  First \notin Helpers /\ None \notin Containers \cup [old : Containers, name : Nat]
ASSUME BoundsAssumption == MaxAtOnce \in Nat /\ MaxFaults \in Nat

VARIABLES
  state,    \* state[c]: "absent", "created", "up" or "down"
  name,     \* name[c]: 0 is the server's name, n + 1 is n with "_old"
  port,     \* the container whose server has the port, or None
  bad,      \* containers whose version never comes up
  pc,       \* pc[h]: the request helper h makes next
  plan,     \* plan[h]: [old, name], from the container the update was asked of
  newId,    \* newId[h]: h knows the id of the container it has made
  proved,   \* containers that a helper has found up (history)
  unheard,  \* a "remove" was carried out and not answered (history)
  crossed,  \* two updates have been under way at once (history)
  faults

docker == <<state, name, port>>
vars == <<docker, bad, pc, plan, newId, proved, unheard, crossed, faults>>

Swap == {"stop", "rename", "create", "start", "settle", "remove"}
PutBack == {"drop", "back", "restart"}
Working == Swap \cup PutBack

Init ==
  /\ state = [c \in Containers |-> IF c = First THEN "up" ELSE "absent"]
  /\ name = [c \in Containers |-> 0]
  /\ port = First
  /\ bad \in SUBSET Helpers
  /\ pc = [h \in Helpers |-> "unused"]
  /\ plan = [h \in Helpers |-> None]
  /\ newId = [h \in Helpers |-> FALSE]
  /\ proved = {First}
  /\ unheard = FALSE
  /\ crossed = FALSE
  /\ faults = 0

-----------------------------------------------------------------------------
(* The Docker daemon.                                                      *)

Exists(c) == state[c] # "absent"

NameIsFree(n) == \A c \in Containers : Exists(c) => name[c] # n

\* What each request is about.
Subject(h) ==
  IF pc[h] \in {"create", "start", "drop"} THEN h ELSE plan[h].old

\* A container that is made or renamed takes this name.
NameAsked(h) == IF pc[h] = "rename" THEN plan[h].name + 1 ELSE plan[h].name

\* The daemon does what helper h asks.
Accepted(h) ==
  CASE pc[h] = "create" -> NameIsFree(NameAsked(h))
    [] pc[h] \in {"rename", "back"} -> Exists(Subject(h)) /\ NameIsFree(NameAsked(h))
    [] OTHER -> Exists(Subject(h))

\* The state a request leaves its container in.
StateAfter(h) ==
  CASE pc[h] = "create" -> "created"
    [] pc[h] \in {"start", "restart"} -> "up"
    [] pc[h] = "stop" -> IF state[Subject(h)] = "up" THEN "down" ELSE state[Subject(h)]
    [] pc[h] \in {"remove", "drop"} -> "absent"
    [] OTHER -> state[Subject(h)]

Performed(h) ==
  LET c == Subject(h) IN
  /\ state' = [state EXCEPT ![c] = StateAfter(h)]
  /\ name' = [name EXCEPT ![c] =
                IF pc[h] \in {"create", "rename", "back"} THEN NameAsked(h) ELSE @]
  /\ port' = IF port = c /\ StateAfter(h) # "up" THEN None ELSE port

\* A server that works takes the port when it is free; one that is up and
\* cannot have it is restarted until it can.
Serve(c) ==
  /\ port = None
  /\ state[c] = "up"
  /\ c \notin bad
  /\ port' = c
  /\ UNCHANGED <<state, name, bad, pc, plan, newId, proved, unheard, crossed, faults>>

-----------------------------------------------------------------------------
(* run_helper.                                                             *)

\* Mutant of Raised: the new container keeps its name.
RaisedBack(h) == IF pc[h] \in PutBack THEN "done" ELSE "back"

\* Where an exception leads: into the rollback, which removes the new
\* container first when its id is known, and out of the rollback to the end.
Raised(h) ==
  IF pc[h] \in PutBack THEN "done" ELSE IF newId[h] THEN "drop" ELSE "back"

\* The requests whose answer the helper looks at.
Insists(h) == pc[h] \in {"create", "start"}

SwapOrder ==
  [stop |-> "rename", rename |-> "create", create |-> "start", start |-> "settle",
   remove |-> "done"]

\* Mutant of PutBackOrder: the old container has its name back, and stays down.
PutBackShort == [drop |-> "back", back |-> "done"]

PutBackOrder == [drop |-> "back", back |-> "restart", restart |-> "done"]

Following(step) == IF step \in PutBack THEN PutBackOrder[step] ELSE SwapOrder[step]

\* Helper h goes on after an answer that says done, or does not.
GoesOn(h, done) ==
  /\ pc' = [pc EXCEPT ![h] = IF Insists(h) /\ ~done THEN Raised(h)
                             ELSE Following(pc[h])]
  /\ newId' = [newId EXCEPT ![h] = @ \/ (pc[h] = "create" /\ done)]

\* A request that the daemon answers.
Ask(h) ==
  /\ pc[h] \in Working \ {"settle"}
  /\ IF Accepted(h) THEN Performed(h) ELSE UNCHANGED docker
  /\ GoesOn(h, Accepted(h))
  /\ UNCHANGED <<bad, plan, proved, unheard, crossed, faults>>

\* One that the daemon answers with an error of its own.
AskRefused(h) ==
  /\ pc[h] \in Working \ {"settle"}
  /\ faults < MaxFaults
  /\ faults' = faults + 1
  /\ GoesOn(h, FALSE)
  /\ UNCHANGED <<docker, bad, plan, proved, unheard, crossed>>

\* One whose answer does not come, whether it has been carried out or not.
AskRaises(h, arrives) ==
  /\ pc[h] \in Working
  /\ arrives => pc[h] # "settle" /\ Accepted(h)
  /\ faults < MaxFaults
  /\ faults' = faults + 1
  /\ IF arrives THEN Performed(h) ELSE UNCHANGED docker
  /\ pc' = [pc EXCEPT ![h] = Raised(h)]
  /\ unheard' = (unheard \/ (pc[h] = "remove" /\ arrives))
  /\ UNCHANGED <<bad, plan, newId, proved, crossed>>

\* Mutant of FoundUp: started is as good as working.
FoundUpStarted(h) == state[h] = "up"

\* _settled sees the new server healthy.
FoundUp(h) == state[h] = "up" /\ port = h

\* _settled: the new server is up, or has stopped, is unhealthy or too late.
Settle(h, up) ==
  /\ pc[h] = "settle"
  /\ up => FoundUp(h)
  /\ pc' = [pc EXCEPT ![h] = IF up THEN "remove" ELSE Raised(h)]
  /\ proved' = IF up /\ port = h THEN proved \cup {h} ELSE proved
  /\ UNCHANGED <<docker, bad, plan, newId, unheard, crossed, faults>>

\* The helper's container is killed, by a reboot of the host for one.
Killed(h) ==
  /\ pc[h] \in Working
  /\ faults < MaxFaults
  /\ faults' = faults + 1
  /\ pc' = [pc EXCEPT ![h] = "killed"]
  /\ UNCHANGED <<docker, bad, plan, newId, proved, unheard, crossed>>

-----------------------------------------------------------------------------
(* start_update, in the running server.                                    *)

UnderWay == {h \in Helpers : pc[h] \in Working \cup {"pull"}}

\* The helper's plan
Planned(c) == [old |-> c, name |-> name[c]]

\* "Update & restart": the container is inspected and the image is pulled.
Apply(h) ==
  /\ pc[h] = "unused"
  /\ Cardinality(UnderWay) < MaxAtOnce
  /\ port # None
  /\ pc' = [pc EXCEPT ![h] = "pull"]
  /\ plan' = [plan EXCEPT ![h] = Planned(port)]
  /\ crossed' = (crossed \/ UnderWay # {})
  /\ UNCHANGED <<docker, bad, newId, proved, unheard, faults>>

\* The server that pulled is still there, and launches the helper.
Launch(h) ==
  /\ pc[h] = "pull"
  /\ port = plan[h].old
  /\ pc' = [pc EXCEPT ![h] = "stop"]
  /\ UNCHANGED <<docker, bad, plan, newId, proved, unheard, crossed, faults>>

\* The pull or the launch fails, or the server has been stopped meanwhile.
GivesUp(h) ==
  /\ pc[h] = "pull"
  /\ pc' = [pc EXCEPT ![h] = "done"]
  /\ UNCHANGED <<docker, bad, plan, newId, proved, unheard, crossed, faults>>

-----------------------------------------------------------------------------
Help(h) == Ask(h) \/ \E up \in BOOLEAN : Settle(h, up)

Next ==
  \/ \E h \in Helpers :
       \/ Help(h)
       \/ AskRefused(h)
       \/ \E arrives \in BOOLEAN : AskRaises(h, arrives)
       \/ Killed(h)
       \/ Apply(h) \/ Launch(h) \/ GivesUp(h)
  \/ \E c \in Containers : Serve(c)

Spec == Init /\ [][Next]_vars

\* A helper goes on to its end (every request and the wait have a limit), and
\* Docker keeps restarting a server that is to run.
Fairness ==
  /\ \A h \in Helpers : WF_vars(Help(h))
  /\ \A c \in Containers : WF_vars(Serve(c))

FairSpec == Spec /\ Fairness

-----------------------------------------------------------------------------
(* Properties.                                                             *)

\* Every variable keeps its type.
TypeOK ==
  /\ state \in [Containers -> {"absent", "created", "up", "down"}]
  /\ name \in [Containers -> Nat]
  /\ port \in Containers \cup {None}
  /\ bad \subseteq Helpers
  /\ pc \in [Helpers -> Working \cup {"unused", "pull", "done", "killed"}]
  /\ plan \in [Helpers -> [old : Containers, name : Nat] \cup {None}]
  /\ newId \in [Helpers -> BOOLEAN]
  /\ proved \subseteq Containers
  /\ unheard \in BOOLEAN
  /\ crossed \in BOOLEAN
  /\ faults \in 0 .. MaxFaults

\* A server serves again and again while the daemon answers: however many
\* updates overlap, and whichever of the new versions fail, there is no end
\* without one.
ServerComesBack == [](faults = 0) => []<>(port # None)

\* Of the containers that have been found to work one always exists, whatever
\* requests fail, whichever helpers are killed and however they overlap: none
\* is removed but for another (as long as the removal itself is answered).
ProvedIsKept ==
  ~unheard => \E c \in proved : Exists(c)

\* After updates one at a time, a single container is left, up and under the
\* server's name, and it is one that has been found to work: nothing of the
\* other one is in the way of the next update.
OneServerIsLeft ==
  faults = 0 /\ ~crossed /\ UnderWay = {} =>
    \E c \in proved :
      /\ state[c] = "up" /\ name[c] = 0
      /\ \A other \in Containers \ {c} : ~Exists(other)

\* What an update may cost: never the last version that works, and, when it is
\* over, nothing of the version that has lost.
WorkingServerIsKept == ProvedIsKept /\ OneServerIsLeft
=============================================================================
