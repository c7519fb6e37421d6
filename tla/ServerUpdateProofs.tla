-------------------------- MODULE ServerUpdateProofs --------------------------
(***************************************************************************)
(* What holds of the server's own update for any number of updates,        *)
(* overlapping and failing in any way: WorkingServerIsKept.                *)
(*                                                                         *)
(* That a working container always exists is not inductive.  A helper that *)
(* has found its container up may come late to the removal of the old one, *)
(* when its own container has been removed for the next one, and that one  *)
(* perhaps for another.  The invariant follows this line of containers,    *)
(* each removed for the next: it cannot close, because an update is asked  *)
(* of a container that is there, for one that is not (Ranked), and so it   *)
(* has a last container, which has not been removed.                       *)
(*                                                                         *)
(* The last part is about the updates of an agent (AgentUpdate), for any   *)
(* settings, versions and helpers at the same time: NoWayBack.  It rests   *)
(* on every place a process may find its settings in, or an installer take *)
(* them from, holding the ones saved last.                                 *)
(***************************************************************************)
EXTENDS ServerUpdate, AgentUpdate, WellFoundedInduction, TLAPS

\* What a helper has and has not done at its step.
StepsInOrder ==
  /\ \A h \in Helpers : (pc[h] = "unused") <=> (plan[h] = None)
  /\ \A h \in Helpers :
       pc[h] \in {"unused", "pull", "stop", "rename", "create"} => ~Exists(h)
  /\ \A h \in Helpers : pc[h] = "remove" => h \in proved
  /\ \A h, k \in Helpers :
       plan[h] # None /\ plan[h].old = k => pc[k] # "unused"
  /\ First \in proved

\* The server that has the port is up.
PortIsUp == port # None => state[port] = "up"

\* A rank of the containers: an update goes from a lower one to a higher one.
IsRank(rank) ==
  \A h \in Helpers : plan[h] # None => rank[plan[h].old] < rank[h]

Ranked == \E B \in Nat : \E rank \in [Containers -> 0 .. B] : IsRank(rank)

\* Container c has been removed, for one of K.
Replaced(c, K) == \E h \in K : h \in Helpers /\ plan[h] # None /\ plan[h].old = c

\* K is a line of containers that have been found up, each of them there or
\* removed for another, and so is every container that a helper is about to
\* remove the old one for.
IsLine(K) ==
  /\ First \in K
  /\ \A h \in K : h \in Helpers => pc[h] = "done"
  /\ \A c \in K : Exists(c) \/ Replaced(c, K)
  /\ \A h \in Helpers : pc[h] = "remove" => Exists(h) \/ Replaced(h, K)

LineIsKept == ~unheard => \E K \in SUBSET proved : IsLine(K)

\* Server c is the only container.
Alone(c) ==
  /\ state[c] = "up" /\ name[c] = 0
  /\ \A other \in Containers \ {c} : ~Exists(other)

WithNew == {"start", "settle", "remove", "drop"}

\* The update h of server c is under way, and nothing else.
Halfway(h, c) ==
  /\ UnderWay = {h} /\ h # c
  /\ plan[h] = [old |-> c, name |-> 0]
  /\ state[c] = IF pc[h] \in {"pull", "stop"} THEN "up" ELSE "down"
  /\ name[c] = IF pc[h] \in {"pull", "stop", "rename", "restart"} THEN 0 ELSE 1
  /\ Exists(h) <=> pc[h] \in WithNew
  /\ pc[h] \in WithNew => name[h] = 0 /\ newId[h]
  /\ pc[h] \in {"settle", "remove"} => state[h] = "up"
  /\ \A other \in Containers \ {c, h} : ~Exists(other)

OneAtATime ==
  faults = 0 /\ ~crossed =>
    \E c \in proved : \/ UnderWay = {} /\ Alone(c)
                      \/ \E h \in Helpers : Halfway(h, c)

\* The inductive invariant.
UpdateInv ==
  TypeOK /\ StepsInOrder /\ PortIsUp /\ Ranked /\ LineIsKept /\ OneAtATime

-----------------------------------------------------------------------------
(* Where a helper goes.                                                    *)

Steps == Working \cup {"unused", "pull", "done", "killed"}

\* A step that ends in an error leads into the rollback or to the end.
LEMMA RaisedLeads ==
  ASSUME NEW h \in Helpers
  PROVE  /\ Raised(h) \in {"drop", "back", "done"}
         /\ Raised(h) = "drop" => newId[h]
         /\ Raised(h) # "done" => pc[h] \notin PutBack
BY DEF Raised

\* The step after an answer.
LEMMA FollowingLeads ==
  ASSUME NEW s \in Working \ {"settle"}
  PROVE  /\ Following(s) \in {"rename", "create", "start", "settle", "back", "restart", "done"}
         /\ Following(s) = "rename" <=> s = "stop"
         /\ Following(s) = "create" <=> s = "rename"
         /\ Following(s) = "start" <=> s = "create"
         /\ Following(s) = "settle" <=> s = "start"
         /\ Following(s) = "back" <=> s = "drop"
         /\ Following(s) = "restart" <=> s = "back"
BY DEF Following, Working, Swap, PutBack, SwapOrder, PutBackOrder

\* Where any request leads: on to "create" from "rename" only, to "remove"
\* never (that is for Settle).
LEMMA GoesOnLeads ==
  ASSUME TypeOK, NEW h \in Helpers, NEW done \in BOOLEAN,
         pc[h] \in Working \ {"settle"}, GoesOn(h, done)
  PROVE  \E s \in Working \cup {"done"} :
           /\ pc' = [pc EXCEPT ![h] = s]
           /\ s \notin {"stop", "remove"}
           /\ s = "rename" => pc[h] = "stop"
           /\ s = "create" => pc[h] = "rename"
           /\ newId' \in [Helpers -> BOOLEAN]
<1> DEFINE s == IF Insists(h) /\ ~done THEN Raised(h) ELSE Following(pc[h])
<1>1. s \in {"rename", "create", "start", "settle", "drop", "back", "restart", "done"}
  BY RaisedLeads, FollowingLeads
<1>2. /\ s = "rename" => pc[h] = "stop"
      /\ s = "create" => pc[h] = "rename"
  BY RaisedLeads, FollowingLeads
<1>3. pc' = [pc EXCEPT ![h] = s] /\ newId' \in [Helpers -> BOOLEAN]
  BY DEF GoesOn, TypeOK
<1> QED  BY <1>1, <1>2, <1>3 DEF Working, Swap, PutBack

\* What a request is about is a container.
LEMMA SubjectExists ==
  ASSUME TypeOK, StepsInOrder, NEW h \in Helpers, pc[h] \in Working
  PROVE  /\ plan[h] # None /\ plan[h] \in [old : Containers, name : Nat]
         /\ Subject(h) \in Containers
<1>1. pc[h] # "unused"  BY DEF Working, Swap, PutBack
<1>2. plan[h] # None  BY <1>1 DEF StepsInOrder
<1>3. plan[h] \in [old : Containers, name : Nat]  BY <1>2 DEF TypeOK
<1> QED  BY <1>2, <1>3 DEF Subject, Containers

\* What the daemon leaves of the other containers, and of this one.
LEMMA PerformedDoes ==
  ASSUME TypeOK, StepsInOrder, PortIsUp, NEW h \in Helpers,
         pc[h] \in Working \ {"settle"}, Performed(h)
  PROVE  /\ state' \in [Containers -> {"absent", "created", "up", "down"}]
         /\ name' \in [Containers -> Nat]
         /\ port' \in Containers \cup {None}
         /\ PortIsUp'
         /\ state'[Subject(h)] = StateAfter(h)
         /\ \A c \in Containers \ {Subject(h)} :
              state'[c] = state[c] /\ name'[c] = name[c]
<1> DEFINE c == Subject(h)
<1>1. /\ c \in Containers /\ plan[h] \in [old : Containers, name : Nat]
  BY SubjectExists
<1>2. StateAfter(h) \in {"absent", "created", "up", "down"}
  BY <1>1 DEF StateAfter, TypeOK
<1>3. NameAsked(h) \in Nat
  BY <1>1 DEF NameAsked
<1>4. /\ state' = [state EXCEPT ![c] = StateAfter(h)]
      /\ name' = [name EXCEPT ![c] =
                    IF pc[h] \in {"create", "rename", "back"} THEN NameAsked(h) ELSE @]
      /\ port' = IF port = c /\ StateAfter(h) # "up" THEN None ELSE port
  BY DEF Performed
<1> HIDE DEF c
<1>5. /\ state' \in [Containers -> {"absent", "created", "up", "down"}]
      /\ state'[c] = StateAfter(h)
      /\ \A d \in Containers \ {c} : state'[d] = state[d]
  BY <1>1, <1>2, <1>4 DEF TypeOK
<1>6. /\ name' \in [Containers -> Nat]
      /\ \A d \in Containers \ {c} : name'[d] = name[d]
  BY <1>1, <1>3, <1>4 DEF TypeOK
<1>7. port' \in Containers \cup {None} /\ PortIsUp'
  <2>1. CASE port = c
    BY <2>1, <1>4, <1>5, <1>1 DEF TypeOK, PortIsUp
  <2>2. CASE port # c
    BY <2>2, <1>4, <1>5, <1>1 DEF TypeOK, PortIsUp
  <2> QED  BY <2>1, <2>2
<1> QED  BY <1>5, <1>6, <1>7 DEF c

\* A request is answered one way or the other.
LEMMA AskIsAnswered ==
  ASSUME NEW h \in Helpers, Ask(h)
  PROVE  \E done \in BOOLEAN : GoesOn(h, done)
<1>1. CASE Accepted(h)
  <2>1. GoesOn(h, TRUE)  BY <1>1 DEF Ask, GoesOn
  <2> QED  BY <2>1
<1>2. CASE ~Accepted(h)
  <2>1. GoesOn(h, FALSE)  BY <1>2 DEF Ask, GoesOn
  <2> QED  BY <2>1
<1> QED  BY <1>1, <1>2

\* Any request of h, however it ends.
Request(h) == Ask(h) \/ AskRefused(h) \/ \E arrives \in BOOLEAN : AskRaises(h, arrives)

\* What a request may change: the daemon does it or does nothing, the helper
\* goes on, and a removal ends the update or goes unheard.
LEMMA RequestDoes ==
  ASSUME TypeOK, NEW h \in Helpers, Request(h)
  PROVE  /\ pc[h] \in Working
         /\ \/ UNCHANGED docker
            \/ /\ pc[h] # "settle" /\ Accepted(h) /\ Performed(h)
               /\ pc[h] = "remove" => unheard' \/ pc' = [pc EXCEPT ![h] = "done"]
         /\ \E s \in Working \cup {"done"} :
              /\ pc' = [pc EXCEPT ![h] = s]
              /\ s \notin {"stop", "remove"}
              /\ s = "rename" => pc[h] = "stop"
              /\ s = "create" => pc[h] = "rename"
         /\ newId' \in [Helpers -> BOOLEAN]
         /\ unheard' \in BOOLEAN /\ (unheard => unheard')
         /\ faults' \in 0 .. MaxFaults
         /\ UNCHANGED <<bad, plan, proved, crossed>>
<1> USE BoundsAssumption
<1>1. CASE Ask(h)
  <2>1. pc[h] \in Working \ {"settle"}
    BY <1>1 DEF Ask
  <2>2. Accepted(h) /\ pc[h] = "remove" => pc' = [pc EXCEPT ![h] = "done"]
    BY <1>1 DEF Ask, GoesOn, Insists, Following, PutBack, SwapOrder
  <2>3. PICK done \in BOOLEAN : GoesOn(h, done)
    BY <1>1, AskIsAnswered
  <2> QED  BY <1>1, <2>1, <2>2, <2>3, GoesOnLeads DEF Ask, TypeOK
<1>2. CASE AskRefused(h)
  <2>1. pc[h] \in Working \ {"settle"} /\ UNCHANGED docker
    BY <1>2 DEF AskRefused
  <2>2. \E done \in BOOLEAN : GoesOn(h, done)
    BY <1>2 DEF AskRefused
  <2> QED  BY <1>2, <2>1, <2>2, GoesOnLeads DEF AskRefused, TypeOK
<1>3. ASSUME NEW arrives \in BOOLEAN, AskRaises(h, arrives)
      PROVE  /\ pc[h] \in Working
             /\ \/ UNCHANGED docker
                \/ /\ pc[h] # "settle" /\ Accepted(h) /\ Performed(h)
                   /\ pc[h] = "remove" => unheard'
             /\ pc' = [pc EXCEPT ![h] = Raised(h)]
             /\ newId' \in [Helpers -> BOOLEAN]
             /\ unheard' \in BOOLEAN /\ (unheard => unheard')
             /\ faults' \in 0 .. MaxFaults
             /\ UNCHANGED <<bad, plan, proved, crossed>>
  <2>1. CASE arrives
    <3>1. /\ pc[h] \in Working
          /\ pc[h] # "settle" /\ Accepted(h) /\ Performed(h)
          /\ pc' = [pc EXCEPT ![h] = Raised(h)]
          /\ unheard' = (unheard \/ pc[h] = "remove")
          /\ faults' = faults + 1 /\ faults < MaxFaults
          /\ UNCHANGED <<bad, plan, newId, proved, crossed>>
      BY <1>3, <2>1 DEF AskRaises
    <3>2. faults' \in 0 .. MaxFaults
      BY <3>1 DEF TypeOK
    <3>3. unheard' \in BOOLEAN /\ (unheard => unheard') /\ (pc[h] = "remove" => unheard')
      BY <3>1 DEF TypeOK
    <3>4. newId' \in [Helpers -> BOOLEAN]
      BY <3>1 DEF TypeOK
    <3> QED  BY <3>1, <3>2, <3>3, <3>4
  <2>2. CASE ~arrives
    BY <1>3, <2>2 DEF AskRaises, TypeOK
  <2> QED  BY <2>1, <2>2
<1>4. /\ Raised(h) \in Working \cup {"done"}
      /\ Raised(h) \notin {"stop", "remove", "rename", "create"}
  BY RaisedLeads DEF Working, PutBack
<1> QED  BY <1>1, <1>2, <1>3, <1>4 DEF Request

-----------------------------------------------------------------------------
(* Types, and what each step finds.                                        *)

\* A step of the system is a request of a helper or one of the others.
LEMMA StepIs ==
  ASSUME [Next]_vars
  PROVE  \/ UNCHANGED vars
         \/ \E h \in Helpers :
              \/ Request(h)
              \/ \E up \in BOOLEAN : Settle(h, up)
              \/ Killed(h) \/ Apply(h) \/ Launch(h) \/ GivesUp(h)
         \/ \E c \in Containers : Serve(c)
BY DEF Next, Help, Request

\* Every step keeps the types, and the server that has the port is up.
LEMMA TypingStep ==
  ASSUME TypeOK, StepsInOrder, PortIsUp, [Next]_vars
  PROVE  TypeOK' /\ PortIsUp'
<1> USE NamesAssumption, BoundsAssumption
<1>1. CASE UNCHANGED vars
  BY <1>1 DEF vars, docker, TypeOK, PortIsUp
<1>2. ASSUME NEW h \in Helpers, Request(h)
      PROVE  TypeOK' /\ PortIsUp'
  <2>1. /\ state' \in [Containers -> {"absent", "created", "up", "down"}]
        /\ name' \in [Containers -> Nat]
        /\ port' \in Containers \cup {None}
        /\ PortIsUp'
    <3>1. CASE pc[h] # "settle" /\ Accepted(h) /\ Performed(h)
      BY <3>1, <1>2, PerformedDoes, RequestDoes
    <3>2. CASE UNCHANGED docker
      BY <3>2 DEF docker, TypeOK, PortIsUp
    <3> QED  BY <3>1, <3>2, <1>2, RequestDoes
  <2>2. pc' \in [Helpers -> Steps]
    BY <1>2, RequestDoes DEF TypeOK, Steps
  <2> QED  BY <1>2, <2>1, <2>2, RequestDoes DEF TypeOK, Steps
<1>3. ASSUME NEW h \in Helpers, NEW up \in BOOLEAN, Settle(h, up)
      PROVE  TypeOK' /\ PortIsUp'
  <2>1. Raised(h) \in Working \cup {"done"}
    BY RaisedLeads DEF Working, PutBack
  <2> QED  BY <1>3, <2>1 DEF Settle, TypeOK, PortIsUp, docker, Containers, Working, Swap
<1>4. ASSUME NEW h \in Helpers, Killed(h)
      PROVE  TypeOK' /\ PortIsUp'
  BY <1>4 DEF Killed, TypeOK, PortIsUp, docker
<1>5. ASSUME NEW h \in Helpers, Apply(h)
      PROVE  TypeOK' /\ PortIsUp'
  <2>1. Planned(port) \in [old : Containers, name : Nat]
    BY <1>5 DEF Apply, Planned, TypeOK
  <2> QED  BY <1>5, <2>1 DEF Apply, TypeOK, PortIsUp, docker
<1>6. ASSUME NEW h \in Helpers, Launch(h) \/ GivesUp(h)
      PROVE  TypeOK' /\ PortIsUp'
  BY <1>6 DEF Launch, GivesUp, TypeOK, PortIsUp, docker, Working, Swap
<1>7. ASSUME NEW c \in Containers, Serve(c)
      PROVE  TypeOK' /\ PortIsUp'
  BY <1>7 DEF Serve, TypeOK, PortIsUp
<1> QED  BY <1>1, <1>2, <1>3, <1>4, <1>5, <1>6, <1>7, StepIs

\* Every step keeps what a helper has done and not done.
LEMMA OrderStep ==
  ASSUME TypeOK, StepsInOrder, PortIsUp, [Next]_vars
  PROVE  StepsInOrder'
<1> USE NamesAssumption
<1>1. CASE UNCHANGED vars
  BY <1>1 DEF vars, docker, StepsInOrder, Exists
<1>2. ASSUME NEW h \in Helpers, Request(h)
      PROVE  StepsInOrder'
  <2>1. PICK s \in Working \cup {"done"} :
          /\ pc' = [pc EXCEPT ![h] = s]
          /\ s \notin {"stop", "remove"}
          /\ s = "rename" => pc[h] = "stop"
          /\ s = "create" => pc[h] = "rename"
    BY <1>2, RequestDoes
  <2>2. pc[h] \in Working /\ UNCHANGED <<plan, proved>>
    BY <1>2, RequestDoes
  <2>3. /\ s # "unused" /\ s # "pull" /\ pc[h] # "unused"
        /\ pc'[h] = s /\ \A k \in Helpers : k # h => pc'[k] = pc[k]
    BY <2>1, <2>2 DEF Working, Swap, PutBack, TypeOK
  <2>4. ASSUME NEW k \in Helpers,
               pc'[k] \in {"unused", "pull", "stop", "rename", "create"}
        PROVE  ~Exists(k)'
    <3>1. pc[k] \in {"unused", "pull", "stop", "rename", "create"}
      BY <2>1, <2>3, <2>4
    <3>2. ~Exists(k)
      BY <3>1 DEF StepsInOrder
    <3>3. CASE UNCHANGED docker
      BY <3>2, <3>3 DEF docker, Exists
    <3>4. CASE pc[h] # "settle" /\ Accepted(h) /\ Performed(h)
      <4>1. k # Subject(h)
        <5>1. CASE k = h /\ pc[h] \in {"create", "start", "drop"}
          BY <5>1, <2>1, <2>3, <2>4, <3>1
        <5>2. CASE ~(k = h /\ pc[h] \in {"create", "start", "drop"})
          <6>1. pc[h] \in {"create", "start", "drop"} => k # Subject(h)
            BY <5>2 DEF Subject
          <6>2. pc[h] \notin {"create", "start", "drop"} => Exists(Subject(h))
            BY <3>4 DEF Accepted
          <6> QED  BY <6>1, <6>2, <3>2
        <5> QED  BY <5>1, <5>2
      <4> QED  BY <4>1, <3>2, <3>4, <2>2, PerformedDoes DEF Exists, Containers
    <3> QED  BY <3>3, <3>4, <1>2, RequestDoes
  <2> QED  BY <2>1, <2>2, <2>3, <2>4 DEF StepsInOrder
<1>3. ASSUME NEW h \in Helpers, NEW up \in BOOLEAN, Settle(h, up)
      PROVE  StepsInOrder'
  <2>1. \E s \in {"remove", "drop", "back", "done"} :
          /\ pc' = [pc EXCEPT ![h] = s]
          /\ s = "remove" => h \in proved'
    BY <1>3, RaisedLeads DEF Settle, FoundUp
  <2> QED  BY <1>3, <2>1 DEF Settle, StepsInOrder, TypeOK, Exists, docker
<1>4. ASSUME NEW h \in Helpers, Killed(h)
      PROVE  StepsInOrder'
  BY <1>4 DEF Killed, StepsInOrder, TypeOK, Exists, docker, Working, Swap, PutBack
<1>5. ASSUME NEW h \in Helpers, Apply(h)
      PROVE  StepsInOrder'
  <2>1. /\ plan' = [plan EXCEPT ![h] = [old |-> port, name |-> name[port]]]
        /\ pc' = [pc EXCEPT ![h] = "pull"]
        /\ pc[h] = "unused" /\ port \in Containers
        /\ UNCHANGED <<state, proved>>
    BY <1>5 DEF Apply, Planned, docker, TypeOK
  <2>2. [old |-> port, name |-> name[port]] # None
    BY <2>1 DEF TypeOK
  <2>3. \A k \in Helpers : port = k => pc[k] # "unused"
    BY <2>1 DEF PortIsUp, StepsInOrder, Exists
  <2> QED  BY <2>1, <2>2, <2>3 DEF StepsInOrder, TypeOK, Exists
<1>6. ASSUME NEW h \in Helpers, Launch(h) \/ GivesUp(h)
      PROVE  StepsInOrder'
  BY <1>6 DEF Launch, GivesUp, StepsInOrder, TypeOK, Exists, docker
<1>7. ASSUME NEW c \in Containers, Serve(c)
      PROVE  StepsInOrder'
  BY <1>7 DEF Serve, StepsInOrder, Exists
<1> QED  BY <1>1, <1>2, <1>3, <1>4, <1>5, <1>6, <1>7, StepIs

-----------------------------------------------------------------------------
(* The line of containers.                                                 *)

\* Only Apply plans an update.
LEMMA PlansAreKept ==
  ASSUME TypeOK, [Next]_vars, \A h \in Helpers : ~Apply(h)
  PROVE  plan' = plan
<1>1. ASSUME NEW h \in Helpers, Request(h)
      PROVE  plan' = plan
  BY <1>1, RequestDoes
<1> QED  BY <1>1, StepIs DEF vars, Settle, Killed, Launch, GivesUp, Serve

\* An update is asked of a container that is there, for one that is not: the
\* line of containers does not close.
LEMMA RankStep ==
  ASSUME TypeOK, StepsInOrder, PortIsUp, Ranked, [Next]_vars
  PROVE  Ranked'
<1>1. CASE \A h \in Helpers : ~Apply(h)
  BY <1>1, PlansAreKept DEF Ranked, IsRank
<1>2. ASSUME NEW h \in Helpers, Apply(h)
      PROVE  Ranked'
  <2>1. PICK B \in Nat : \E rank \in [Containers -> 0 .. B] : IsRank(rank)
    BY DEF Ranked
  <2>2. PICK rank \in [Containers -> 0 .. B] : IsRank(rank)
    BY <2>1
  <2>3. /\ plan' = [plan EXCEPT ![h] = [old |-> port, name |-> name[port]]]
        /\ pc[h] = "unused" /\ port \in Containers /\ port # None
    BY <1>2 DEF Apply, Planned, TypeOK
  <2>4. h # port
    BY <2>3 DEF PortIsUp, StepsInOrder, Exists
  <2> DEFINE new == [rank EXCEPT ![h] = rank[port] + 1]
  <2>5. /\ new \in [Containers -> 0 .. B + 1]
        /\ new[h] = rank[port] + 1
        /\ \A c \in Containers : c # h => new[c] = rank[c]
    BY <2>1, <2>2, <2>3 DEF Containers
  <2> HIDE DEF new
  <2>6. ASSUME NEW k \in Helpers, plan'[k] # None
        PROVE  new[plan'[k].old] < new[k]
    <3>1. CASE k = h
      <4>1. plan'[k].old = port  BY <3>1, <2>3 DEF TypeOK
      <4> QED  BY <4>1, <3>1, <2>1, <2>2, <2>3, <2>4, <2>5
    <3>2. CASE k # h
      <4>1. plan'[k] = plan[k] /\ plan[k] # None
        BY <3>2, <2>3, <2>6 DEF TypeOK
      <4>2. plan[k].old \in Containers /\ plan[k].old # h
        BY <4>1, <2>3 DEF TypeOK, StepsInOrder
      <4>3. rank[plan[k].old] < rank[k]
        BY <4>1, <2>2 DEF IsRank
      <4> QED  BY <4>1, <4>2, <4>3, <3>2, <2>5 DEF Containers
    <3> QED  BY <3>1, <3>2
  <2>7. B + 1 \in Nat  BY <2>1
  <2> QED  BY <2>5, <2>6, <2>7 DEF Ranked, IsRank
<1> QED  BY <1>1, <1>2

\* A container that goes keeps its line: only h's removal and h's rollback take
\* one away.
LEMMA OnlyThese ==
  ASSUME TypeOK, StepsInOrder, PortIsUp,
         NEW h \in Helpers, pc[h] \in Working \ {"settle"}, Performed(h), Accepted(h),
         NEW c \in Containers, Exists(c), ~Exists(c)'
  PROVE  \/ pc[h] = "remove" /\ plan[h] # None /\ plan[h].old = c
         \/ pc[h] = "drop" /\ c = h
<1>1. c = Subject(h) /\ StateAfter(h) = "absent"
  BY PerformedDoes DEF Exists
<1>2. pc[h] \in {"remove", "drop"}
  BY <1>1 DEF StateAfter, Exists
<1> QED  BY <1>1, <1>2, SubjectExists DEF Subject

\* Every step keeps the line.
LEMMA LineStep ==
  ASSUME TypeOK, StepsInOrder, PortIsUp, Ranked, LineIsKept, [Next]_vars
  PROVE  LineIsKept'
<1> USE NamesAssumption
<1> SUFFICES ASSUME ~unheard'  PROVE \E K \in SUBSET proved' : IsLine(K)'
  BY DEF LineIsKept
<1>1. ~unheard
  <2>1. ASSUME NEW h \in Helpers, Request(h)
        PROVE  ~unheard
    BY <2>1, RequestDoes
  <2> QED  BY <2>1, StepIs DEF vars, Settle, Killed, Apply, Launch, GivesUp, Serve
<1>2. PICK K \in SUBSET proved : IsLine(K)
  BY <1>1 DEF LineIsKept
<1>3. K \subseteq Containers
  BY <1>2 DEF TypeOK
<1>4. CASE UNCHANGED vars
  BY <1>2, <1>4 DEF vars, docker, IsLine, Replaced, Exists
<1>5. ASSUME NEW h \in Helpers, Request(h)
      PROVE  \E L \in SUBSET proved' : IsLine(L)'
  <2>1. PICK s \in Working \cup {"done"} :
          /\ pc' = [pc EXCEPT ![h] = s]
          /\ s \notin {"stop", "remove"}
    BY <1>5, RequestDoes
  <2>2. /\ pc[h] \in Working
        /\ UNCHANGED <<plan, proved>>
        /\ pc'[h] = s /\ \A k \in Helpers : k # h => pc'[k] = pc[k]
    BY <1>5, <2>1, RequestDoes DEF TypeOK
  <2>3. h \notin K
    BY <2>2, <1>2 DEF IsLine, Working, Swap, PutBack
  <2>4. CASE UNCHANGED docker
    BY <1>2, <2>1, <2>2, <2>3, <2>4 DEF docker, IsLine, Replaced, Exists
  <2>5. CASE pc[h] = "remove" /\ Accepted(h) /\ Performed(h)
             /\ pc' = [pc EXCEPT ![h] = "done"]
    <3> DEFINE L == K \cup {h}
    <3>1. L \in SUBSET proved'
      BY <2>2, <2>5 DEF StepsInOrder
    <3>2. ASSUME NEW c \in Containers, Exists(c) \/ Replaced(c, K)
          PROVE  Exists(c)' \/ Replaced(c, L)'
      <4>1. CASE Replaced(c, K)
        BY <4>1, <2>2 DEF Replaced
      <4>2. CASE Exists(c) /\ ~Exists(c)'
        <5>1. plan[h] # None /\ plan[h].old = c
          BY <4>2, <2>2, <2>5, OnlyThese
        <5> QED  BY <5>1, <2>2 DEF Replaced
      <4> QED  BY <4>1, <4>2, <3>2
    <3>3. \A k \in Helpers : pc'[k] = "remove" => pc[k] = "remove" /\ k # h
      BY <2>5, <2>2 DEF TypeOK
    <3>4. \A k \in L : k \in Helpers => pc'[k] = "done"
      BY <2>5, <1>2 DEF TypeOK, IsLine
    <3>5. \A c \in L : Exists(c)' \/ Replaced(c, L)'
      BY <3>2, <1>2, <1>3, <2>5 DEF IsLine, Containers
    <3>6. \A k \in Helpers : pc'[k] = "remove" => Exists(k)' \/ Replaced(k, L)'
      BY <3>2, <3>3, <1>2 DEF IsLine, Containers
    <3>7. First \in L
      BY <1>2 DEF IsLine
    <3>8. IsLine(L)'
      BY <3>4, <3>5, <3>6, <3>7 DEF IsLine
    <3> QED  BY <3>1, <3>8
  <2>6. CASE pc[h] \notin {"settle", "remove"} /\ Accepted(h) /\ Performed(h)
    <3>1. ASSUME NEW c \in Containers, c # h, Exists(c) \/ Replaced(c, K)
          PROVE  Exists(c)' \/ Replaced(c, K)'
      <4>1. CASE Replaced(c, K)
        BY <4>1, <2>2 DEF Replaced
      <4>2. CASE Exists(c)
        BY <4>2, <3>1, <2>2, <2>6, OnlyThese
      <4> QED  BY <4>1, <4>2, <3>1
    <3>2. \A k \in Helpers : pc'[k] = "remove" => pc[k] = "remove" /\ k # h
      BY <2>1, <2>2
    <3>3. \A k \in K : k \in Helpers => pc'[k] = "done"
      BY <2>2, <2>3, <1>2 DEF IsLine
    <3>4. \A c \in K : Exists(c)' \/ Replaced(c, K)'
      BY <3>1, <1>2, <1>3, <2>3 DEF IsLine
    <3>5. \A k \in Helpers : pc'[k] = "remove" => Exists(k)' \/ Replaced(k, K)'
      BY <3>1, <3>2, <1>2 DEF IsLine, Containers
    <3>6. IsLine(K)'
      BY <3>3, <3>4, <3>5, <1>2 DEF IsLine
    <3> QED  BY <3>6, <2>2
  <2> QED  BY <2>4, <2>5, <2>6, <1>5, RequestDoes
<1>6. ASSUME NEW h \in Helpers, NEW up \in BOOLEAN, Settle(h, up)
      PROVE  \E L \in SUBSET proved' : IsLine(L)'
  <2>1. /\ UNCHANGED <<state, plan>> /\ proved \subseteq proved'
        /\ pc[h] = "settle"
        /\ pc'[h] = "remove" => state[h] = "up"
        /\ \A k \in Helpers : k # h => pc'[k] = pc[k]
    BY <1>6, RaisedLeads DEF Settle, FoundUp, docker, TypeOK
  <2>2. h \notin K
    BY <2>1, <1>2 DEF IsLine
  <2>3. \A c : Exists(c)' <=> Exists(c)
    BY <2>1 DEF Exists
  <2>4. \A c : Replaced(c, K)' <=> Replaced(c, K)
    BY <2>1 DEF Replaced
  <2>5. \A k \in Helpers : pc'[k] = "remove" => Exists(k)' \/ Replaced(k, K)'
    BY <2>1, <2>3, <2>4, <1>2 DEF IsLine, Exists
  <2>6. IsLine(K)'
    BY <2>1, <2>2, <2>3, <2>4, <2>5, <1>2 DEF IsLine
  <2> QED  BY <2>1, <2>6
<1>7. ASSUME NEW h \in Helpers, Killed(h) \/ Launch(h) \/ GivesUp(h)
      PROVE  \E L \in SUBSET proved' : IsLine(L)'
  <2>1. /\ UNCHANGED <<state, plan, proved>>
        /\ pc[h] # "done" /\ pc'[h] # "remove"
        /\ \A k \in Helpers : k # h => pc'[k] = pc[k]
    BY <1>7 DEF Killed, Launch, GivesUp, docker, TypeOK, Working, Swap, PutBack
  <2> QED  BY <2>1, <1>2 DEF IsLine, Replaced, Exists
<1>8. ASSUME NEW h \in Helpers, Apply(h)
      PROVE  \E L \in SUBSET proved' : IsLine(L)'
  <2>1. /\ UNCHANGED <<state, proved>>
        /\ pc[h] = "unused" /\ pc'[h] = "pull"
        /\ \A k \in Helpers : k # h => pc'[k] = pc[k] /\ plan'[k] = plan[k]
    BY <1>8 DEF Apply, docker, TypeOK
  <2>2. h \notin K
    BY <2>1, <1>2 DEF IsLine
  <2>3. \A c : Exists(c)' <=> Exists(c)
    BY <2>1 DEF Exists
  <2>4. \A c : Replaced(c, K) => Replaced(c, K)'
    BY <2>1, <2>2 DEF Replaced
  <2>5. \A k \in Helpers : pc'[k] = "remove" => pc[k] = "remove"
    BY <2>1
  <2>6. \A k \in K : k \in Helpers => pc'[k] = "done"
    BY <2>1, <2>2, <1>2 DEF IsLine
  <2>7. IsLine(K)'
    BY <2>3, <2>4, <2>5, <2>6, <1>2 DEF IsLine
  <2> QED  BY <2>1, <2>7
<1>9. ASSUME NEW c \in Containers, Serve(c)
      PROVE  \E L \in SUBSET proved' : IsLine(L)'
  BY <1>9, <1>2 DEF Serve, IsLine, Replaced, Exists
<1> QED  BY <1>4, <1>5, <1>6, <1>7, <1>8, <1>9, StepIs

\* A set of numbers has a least one.
LEMMA Least ==
  ASSUME NEW S, S \subseteq Nat, S # {}
  PROVE  \E m \in S : \A n \in S : m <= n
<1> DEFINE R == {ss \in Nat \X Nat : ss[1] < ss[2]}
<1>1. IsWellFoundedOn(R, Nat)
  BY NatLessThanWellFounded DEF OpToRel
<1>2. \E x \in S : \A y \in S : ~ (<<y, x>> \in R)
  <2> HIDE DEF R
  <2> QED  BY <1>1, WFMin
<1>3. PICK m \in S : \A y \in S : ~ (<<y, m>> \in R)
  BY <1>2
<1>4. ASSUME NEW n \in S
      PROVE  m <= n
  <2>1. <<n, m>> \notin R  BY <1>3
  <2>2. n \in Nat /\ m \in Nat  OBVIOUS
  <2>3. ~ (n < m)  BY <2>1, <2>2
  <2> QED  BY <2>2, <2>3
<1> QED  BY <1>4

\* The last container of the line has not been removed for another.
LEMMA LastIsThere ==
  ASSUME TypeOK, Ranked, LineIsKept
  PROVE  ProvedIsKept
<1> SUFFICES ASSUME ~unheard  PROVE \E c \in proved : Exists(c)
  BY DEF ProvedIsKept
<1>1. PICK B \in Nat : \E rank \in [Containers -> 0 .. B] : IsRank(rank)
  BY DEF Ranked
<1>2. PICK rank \in [Containers -> 0 .. B] : IsRank(rank)
  BY <1>1
<1>3. PICK K \in SUBSET proved : IsLine(K)
  BY DEF LineIsKept
<1>4. K \subseteq Containers /\ First \in K
  BY <1>3 DEF TypeOK, IsLine
<1> DEFINE S == {B - rank[c] : c \in K}
<1>5. \A c \in K : rank[c] \in 0 .. B
  BY <1>2, <1>4
<1>6. S \subseteq Nat /\ S # {}
  BY <1>1, <1>4, <1>5
<1>7. PICK m \in S : \A n \in S : m <= n
  <2> HIDE DEF S
  <2> QED  BY <1>6, Least
<1>8. PICK c \in K : m = B - rank[c]
  OBVIOUS
<1>9. ~Replaced(c, K)
  <2> SUFFICES ASSUME NEW h \in K, h \in Helpers, plan[h] # None, plan[h].old = c
               PROVE  FALSE
    BY DEF Replaced
  <2>1. rank[c] < rank[h]  BY <1>2 DEF IsRank
  <2>2. B - rank[h] \in S  OBVIOUS
  <2>3. B - rank[c] <= B - rank[h]  BY <2>2, <1>7, <1>8
  <2>4. rank[c] \in 0 .. B /\ rank[h] \in 0 .. B  BY <1>5
  <2> QED  BY <2>1, <2>3, <2>4, <1>1
<1>10. Exists(c)
  BY <1>9, <1>3 DEF IsLine
<1> QED  BY <1>10

-----------------------------------------------------------------------------
(* Updates one at a time.                                                  *)

\* Who is under way.
LEMMA UnderWayIs ==
  ASSUME TypeOK, NEW h \in Helpers, NEW s, pc' = [pc EXCEPT ![h] = s]
  PROVE  UnderWay' = IF s \in Working \cup {"pull"} THEN UnderWay \cup {h}
                     ELSE UnderWay \ {h}
<1>1. pc'[h] = s /\ \A k \in Helpers : k # h => pc'[k] = pc[k]
  BY DEF TypeOK
<1> QED  BY <1>1 DEF UnderWay

\* One request of the update that is under way.
LEMMA HalfwayAsks ==
  ASSUME TypeOK, StepsInOrder, PortIsUp, NEW h \in Helpers, NEW c \in proved,
         Halfway(h, c), Ask(h)
  PROVE  \/ UnderWay' = {} /\ Alone(c)'
         \/ UnderWay' = {} /\ h \in proved /\ Alone(h)'
         \/ Halfway(h, c)'
<1> USE NamesAssumption
<1>1. /\ c \in Containers /\ h \in Containers /\ h # c
      /\ UnderWay = {h}
      /\ plan[h].old = c /\ plan[h].name = 0
      /\ UNCHANGED <<plan, proved>>
  BY DEF TypeOK, Halfway, Containers, Ask
<1>2. ASSUME Accepted(h)
      PROVE  /\ state' = [state EXCEPT ![Subject(h)] = StateAfter(h)]
             /\ name' = [name EXCEPT ![Subject(h)] =
                   IF pc[h] \in {"create", "rename", "back"} THEN NameAsked(h) ELSE @]
             /\ pc' = [pc EXCEPT ![h] = Following(pc[h])]
             /\ newId' = [newId EXCEPT ![h] = @ \/ pc[h] = "create"]
  BY <1>2 DEF Ask, Performed, GoesOn
<1>3. CASE pc[h] = "stop"
  <2>1. Subject(h) = c /\ StateAfter(h) = "down" /\ Following(pc[h]) = "rename"
    BY <1>1, <1>3 DEF Subject, StateAfter, Halfway, Following, PutBack, SwapOrder, PutBackOrder
  <2>2. Accepted(h)
    BY <2>1, <1>1, <1>3 DEF Accepted, Halfway, Exists, WithNew
  <2>3. /\ state'[c] = "down" /\ pc'[h] = "rename"
        /\ \A d \in Containers \ {c} : state'[d] = state[d] /\ name'[d] = name[d]
        /\ name'[c] = 0
        /\ newId'[h] = newId[h]
    BY <2>1, <2>2, <1>1, <1>2, <1>3 DEF TypeOK, NameAsked, Halfway, WithNew
  <2>4. UnderWay' = {h}
    BY <2>1, <2>2, <1>1, <1>2, UnderWayIs DEF Working, Swap, PutBack
  <2>5. Halfway(h, c)'
    BY <2>3, <2>4, <1>1, <1>3 DEF Halfway, Exists, WithNew, Containers
  <2> QED  BY <2>5
<1>4. CASE pc[h] = "rename"
  <2>1. Subject(h) = c /\ StateAfter(h) = "down" /\ Following(pc[h]) = "create"
    BY <1>1, <1>4 DEF Subject, StateAfter, Halfway, Following, PutBack, SwapOrder, PutBackOrder
  <2>2. Accepted(h)
    BY <2>1, <1>1, <1>4 DEF Accepted, Halfway, Exists, WithNew, NameIsFree, NameAsked
  <2>3. /\ state'[c] = "down" /\ pc'[h] = "create"
        /\ \A d \in Containers \ {c} : state'[d] = state[d] /\ name'[d] = name[d]
        /\ name'[c] = 1
        /\ newId'[h] = newId[h]
    BY <2>1, <2>2, <1>1, <1>2, <1>4 DEF TypeOK, NameAsked, Halfway, WithNew
  <2>4. UnderWay' = {h}
    BY <2>1, <2>2, <1>1, <1>2, UnderWayIs DEF Working, Swap, PutBack
  <2>5. Halfway(h, c)'
    BY <2>3, <2>4, <1>1, <1>4 DEF Halfway, Exists, WithNew, Containers
  <2> QED  BY <2>5
<1>5. CASE pc[h] = "create"
  <2>1. Subject(h) = h /\ StateAfter(h) = "created" /\ Following(pc[h]) = "start"
    BY <1>1, <1>5 DEF Subject, StateAfter, Halfway, Following, PutBack, SwapOrder, PutBackOrder
  <2>2. Accepted(h)
    BY <2>1, <1>1, <1>5 DEF Accepted, Halfway, Exists, WithNew, NameIsFree, NameAsked
  <2>3. /\ state'[h] = "created" /\ pc'[h] = "start"
        /\ \A d \in Containers \ {h} : state'[d] = state[d] /\ name'[d] = name[d]
        /\ name'[h] = 0
        /\ newId'[h] = TRUE
    BY <2>1, <2>2, <1>1, <1>2, <1>5 DEF TypeOK, NameAsked, Halfway, WithNew
  <2>4. UnderWay' = {h}
    BY <2>1, <2>2, <1>1, <1>2, UnderWayIs DEF Working, Swap, PutBack
  <2>5. Halfway(h, c)'
    BY <2>3, <2>4, <1>1, <1>5 DEF Halfway, Exists, WithNew, Containers
  <2> QED  BY <2>5
<1>6. CASE pc[h] = "start"
  <2>1. Subject(h) = h /\ StateAfter(h) = "up" /\ Following(pc[h]) = "settle"
    BY <1>1, <1>6 DEF Subject, StateAfter, Halfway, Following, PutBack, SwapOrder, PutBackOrder
  <2>2. Accepted(h)
    BY <2>1, <1>1, <1>6 DEF Accepted, Halfway, Exists, WithNew
  <2>3. /\ state'[h] = "up" /\ pc'[h] = "settle"
        /\ \A d \in Containers \ {h} : state'[d] = state[d] /\ name'[d] = name[d]
        /\ name'[h] = 0
        /\ newId'[h] = newId[h]
    <3>1. name[h] = 0
      BY <1>6 DEF Halfway, WithNew
    <3> QED  BY <3>1, <2>1, <2>2, <1>1, <1>2, <1>6 DEF TypeOK
  <2>4. UnderWay' = {h}
    BY <2>1, <2>2, <1>1, <1>2, UnderWayIs DEF Working, Swap, PutBack
  <2>5. Halfway(h, c)'
    BY <2>3, <2>4, <1>1, <1>6 DEF Halfway, Exists, WithNew, Containers
  <2> QED  BY <2>5
<1>7. CASE pc[h] = "remove"
  <2>1. Subject(h) = c /\ StateAfter(h) = "absent" /\ Following(pc[h]) = "done"
    BY <1>1, <1>7 DEF Subject, StateAfter, Halfway, Following, PutBack, SwapOrder, PutBackOrder
  <2>2. Accepted(h)
    BY <2>1, <1>1, <1>7 DEF Accepted, Halfway, Exists, WithNew
  <2>3. /\ state'[c] = "absent" /\ pc'[h] = "done"
        /\ \A d \in Containers \ {c} : state'[d] = state[d] /\ name'[d] = name[d]
        /\ newId'[h] = newId[h]
    BY <2>1, <2>2, <1>1, <1>2, <1>7 DEF TypeOK, NameAsked
  <2>4. UnderWay' = {}
    BY <2>1, <2>2, <1>1, <1>2, UnderWayIs DEF Working, Swap, PutBack
  <2>5. Alone(h)'
    BY <2>3, <1>1, <1>7 DEF Alone, Halfway, Exists, WithNew, Containers
  <2> QED  BY <2>4, <2>5, <1>7, <1>1 DEF StepsInOrder
<1>8. CASE pc[h] = "drop"
  <2>1. Subject(h) = h /\ StateAfter(h) = "absent" /\ Following(pc[h]) = "back"
    BY <1>1, <1>8 DEF Subject, StateAfter, Halfway, Following, PutBack, SwapOrder, PutBackOrder
  <2>2. Accepted(h)
    BY <2>1, <1>1, <1>8 DEF Accepted, Halfway, Exists, WithNew
  <2>3. /\ state'[h] = "absent" /\ pc'[h] = "back"
        /\ \A d \in Containers \ {h} : state'[d] = state[d] /\ name'[d] = name[d]
        /\ newId'[h] = newId[h]
    BY <2>1, <2>2, <1>1, <1>2, <1>8 DEF TypeOK, NameAsked
  <2>4. UnderWay' = {h}
    BY <2>1, <2>2, <1>1, <1>2, UnderWayIs DEF Working, Swap, PutBack
  <2>5. Halfway(h, c)'
    BY <2>3, <2>4, <1>1, <1>8 DEF Halfway, Exists, WithNew, Containers
  <2> QED  BY <2>5
<1>9. CASE pc[h] = "back"
  <2>1. Subject(h) = c /\ StateAfter(h) = "down" /\ Following(pc[h]) = "restart"
    BY <1>1, <1>9 DEF Subject, StateAfter, Halfway, Following, PutBack, SwapOrder, PutBackOrder
  <2>2. Accepted(h)
    BY <2>1, <1>1, <1>9 DEF Accepted, Halfway, Exists, WithNew, NameIsFree, NameAsked
  <2>3. /\ state'[c] = "down" /\ pc'[h] = "restart"
        /\ \A d \in Containers \ {c} : state'[d] = state[d] /\ name'[d] = name[d]
        /\ name'[c] = 0
        /\ newId'[h] = newId[h]
    BY <2>1, <2>2, <1>1, <1>2, <1>9 DEF TypeOK, NameAsked, Halfway, WithNew
  <2>4. UnderWay' = {h}
    BY <2>1, <2>2, <1>1, <1>2, UnderWayIs DEF Working, Swap, PutBack
  <2>5. Halfway(h, c)'
    BY <2>3, <2>4, <1>1, <1>9 DEF Halfway, Exists, WithNew, Containers
  <2> QED  BY <2>5
<1>10. CASE pc[h] = "restart"
  <2>1. Subject(h) = c /\ StateAfter(h) = "up" /\ Following(pc[h]) = "done"
    BY <1>1, <1>10 DEF Subject, StateAfter, Halfway, Following, PutBack, SwapOrder, PutBackOrder
  <2>2. Accepted(h)
    BY <2>1, <1>1, <1>10 DEF Accepted, Halfway, Exists, WithNew
  <2>3. /\ state'[c] = "up" /\ pc'[h] = "done"
        /\ \A d \in Containers \ {c} : state'[d] = state[d] /\ name'[d] = name[d]
        /\ name'[c] = 0
        /\ newId'[h] = newId[h]
    BY <2>1, <2>2, <1>1, <1>2, <1>10 DEF TypeOK, NameAsked, Halfway, WithNew
  <2>4. UnderWay' = {}
    BY <2>1, <2>2, <1>1, <1>2, UnderWayIs DEF Working, Swap, PutBack
  <2>5. Alone(c)'
    BY <2>3, <1>1, <1>10 DEF Alone, Halfway, Exists, WithNew, Containers
  <2> QED  BY <2>4, <2>5
<1> QED  BY <1>3, <1>4, <1>5, <1>6, <1>7, <1>8, <1>9, <1>10 DEF Ask, Working, Swap, PutBack

\* While nothing fails, every step of updates one at a time leaves the server
\* alone or the update halfway.
LEMMA OneStep ==
  ASSUME TypeOK, StepsInOrder, PortIsUp, OneAtATime, [Next]_vars
  PROVE  OneAtATime'
<1> USE NamesAssumption
<1> DEFINE Goal == \E c \in proved' : \/ (UnderWay = {} /\ Alone(c))'
                                      \/ \E h \in Helpers : Halfway(h, c)'
<1> SUFFICES ASSUME faults' = 0, ~crossed'  PROVE Goal
  BY DEF OneAtATime
<1>1. ASSUME NEW h \in Helpers, AskRefused(h) \/ Killed(h) \/ \E arrives \in BOOLEAN : AskRaises(h, arrives)
      PROVE  FALSE
  <2>1. faults' = faults + 1
    BY <1>1 DEF AskRefused, Killed, AskRaises
  <2>2. faults \in Nat
    BY BoundsAssumption DEF TypeOK
  <2> QED  BY <2>1, <2>2
<1>2. faults = 0 /\ ~crossed
  <2>1. ASSUME NEW h \in Helpers, Ask(h) \/ (\E up \in BOOLEAN : Settle(h, up))
                                 \/ Apply(h) \/ Launch(h) \/ GivesUp(h)
        PROVE  faults = 0 /\ ~crossed
    BY <2>1 DEF Ask, Settle, Apply, Launch, GivesUp, TypeOK
  <2>2. ASSUME NEW c \in Containers, Serve(c)
        PROVE  faults = 0 /\ ~crossed
    BY <2>2 DEF Serve
  <2> QED  BY <1>1, <2>1, <2>2 DEF Next, Help, vars
<1>3. PICK c \in proved : \/ UnderWay = {} /\ Alone(c)
                          \/ \E h \in Helpers : Halfway(h, c)
  BY <1>2 DEF OneAtATime
<1>4. c \in Containers
  BY DEF TypeOK
<1>5. CASE UNCHANGED <<state, name, pc, plan, newId, proved>>
  BY <1>5, <1>3 DEF Alone, Halfway, UnderWay, Exists
<1>6. ASSUME NEW h \in Helpers, Ask(h)
      PROVE  Goal
  <2>1. Halfway(h, c)
    BY <1>3, <1>6 DEF Ask, UnderWay, Halfway
  <2>2. proved' = proved  BY <1>6 DEF Ask
  <2> QED  BY <2>1, <2>2, <1>6, HalfwayAsks
<1>7. ASSUME NEW h \in Helpers, NEW up \in BOOLEAN, Settle(h, up)
      PROVE  Goal
  <2>1. Halfway(h, c)
    BY <1>3, <1>7 DEF Settle, UnderWay, Halfway, Working, Swap
  <2>2. /\ UNCHANGED <<state, name, plan, newId>>
        /\ pc'[h] = IF up THEN "remove" ELSE "drop"
        /\ pc' = [pc EXCEPT ![h] = IF up THEN "remove" ELSE "drop"]
        /\ proved \subseteq proved' /\ pc[h] = "settle"
    BY <1>7, <2>1 DEF Settle, docker, Raised, Halfway, WithNew, PutBack, TypeOK
  <2>3. UnderWay' = {h}
    BY <2>1, <2>2, UnderWayIs, ZenonT(60) DEF Halfway, Working, Swap, PutBack
  <2>4. Halfway(h, c)'
    BY <2>1, <2>2, <2>3 DEF Halfway, Exists, WithNew
  <2> QED  BY <2>2, <2>4
<1>8. ASSUME NEW h \in Helpers, Apply(h)
      PROVE  Goal
  <2>1. UnderWay = {} /\ Alone(c)
    BY <1>3, <1>8 DEF Apply, Halfway
  <2>2. /\ UNCHANGED <<state, name, newId, proved>>
        /\ pc[h] = "unused" /\ pc'[h] = "pull"
        /\ pc' = [pc EXCEPT ![h] = "pull"]
        /\ plan'[h] = [old |-> port, name |-> name[port]]
        /\ port \in Containers /\ port # None
    BY <1>8 DEF Apply, Planned, docker, TypeOK
  <2>3. port = c /\ name[c] = 0 /\ state[c] = "up"
    BY <2>1, <2>2 DEF Alone, PortIsUp, Exists
  <2>4. ~Exists(h)
    BY <2>2 DEF StepsInOrder
  <2>5. h # c
    BY <2>3, <2>4 DEF Exists
  <2>6. UnderWay' = {h}
    BY <2>1, <2>2, UnderWayIs
  <2>7. Halfway(h, c)'
    BY <2>1, <2>2, <2>3, <2>4, <2>5, <2>6 DEF Halfway, Alone, Exists, WithNew
  <2> QED  BY <2>2, <2>7
<1>9. ASSUME NEW h \in Helpers, Launch(h)
      PROVE  Goal
  <2>1. Halfway(h, c)
    BY <1>3, <1>9 DEF Launch, UnderWay, Halfway
  <2>2. /\ UNCHANGED <<state, name, plan, newId, proved>>
        /\ pc[h] = "pull" /\ pc'[h] = "stop"
        /\ pc' = [pc EXCEPT ![h] = "stop"]
    BY <1>9 DEF Launch, docker, TypeOK
  <2>3. UnderWay' = {h}
    BY <2>1, <2>2, UnderWayIs, ZenonT(60) DEF Halfway, Working, Swap
  <2>4. Halfway(h, c)'
    BY <2>1, <2>2, <2>3 DEF Halfway, Exists, WithNew
  <2> QED  BY <2>2, <2>4
<1>10. ASSUME NEW h \in Helpers, GivesUp(h)
       PROVE  Goal
  <2>1. Halfway(h, c)
    BY <1>3, <1>10 DEF GivesUp, UnderWay, Halfway
  <2>2. /\ UNCHANGED <<state, name, proved>>
        /\ pc[h] = "pull" /\ pc' = [pc EXCEPT ![h] = "done"]
    BY <1>10 DEF GivesUp, docker
  <2>3. UnderWay' = {}
    <3>1. UnderWay = {h} /\ "done" \notin Working \cup {"pull"}
      BY <2>1 DEF Halfway, Working, Swap, PutBack
    <3> QED  BY <3>1, <2>2, UnderWayIs
  <2>4. Alone(c)'
    BY <2>1, <2>2 DEF Halfway, Alone, Exists, WithNew
  <2> QED  BY <2>2, <2>3, <2>4
<1>11. ASSUME NEW d \in Containers, Serve(d)
       PROVE  Goal
  BY <1>11, <1>5 DEF Serve
<1> QED  BY <1>1, <1>5, <1>6, <1>7, <1>8, <1>9, <1>10, <1>11 DEF Next, Help, vars, docker

-----------------------------------------------------------------------------
(* The invariant and the theorems.                                         *)

\* What an update starts from.
LEMMA UpdateStarts ==
  ASSUME Init
  PROVE  UpdateInv
<1> USE NamesAssumption, BoundsAssumption
<1>1. TypeOK
  <2>1. /\ state \in [Containers -> {"absent", "created", "up", "down"}]
        /\ name \in [Containers -> Nat]
    BY DEF Init
  <2>2. /\ pc \in [Helpers -> Working \cup {"unused", "pull", "done", "killed"}]
        /\ plan \in [Helpers -> [old : Containers, name : Nat] \cup {None}]
        /\ newId \in [Helpers -> BOOLEAN]
    BY DEF Init
  <2>3. faults \in 0 .. MaxFaults
    BY DEF Init
  <2>4. /\ port \in Containers \cup {None} /\ proved \subseteq Containers
        /\ bad \subseteq Helpers
    BY DEF Init, Containers
  <2>5. unheard \in BOOLEAN /\ crossed \in BOOLEAN
    BY DEF Init
  <2> QED  BY <2>1, <2>2, <2>3, <2>4, <2>5 DEF TypeOK
<1>2. StepsInOrder /\ PortIsUp
  BY DEF Init, StepsInOrder, PortIsUp, Exists, Containers
<1>3. Ranked
  <2>1. [c \in Containers |-> 0] \in [Containers -> 0 .. 0]
    OBVIOUS
  <2>2. IsRank([c \in Containers |-> 0])
    BY DEF Init, IsRank
  <2> QED  BY <2>1, <2>2 DEF Ranked
<1>4. LineIsKept
  <2>1. {First} \in SUBSET proved /\ IsLine({First})
    BY DEF Init, IsLine, Exists, Containers
  <2> QED  BY <2>1 DEF LineIsKept
<1>5. OneAtATime
  <2>1. UnderWay = {}
    BY DEF Init, UnderWay, Working, Swap, PutBack
  <2>2. First \in proved /\ Alone(First)
    BY DEF Init, Alone, Exists, Containers
  <2> QED  BY <2>1, <2>2 DEF OneAtATime
<1> QED  BY <1>1, <1>2, <1>3, <1>4, <1>5 DEF UpdateInv

\* The inductive invariant holds of every update: the containers follow each
\* other in a line (Ranked, LineIsKept), and one update at a time is at a known
\* place between two servers (OneAtATime).
THEOREM UpdateInvariant == Spec => []UpdateInv
<1>1. Init => UpdateInv
  BY UpdateStarts
<1>2. UpdateInv /\ [Next]_vars => UpdateInv'
  BY TypingStep, OrderStep, RankStep, LineStep, OneStep DEF UpdateInv
<1> QED  BY <1>1, <1>2, PTL DEF Spec

\* Every variable of an update keeps its type.
THEOREM UpdateTyping == Spec => []TypeOK
<1>1. UpdateInv => TypeOK
  BY DEF UpdateInv
<1> QED  BY <1>1, UpdateInvariant, PTL

\* One at a time and without failures, updates that are over leave one server.
LEMMA AloneIsLeft ==
  ASSUME OneAtATime
  PROVE  OneServerIsLeft
BY DEF OneAtATime, OneServerIsLeft, Alone, Halfway

\* However updates overlap and fail, a container that has been found to work is
\* there, as long as every removal is answered; and updates one at a time leave
\* one server, up and under its name.
THEOREM WorkingServersAreKept == Spec => []WorkingServerIsKept
<1>1. UpdateInv => WorkingServerIsKept
  BY LastIsThere, AloneIsLeft DEF UpdateInv, WorkingServerIsKept
<1> QED  BY <1>1, UpdateInvariant, PTL

-----------------------------------------------------------------------------
(* The agent and its settings.                                             *)

\* What a place may hold, and what a helper may be at.
Saved == Settings \cup {Unset}
Stages == {"none", "first", "wait", "removed", "started", "run"}

\* A process that has started and is not waiting.
Running == agent.state \in {"starting", "up"}

\* The settings are somewhere; what is at work has an agent that is up.
UpdateShape ==
  /\ latest \in Settings /\ {reg, boot, file} \subseteq Saved
  /\ overtaken \in BOOLEAN /\ reached \in BOOLEAN /\ dialog \in BOOLEAN /\ online \in BOOLEAN
  /\ Running => agent.cfg \in Settings
  /\ asked # <<>> \/ online => agent.state = "up"
  /\ helper = [i \in Slots |-> helper[i]]
  /\ \A i \in Slots :
       /\ helper[i] \in [stage : Stages, msi : {helper[i].msi}, props : Saved]
       /\ helper[i].stage # "none" => helper[i].props \in Settings

\* Where a process that starts finds the settings saved last, all hold them that it,
\* or an installer, may hand on.
AllHoldLatest ==
  /\ reg \in {latest, Unset}
  /\ reg = Unset => file \in {latest, Unset} /\ ~dialog
  /\ \A i \in Slots : helper[i].stage # "none" =>
       /\ ~dialog
       /\ helper[i].props = latest
       /\ helper[i].stage # "first" => file = latest
  /\ Running => dialog \/ agent.cfg = latest
  /\ reached /\ Running => agent.cfg = latest

\* Or none does: an installation has taken them away before an agent ran with them.
NoneHoldsLatest ==
  /\ ~reached
  /\ reg # latest /\ file # latest
  /\ \A i \in Slots : helper[i].stage # "none" => helper[i].props # latest
  /\ Running => agent.cfg # latest

\* Where it finds older ones, of the last boot, it runs with these.
KeptOrUnreached ==
  ~overtaken =>
    \/ boot \in {latest, Unset} /\ AllHoldLatest
    \/ boot = Unset /\ NoneHoldsLatest
    \/ boot \notin {latest, Unset} /\ ~reached

AgentInv == UpdateShape /\ KeptOrUnreached

LEMMA AgentInvInit == AgentInit => AgentInv
<1> SUFFICES ASSUME AgentInit PROVE AgentInv
  OBVIOUS
<1>1. /\ latest \in Settings /\ reg \in {latest, Unset} /\ boot \in {reg, Unset} /\ file = Unset
      /\ agent = Down /\ agent.state = "down" /\ online = FALSE /\ asked = <<>>
      /\ dialog = FALSE /\ reached = FALSE /\ overtaken = FALSE
  BY DEF AgentInit, Down
<1> DEFINE first == [stage |-> "first", msi |-> 1, props |-> latest]
<1>2. /\ helper = [i \in Slots |-> helper[i]]
      /\ \A i \in Slots : helper[i] = IF reg = Unset /\ i = FirstSlot THEN first ELSE Idle
  BY DEF AgentInit
<1>3. UpdateShape
  <2>1. \A i \in Slots :
         /\ helper[i] \in [stage : Stages, msi : {helper[i].msi}, props : Saved]
         /\ helper[i].stage # "none" => helper[i].props \in Settings
    BY <1>1, <1>2 DEF Idle, Stages, Saved
  <2> QED  BY <1>1, <1>2, <2>1 DEF UpdateShape, Saved, Running
<1>4. \A i \in Slots : helper[i].stage # "none" => i = FirstSlot /\ helper[i] = first
  BY <1>2 DEF Idle
<1>5. KeptOrUnreached
  BY <1>1, <1>4, UpdateAssumption DEF KeptOrUnreached, AllHoldLatest, Running
<1> QED  BY <1>3, <1>5 DEF AgentInv

-----------------------------------------------------------------------------

\* The server, the connection and the tokens: an agent that is at work is up.
LEMMA ServerKeepsAgent ==
  ASSUME AgentInv,
         UNCHANGED <<reg, boot, file, agent, helper, dialog, latest, reached, overtaken>>,
         online' \in BOOLEAN, asked' # <<>> \/ online' => agent.state = "up"
  PROVE  AgentInv'
<1>1. UpdateShape'
  BY DEF AgentInv, UpdateShape, Saved, Running
<1>2. KeptOrUnreached'
  BY DEF AgentInv, KeptOrUnreached, AllHoldLatest, NoneHoldsLatest, Running
<1> QED  BY <1>1, <1>2 DEF AgentInv

\* The process ends, and the dialog may be over.
LEMMA EndKeepsAgent ==
  ASSUME AgentInv, agent' = Down, asked' = <<>>, online' = FALSE,
         UNCHANGED <<reg, boot, file, helper, latest, reached, overtaken>>,
         dialog' \in BOOLEAN, dialog' => dialog
  PROVE  AgentInv'
<1>1. ~Running' /\ asked' = <<>> /\ online' = FALSE
  BY DEF Down, Running
<1>2. UpdateShape'
  BY <1>1 DEF AgentInv, UpdateShape, Saved
<1>3. KeptOrUnreached'
  BY <1>1 DEF AgentInv, KeptOrUnreached, AllHoldLatest, NoneHoldsLatest
<1> QED  BY <1>2, <1>3 DEF AgentInv

\* What a process finds when it starts.
LEMMA ConfigFound ==
  ASSUME AgentInv
  PROVE  /\ Config \in Saved
         /\ boot \in {latest, Unset} /\ AllHoldLatest => Config \in {latest, Unset}
         /\ boot = Unset /\ NoneHoldsLatest => Config # latest
         /\ boot # Unset => Config = boot
  BY DEF AgentInv, UpdateShape, AllHoldLatest, NoneHoldsLatest, Config, Env, Saved

LEMMA StartKeepsAgent ==
  ASSUME AgentInv, agent.state \in {"down", "waiting"}, Started(Config), Reaches(Config),
         UNCHANGED <<reg, boot, online, asked, helper, dialog, latest, overtaken>>
  PROVE  AgentInv'
<1>1. /\ agent'.state = (IF Config = Unset THEN "waiting" ELSE "starting")
      /\ agent'.cfg = Config
      /\ file' = IF Config = Unset THEN file ELSE Config
      /\ reached' = (reached \/ Config = latest)
  BY DEF Started, Keep, Reaches
<1>2. Running' => Config # Unset
  BY <1>1 DEF Running
<1>3. UpdateShape'
  <2>1. file' \in Saved /\ reached' \in BOOLEAN
    BY <1>1, ConfigFound DEF AgentInv, UpdateShape
  <2>2. Running' => agent'.cfg \in Settings
    BY <1>1, <1>2, ConfigFound DEF Saved
  <2>3. asked' = <<>> /\ ~online'
    BY DEF AgentInv, UpdateShape
  <2> QED  BY <2>1, <2>2, <2>3 DEF AgentInv, UpdateShape
<1>4. ASSUME boot \in {latest, Unset}, AllHoldLatest PROVE AllHoldLatest'
  <2>1. Config \in {latest, Unset}
    BY <1>4, ConfigFound
  <2> QED  BY <1>1, <1>2, <1>4, <2>1 DEF AllHoldLatest
<1>5. ASSUME boot = Unset, NoneHoldsLatest PROVE NoneHoldsLatest'
  <2>1. Config # latest
    BY <1>5, ConfigFound
  <2> QED  BY <1>1, <1>5, <2>1 DEF NoneHoldsLatest
<1>6. ASSUME boot \notin {latest, Unset}, ~reached PROVE ~reached'
  BY <1>1, <1>6, ConfigFound
<1>7. KeptOrUnreached'
  BY <1>4, <1>5, <1>6 DEF AgentInv, KeptOrUnreached
<1> QED  BY <1>3, <1>7 DEF AgentInv

\* It goes on, whether it could look after its task or not.
LEMMA TaskKeepsAgent == AgentInv /\ LooksAfterTask => AgentInv'
<1> SUFFICES ASSUME AgentInv, LooksAfterTask PROVE AgentInv'
  OBVIOUS
<1>1. /\ agent.state = "starting" /\ agent' = [agent EXCEPT !.state = "up"]
      /\ UNCHANGED <<reg, boot, file, online, asked, helper, dialog, latest, reached, overtaken>>
  BY DEF LooksAfterTask, settings
<1>2. Running /\ agent'.cfg = agent.cfg /\ asked' = <<>> /\ ~online'
  BY <1>1 DEF AgentInv, UpdateShape, Running
<1>3. UpdateShape'
  BY <1>1, <1>2 DEF AgentInv, UpdateShape, Saved
<1>4. KeptOrUnreached'
  BY <1>1, <1>2 DEF AgentInv, KeptOrUnreached, AllHoldLatest, NoneHoldsLatest
<1> QED  BY <1>3, <1>4 DEF AgentInv

\* An update is begun, or fails to: the file is written.
LEMMA DownloadFailsKeepsAgent == AgentInv /\ DownloadFails => AgentInv'
<1> SUFFICES ASSUME AgentInv, DownloadFails PROVE AgentInv'
  OBVIOUS
<1>1. /\ agent.state = "up" /\ Running /\ agent.cfg \in Settings
      /\ UNCHANGED <<reg, boot, agent, online, helper, dialog, latest, reached, overtaken>>
  BY DEF AgentInv, UpdateShape, DownloadFails, ghosts, Running
<1>2. file' = agent.cfg
  BY <1>1, UpdateAssumption DEF DownloadFails, Keep
<1>3. UpdateShape'
  BY <1>1, <1>2 DEF AgentInv, UpdateShape, Saved, Running
<1>4. AllHoldLatest => AllHoldLatest'
  BY <1>1, <1>2 DEF AllHoldLatest, Running
<1>5. NoneHoldsLatest => NoneHoldsLatest'
  BY <1>1, <1>2 DEF NoneHoldsLatest, Running
<1>6. KeptOrUnreached'
  BY <1>1, <1>4, <1>5 DEF AgentInv, KeptOrUnreached
<1> QED  BY <1>3, <1>6 DEF AgentInv

LEMMA DownloadsKeepsAgent ==
  ASSUME AgentInv, NEW i \in Slots, Downloads(i)
  PROVE  AgentInv'
<1> DEFINE new == NewHelper(Installer(Head(asked)), agent.cfg)
<1>1. /\ agent.state = "up" /\ Running /\ agent.cfg \in Settings /\ helper[i].stage = "none"
      /\ UNCHANGED <<reg, boot, agent, online, dialog, latest, reached>>
      /\ overtaken' = (overtaken \/ dialog)
      /\ helper' = [helper EXCEPT ![i] = new]
  BY DEF AgentInv, UpdateShape, Downloads, Running
<1>2. file' = agent.cfg
  BY <1>1, UpdateAssumption DEF Downloads, Keep
<1>3. /\ new.stage = "wait" /\ new.props = agent.cfg
      /\ new \in [stage : Stages, msi : {new.msi}, props : Saved]
  BY <1>1 DEF NewHelper, Stages, Saved
<1>4. /\ helper' = [j \in Slots |-> helper'[j]]
      /\ \A j \in Slots : helper'[j] = IF j = i THEN new ELSE helper[j]
  BY <1>1 DEF AgentInv, UpdateShape
<1> HIDE DEF new
<1>5. UpdateShape'
  <2>1. \A j \in Slots :
         /\ helper'[j] \in [stage : Stages, msi : {helper'[j].msi}, props : Saved]
         /\ helper'[j].stage # "none" => helper'[j].props \in Settings
    BY <1>1, <1>3, <1>4 DEF AgentInv, UpdateShape
  <2> QED  BY <1>1, <1>2, <1>4, <2>1 DEF AgentInv, UpdateShape, Saved, Running
<1>6. ASSUME AllHoldLatest, ~dialog PROVE AllHoldLatest'
  BY <1>1, <1>2, <1>3, <1>4, <1>6 DEF AllHoldLatest, Running
<1>7. ASSUME NoneHoldsLatest PROVE NoneHoldsLatest'
  BY <1>1, <1>2, <1>3, <1>4, <1>7 DEF NoneHoldsLatest, Running
<1>8. KeptOrUnreached'
  BY <1>1, <1>6, <1>7 DEF AgentInv, KeptOrUnreached
<1> QED  BY <1>5, <1>8 DEF AgentInv

-----------------------------------------------------------------------------
(* Its update helper.                                                      *)

\* A helper goes to another stage of its work.
StageSet(i, stage) ==
  /\ helper' = [j \in Slots |-> helper'[j]]
  /\ \A j \in Slots \ {i} : helper'[j] = helper[j]
  /\ helper'[i].stage = stage
  /\ helper'[i] \in [stage : Stages, msi : {helper'[i].msi}, props : Saved]
  /\ stage # "none" => helper'[i].props = helper[i].props

LEMMA StageSets ==
  ASSUME AgentInv, NEW i \in Slots, NEW stage \in Stages,
         helper' = [helper EXCEPT ![i].stage = stage]
  PROVE  StageSet(i, stage)
<1>1. helper[i] \in [stage : Stages, msi : {helper[i].msi}, props : Saved]
      /\ helper = [j \in Slots |-> helper[j]]
  BY DEF AgentInv, UpdateShape
<1>2. helper'[i] = [helper[i] EXCEPT !.stage = stage]
  BY <1>1
<1> QED  BY <1>1, <1>2 DEF StageSet

LEMMA IdleSets ==
  ASSUME AgentInv, NEW i \in Slots, helper' = [helper EXCEPT ![i] = Idle]
  PROVE  StageSet(i, "none")
  BY DEF AgentInv, UpdateShape, StageSet, Idle, Stages, Saved

\* The shape after a step of a helper that is at work.
LEMMA HelperShape ==
  ASSUME AgentInv, NEW i \in Slots, NEW stage \in Stages, StageSet(i, stage),
         helper[i].stage # "none", reg' \in Saved,
         UNCHANGED <<boot, file, agent, online, asked, dialog, latest, reached, overtaken>>
  PROVE  UpdateShape'
<1>1. \A j \in Slots :
        /\ helper'[j] \in [stage : Stages, msi : {helper'[j].msi}, props : Saved]
        /\ helper'[j].stage # "none" => helper'[j].props \in Settings
  BY DEF AgentInv, UpdateShape, StageSet
<1> QED  BY <1>1 DEF AgentInv, UpdateShape, StageSet, Saved, Running

\* What the settings are after one: the environment is kept, or taken away and put
\* back.
LEMMA HelperKept ==
  ASSUME AgentInv, NEW i \in Slots, NEW stage \in Stages \ {"first"}, StageSet(i, stage),
         helper[i].stage # "none", reg' \in {reg, helper[i].props, Unset},
         reg' = Unset => reg = Unset \/ helper[i].stage # "first",
         helper[i].stage = "first" => stage = "none",
         UNCHANGED <<boot, file, agent, online, asked, dialog, latest, reached, overtaken>>
  PROVE  KeptOrUnreached'
<1>1. ASSUME AllHoldLatest PROVE AllHoldLatest'
  <2>1. reg' \in {latest, Unset} /\ ~dialog
    BY <1>1 DEF AllHoldLatest
  <2>2. reg' = Unset => file \in {latest, Unset}
    BY <1>1 DEF AllHoldLatest
  <2>3. \A j \in Slots : helper'[j].stage # "none" =>
          helper'[j].props = latest /\ (helper'[j].stage # "first" => file = latest)
    BY <1>1 DEF AllHoldLatest, StageSet
  <2> QED  BY <1>1, <2>1, <2>2, <2>3 DEF AllHoldLatest, Running
<1>2. ASSUME NoneHoldsLatest PROVE NoneHoldsLatest'
  <2>1. reg' # latest
    BY <1>2, UpdateAssumption DEF NoneHoldsLatest, AgentInv, UpdateShape
  <2>2. \A j \in Slots : helper'[j].stage # "none" => helper'[j].props # latest
    BY <1>2 DEF NoneHoldsLatest, StageSet
  <2> QED  BY <1>2, <2>1, <2>2 DEF NoneHoldsLatest, Running
<1> QED  BY <1>1, <1>2 DEF AgentInv, KeptOrUnreached

LEMMA HelperKeepsAgent ==
  ASSUME AgentInv, NEW i \in Slots,
         \/ InstallFails(i) \/ RemovalFails(i) \/ Removes(i) \/ Copies(i)
         \/ InstallBreaksOff(i) \/ WritesEnvironment(i) \/ RunsTask(i)
  PROVE  AgentInv'
<1> USE DEF settings, process, ghosts
<1>1. CASE InstallFails(i) \/ RemovalFails(i)
  <2>1. /\ UNCHANGED <<reg, boot, file, agent, online, asked, dialog, latest, reached, overtaken>>
        /\ helper[i].stage = "wait" /\ helper' = [helper EXCEPT ![i].stage = "run"]
    BY <1>1 DEF InstallFails, RemovalFails, At
  <2>2. StageSet(i, "run")
    BY <2>1, StageSets DEF Stages
  <2>3. UpdateShape' /\ KeptOrUnreached'
    BY <2>1, <2>2, HelperShape, HelperKept DEF Stages, AgentInv, UpdateShape
  <2> QED  BY <2>3 DEF AgentInv
<1>2. CASE Removes(i)
  <2>1. /\ UNCHANGED <<boot, file, agent, online, asked, dialog, latest, reached, overtaken>>
        /\ helper[i].stage = "wait" /\ helper' = [helper EXCEPT ![i].stage = "removed"]
        /\ reg' \in {reg, Unset}
    BY <1>2 DEF Removes, At
  <2>2. StageSet(i, "removed")
    BY <2>1, StageSets DEF Stages
  <2>3. reg' \in Saved
    BY <2>1 DEF AgentInv, UpdateShape, Saved
  <2>4. UpdateShape'
    BY <2>1, <2>2, <2>3, HelperShape DEF Stages
  <2>5. KeptOrUnreached'
    BY <2>1, <2>2, HelperKept DEF Stages
  <2> QED  BY <2>4, <2>5 DEF AgentInv
<1>3. CASE Copies(i)
  <2>1. /\ UNCHANGED <<reg, boot, file, agent, online, asked, dialog, latest, reached, overtaken>>
        /\ helper[i].stage = "removed" /\ helper' = [helper EXCEPT ![i].stage = "started"]
    BY <1>3 DEF Copies, At
  <2>2. StageSet(i, "started")
    BY <2>1, StageSets DEF Stages
  <2>3. UpdateShape' /\ KeptOrUnreached'
    BY <2>1, <2>2, HelperShape, HelperKept DEF Stages, AgentInv, UpdateShape
  <2> QED  BY <2>3 DEF AgentInv
<1>4. CASE WritesEnvironment(i)
  <2>1. /\ UNCHANGED <<boot, file, agent, online, asked, dialog, latest, reached, overtaken>>
        /\ helper[i].stage \in {"first", "started"} /\ reg' = helper[i].props
        /\ helper' = [helper EXCEPT ![i] = IF @.stage = "first" THEN Idle
                                           ELSE [@ EXCEPT !.stage = "run"]]
    BY <1>4 DEF WritesEnvironment
  <2>2. PICK stage \in {"none", "run"} :
          StageSet(i, stage) /\ (helper[i].stage = "first" => stage = "none")
    <3>1. CASE helper[i].stage = "first"
      <4>1. helper' = [helper EXCEPT ![i] = Idle]
        BY <2>1, <3>1
      <4> QED  BY <3>1, <4>1, IdleSets
    <3>2. CASE helper[i].stage = "started"
      <4>1. helper' = [helper EXCEPT ![i].stage = "run"]
        BY <2>1, <3>2
      <4> QED  BY <3>2, <4>1, StageSets DEF Stages
    <3> QED  BY <2>1, <3>1, <3>2
  <2>3. helper[i].props \in Settings
    BY <2>1 DEF AgentInv, UpdateShape
  <2>4. reg' # Unset /\ reg' \in Saved
    BY <2>1, <2>3, UpdateAssumption DEF Saved
  <2>5. UpdateShape' /\ KeptOrUnreached'
    BY <2>1, <2>2, <2>4, HelperShape, HelperKept DEF Stages
  <2> QED  BY <2>5 DEF AgentInv
<1>5. CASE RunsTask(i)
  <2>1. /\ UNCHANGED <<reg, boot, file, agent, online, asked, dialog, latest, reached, overtaken>>
        /\ helper[i].stage = "run" /\ helper' = [helper EXCEPT ![i] = Idle]
    BY <1>5 DEF RunsTask
  <2>2. StageSet(i, "none")
    BY <2>1, IdleSets
  <2>3. UpdateShape' /\ KeptOrUnreached'
    BY <2>1, <2>2, HelperShape, HelperKept DEF Stages, AgentInv, UpdateShape
  <2> QED  BY <2>3 DEF AgentInv
<1>6. CASE InstallBreaksOff(i)
  <2>1. /\ UNCHANGED <<reg, boot, file, agent, online, asked, dialog, latest, reached, overtaken>>
        /\ helper[i].stage \in {"first", "removed", "started"}
        /\ helper' = [helper EXCEPT ![i] = IF @.stage = "first" THEN Idle
                                           ELSE [@ EXCEPT !.stage = "run"]]
    BY <1>6 DEF InstallBreaksOff, Installing
  <2>2. PICK stage \in {"none", "run"} :
          StageSet(i, stage) /\ (helper[i].stage = "first" => stage = "none")
    <3>1. CASE helper[i].stage = "first"
      <4>1. helper' = [helper EXCEPT ![i] = Idle]
        BY <2>1, <3>1
      <4> QED  BY <3>1, <4>1, IdleSets
    <3>2. CASE helper[i].stage # "first"
      <4>1. helper' = [helper EXCEPT ![i].stage = "run"]
        BY <2>1, <3>2
      <4> QED  BY <3>2, <4>1, StageSets DEF Stages
    <3> QED  BY <3>1, <3>2
  <2>3. UpdateShape' /\ KeptOrUnreached'
    BY <2>1, <2>2, HelperShape, HelperKept DEF Stages, AgentInv, UpdateShape
  <2> QED  BY <2>3 DEF AgentInv
<1> QED  BY <1>1, <1>2, <1>3, <1>4, <1>5, <1>6

-----------------------------------------------------------------------------
(* The device, and the specification.                                      *)

\* A boot hands on what is in the environment, or takes away what there was.
LEMMA RebootKeepsAgent == AgentInv /\ Reboot => AgentInv'
<1> SUFFICES ASSUME AgentInv, Reboot PROVE AgentInv'
  OBVIOUS
<1>1. /\ UNCHANGED <<reg, file, latest, reached, overtaken>>
      /\ ~Running' /\ asked' = <<>> /\ online' = FALSE
      /\ helper' = [i \in Slots |-> Idle] /\ boot' = reg /\ dialog' = FALSE
  BY DEF Reboot, Ends, Down, Running
<1>2. \A i \in Slots :
        /\ helper'[i].stage = "none"
        /\ helper'[i] \in [stage : Stages, msi : {helper'[i].msi}, props : Saved]
  BY <1>1 DEF Idle, Stages, Saved
<1>3. UpdateShape'
  BY <1>1, <1>2 DEF AgentInv, UpdateShape, Saved
<1>4. ASSUME AllHoldLatest PROVE reg \in {latest, Unset} /\ AllHoldLatest'
  BY <1>1, <1>2, <1>4 DEF AllHoldLatest
<1>5. ASSUME reg = latest PROVE AllHoldLatest'
  BY <1>1, <1>2, <1>5, UpdateAssumption DEF AllHoldLatest, AgentInv, UpdateShape
<1>6. ASSUME ~reached, reg = Unset PROVE AllHoldLatest' \/ NoneHoldsLatest'
  BY <1>1, <1>2, <1>6, UpdateAssumption
     DEF AllHoldLatest, NoneHoldsLatest, AgentInv, UpdateShape
<1>7. ASSUME ~reached PROVE KeptOrUnreached'
  BY <1>1, <1>5, <1>6, <1>7 DEF KeptOrUnreached
<1>8. ASSUME AllHoldLatest PROVE KeptOrUnreached'
  BY <1>1, <1>4, <1>8 DEF KeptOrUnreached
<1>9. KeptOrUnreached'
  BY <1>1, <1>7, <1>8 DEF AgentInv, KeptOrUnreached, NoneHoldsLatest
<1> QED  BY <1>3, <1>9 DEF AgentInv

LEMMA SaveKeepsAgent ==
  ASSUME AgentInv, NEW s \in Settings, Save(s)
  PROVE  AgentInv'
<1>1. /\ UNCHANGED <<boot, file, agent, online, asked, helper>>
      /\ reg' = s /\ dialog' = TRUE /\ latest' = s /\ reached' = FALSE
      /\ overtaken' = \E i \in Slots : helper[i].stage # "none"
  BY DEF Save, ApplySettings, process
<1>2. UpdateShape'
  BY <1>1 DEF AgentInv, UpdateShape, Saved, Running
<1>3. ASSUME ~overtaken', boot \in {s, Unset} PROVE AllHoldLatest'
  BY <1>1, <1>3, UpdateAssumption DEF AllHoldLatest
<1>4. KeptOrUnreached'
  BY <1>1, <1>3 DEF KeptOrUnreached
<1> QED  BY <1>2, <1>4 DEF AgentInv

LEMMA AgentInvStep == AgentInv /\ [AgentNext]_agentVars => AgentInv'
<1> SUFFICES ASSUME AgentInv, [AgentNext]_agentVars PROVE AgentInv'
  OBVIOUS
<1> USE DEF settings, process, ghosts
<1>1. online \in BOOLEAN /\ (asked # <<>> \/ online => agent.state = "up")
  BY DEF AgentInv, UpdateShape
<1>2. ASSUME NewServer \/ \E r : Publish(r) PROVE AgentInv'
  <2>1. UNCHANGED <<settings, process, helper, dialog, ghosts>>
    BY <1>2 DEF NewServer, Publish
  <2> QED  BY <1>1, <2>1, ServerKeepsAgent
<1>3. CASE Sweep \/ UpdateDevice
  BY <1>1, <1>3, ServerKeepsAgent DEF Sweep, UpdateDevice
<1>4. ASSUME UpdateOrg \/ \E m, d : SetAutoUpdate(m, d) PROVE AgentInv'
  <2>1. UNCHANGED <<settings, agent, online, helper, dialog, ghosts>>
    BY <1>4 DEF UpdateOrg, SetAutoUpdate
  <2>2. asked' = asked \/ online
    BY <1>4 DEF UpdateOrg, SetAutoUpdate, MaybePush
  <2> QED  BY <1>1, <2>1, <2>2, ServerKeepsAgent
<1>5. CASE Start
  BY <1>5, StartKeepsAgent DEF Start
<1>6. CASE WaitOver
  <2>1. /\ agent.state = "waiting" /\ Reaches(Config)
        /\ UNCHANGED <<reg, boot, online, asked, helper, dialog, latest, overtaken>>
    BY <1>6 DEF WaitOver
  <2>2. CASE Started(Config)
    BY <2>1, <2>2, StartKeepsAgent
  <2>3. CASE Config = Unset /\ agent' = Down /\ Keep(Unset)
    <3>1. file' = file /\ asked' = <<>> /\ online' = FALSE
      BY <1>1, <2>1, <2>3 DEF Keep
    <3>2. reached' = reached
      BY <2>1, <2>3, UpdateAssumption DEF Reaches, AgentInv, UpdateShape
    <3> QED  BY <2>1, <2>3, <3>1, <3>2, EndKeepsAgent DEF AgentInv, UpdateShape
  <2> QED  BY <1>6, <2>2, <2>3 DEF WaitOver
<1>7. CASE Connect
  BY <1>1, <1>7, ServerKeepsAgent DEF Connect
<1>8. CASE DownloadFails
  BY <1>8, DownloadFailsKeepsAgent
<1>9. CASE TokensExpire \/ ConnectionLost
  BY <1>1, <1>9, ServerKeepsAgent DEF TokensExpire, ConnectionLost
<1>10. CASE Exit \/ Crash \/ RestartAgent
  <2>1. /\ UNCHANGED <<reg, boot, file, helper, latest, reached, overtaken>>
        /\ agent' = Down /\ asked' = <<>> /\ online' = FALSE
        /\ dialog' = dialog \/ dialog' = FALSE
    BY <1>10 DEF Exit, Crash, RestartAgent, Ends
  <2>2. dialog \in BOOLEAN
    BY DEF AgentInv, UpdateShape
  <2>3. CASE dialog' = dialog
    BY <2>1, <2>2, <2>3, EndKeepsAgent, Zenon
  <2>4. CASE dialog' = FALSE
    BY <2>1, <2>4, EndKeepsAgent
  <2> QED  BY <2>1, <2>3, <2>4
<1>11. CASE Reboot
  BY <1>11, RebootKeepsAgent
<1>12. ASSUME NEW i \in Slots, Helper(i) \/ Breaks(i) PROVE AgentInv'
  BY <1>12, DownloadsKeepsAgent, HelperKeepsAgent DEF Helper, Breaks
<1>13. ASSUME NEW s \in Settings, Save(s) PROVE AgentInv'
  BY <1>13, SaveKeepsAgent
<1>14. CASE UNCHANGED agentVars
  BY <1>1, <1>14, ServerKeepsAgent DEF agentVars
<1>15. CASE LooksAfterTask
  BY <1>15, TaskKeepsAgent
<1> QED
  BY <1>2, <1>3, <1>4, <1>5, <1>6, <1>7, <1>8, <1>9, <1>10, <1>11, <1>12, <1>13, <1>14, <1>15
     DEF AgentNext

LEMMA HeldIsKept == AgentInv => NoWayBack
  BY DEF AgentInv, KeptOrUnreached, AllHoldLatest, NoneHoldsLatest, Running, NoWayBack

\* An agent that has run with the settings saved last does not go back to older ones,
\* for any settings, versions, helpers at the same time, boots and crashes.
THEOREM NoWayBackEver == AgentSpec => []NoWayBack
<1>1. AgentSpec => []AgentInv
  BY AgentInvInit, AgentInvStep, PTL DEF AgentSpec
<1> QED  BY <1>1, HeldIsKept, PTL

=============================================================================
