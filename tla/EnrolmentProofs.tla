--------------------------- MODULE EnrolmentProofs ---------------------------
(***************************************************************************)
(* Proofs about Enrolment, for every fleet, every set of organisations and *)
(* keys, and every number of connections; and, in the last part, about     *)
(* what one of its devices is told once it is a node (Nodes), for any      *)
(* targets, versions and subnets.                                          *)
(***************************************************************************)
EXTENDS Enrolment, Nodes, SequenceTheorems, TLAPS

\* The messages an agent sends on a connection that is already registered.
Message == {"register", "metrics"}

\* A prefix of what was under way is again a sequence of messages.
LEMMA PrefixType ==
  ASSUME NEW s \in Seq(Message), NEW n \in 0 .. Len(s)
  PROVE  SubSeq(s, 1, n) \in Seq(Message)
  OBVIOUS

LEMMA InitTypeOK == Init => TypeOK
<1>1. SUFFICES ASSUME Init PROVE TypeOK
  OBVIOUS
<1>2. up \in [Conns -> Seq(Message)]
  BY <1>1 DEF Init
<1>3. admin \in 0 .. MaxAdmin
  BY <1>1, ParameterAssumption, SMT DEF Init
<1>4. QED
  BY <1>1, <1>2, <1>3, Zenon DEF Init, TypeOK, Phases, Message

\* What the end of a handler assigns.
LEMMA FinishType ==
  ASSUME TypeOK, NEW c \in Conns, Finish(c)
  PROVE  /\ phase' \in [Conns -> Phases]
         /\ up' \in [Conns -> Seq(Message)]
         /\ registry' \in [Devices -> Conns \cup {None}]
         /\ \A x \in Conns : x # c => phase'[x] = phase[x]
<1>1. registry' \in [Devices -> Conns \cup {None}]
  BY DEF TypeOK, Finish, Unregister
<1>2. <<>> \in Seq(Message)
  OBVIOUS
<1>3. QED
  BY <1>1, <1>2 DEF TypeOK, Finish, Phases, Message

\* Reading a message leaves a sequence of messages.
LEMMA TailType ==
  ASSUME TypeOK, NEW c \in Conns, up[c] # <<>>
  PROVE  [up EXCEPT ![c] = Tail(@)] \in [Conns -> Seq(Message)]
<1>1. up[c] \in Seq(Message)
  BY DEF TypeOK, Message
<1>2. Tail(up[c]) \in Seq(Message)
  BY <1>1
<1>3. QED
  BY <1>2 DEF TypeOK, Message

\* The row that upsert_device leaves.
LEMMA UpsertedType ==
  ASSUME TypeOK, NEW d \in Devices, NEW o \in orgs, NEW b \in BOOLEAN
  PROVE  Upserted(d, o, b) \in Row
<1>1. o \in Orgs
  BY DEF TypeOK
<1>2. CASE row[d] = None
  BY <1>1, <1>2 DEF Upserted, Row
<1>3. CASE row[d] # None
  <2>1. row[d] \in Row
    BY <1>3 DEF TypeOK
  <2>2. QED
    BY <1>1, <1>3, <2>1 DEF Upserted, Row
<1>4. QED
  BY <1>2, <1>3

\* A handler that is running has a device on its connection.
LEMMA PeerKnown ==
  ASSUME TypeOK, NEW c \in Conns, phase[c] # "unused"
  PROVE  peer[c] \in Devices /\ hello[c] \in Hello
  BY DEF TypeOK

LEMMA HandlerTypeOK ==
  ASSUME TypeOK, NEW c \in Conns, Handler(c)
  PROVE  TypeOK'
<1> USE DEF TypeOK, At, database, network, server, history, Phases, Row, Hello
<1>1. CASE HelloLost(c)
  BY <1>1 DEF HelloLost
<1>2. CASE AdmitKnown(c)
  BY <1>2 DEF AdmitKnown
<1>3. CASE AdmitNew(c)
  <2>1. peer[c] \in Devices /\ hello[c].key \in Tokens
    BY <1>3, PeerKnown DEF AdmitNew
  <2>2. TokenOrg[hello[c].key] \in Orgs
    BY <2>1, ParameterAssumption
  <2>3. granted' \in [Devices -> SUBSET Orgs]
    BY <1>3, <2>1, <2>2 DEF AdmitNew
  <2>4. spentBy' \in [Tokens -> Devices \cup {None}]
    BY <1>3, <2>1 DEF AdmitNew
  <2>5. org' \in [Conns -> Orgs \cup {None}]
    BY <1>3, <2>2 DEF AdmitNew
  <2>6. QED
    BY <1>3, <2>3, <2>4, <2>5 DEF AdmitNew
<1>4. CASE RefuseUnknown(c)
  BY <1>4 DEF RefuseUnknown, Refuse
<1>5. CASE CheckSecret(c)
  BY <1>5 DEF CheckSecret, Refuse
<1>6. CASE IssueSecret(c)
  BY <1>6 DEF IssueSecret
<1>7. CASE WithoutSecret(c)
  BY <1>7 DEF WithoutSecret, Refuse
<1>8. CASE Register(c)
  <2>1. peer[c] \in Devices
    BY <1>8, PeerKnown DEF Register
  <2>2. Upserted(peer[c], org[c], RequireApproval) \in Row
    BY <1>8, <2>1, UpsertedType, ParameterAssumption DEF Register, OrgExists
  <2>3. row' \in [Devices -> Row \cup {None}]
    BY <1>8, <2>1, <2>2 DEF Register
  <2>4. QED
    BY <1>8, <2>1, <2>3 DEF Register
<1>9. CASE RegisterFails(c)
  BY <1>9 DEF RegisterFails
<1>10. CASE SendSecret(c)
  <2>1. /\ phase' \in [Conns -> Phases]
        /\ up' \in [Conns -> Seq(Message)]
        /\ registry' \in [Devices -> Conns \cup {None}]
        /\ \A x \in Conns : x # c => phase'[x] = phase[x]
    BY <1>10, FinishType DEF SendSecret, Message
  <2>2. down' \in [Conns -> BOOLEAN] /\ issue' \in [Conns -> BOOLEAN]
    BY <1>10 DEF SendSecret
  <2>3. QED
    BY <1>10, <2>1, <2>2, PeerKnown DEF SendSecret, Message
<1>11. CASE Greet(c)
  <2>1. /\ phase' \in [Conns -> Phases]
        /\ up' \in [Conns -> Seq(Message)]
        /\ registry' \in [Devices -> Conns \cup {None}]
        /\ \A x \in Conns : x # c => phase'[x] = phase[x]
    BY <1>11, FinishType DEF Greet, Message
  <2>2. QED
    BY <1>11, <2>1, PeerKnown DEF Greet, Message
<1>12. CASE HandleMetrics(c)
  <2>1. /\ phase' \in [Conns -> Phases]
        /\ up' \in [Conns -> Seq(Message)]
        /\ registry' \in [Devices -> Conns \cup {None}]
        /\ \A x \in Conns : x # c => phase'[x] = phase[x]
    BY <1>12, FinishType, TailType DEF HandleMetrics, Message
  <2>2. QED
    BY <1>12, <2>1, PeerKnown DEF HandleMetrics, Message
<1>13. CASE HandleRegister(c)
  <2>1. /\ phase' \in [Conns -> Phases]
        /\ up' \in [Conns -> Seq(Message)]
        /\ registry' \in [Devices -> Conns \cup {None}]
        /\ \A x \in Conns : x # c => phase'[x] = phase[x]
    BY <1>13, FinishType, TailType DEF HandleRegister, Message
  <2>2. peer[c] \in Devices
    BY <1>13, PeerKnown DEF HandleRegister
  <2>3. OrgExists(org[c]) => Upserted(peer[c], org[c], FALSE) \in Row
    BY <2>2, UpsertedType DEF OrgExists
  <2>4. row' \in [Devices -> Row \cup {None}]
    BY <1>13, <2>2, <2>3 DEF HandleRegister
  <2>5. QED
    BY <1>13, <2>1, <2>4, PeerKnown DEF HandleRegister, Message
<1>14. CASE HandleDisconnect(c)
  <2>1. /\ phase' \in [Conns -> Phases]
        /\ up' \in [Conns -> Seq(Message)]
        /\ registry' \in [Devices -> Conns \cup {None}]
        /\ \A x \in Conns : x # c => phase'[x] = phase[x]
    BY <1>14, FinishType DEF HandleDisconnect, Message
  <2>2. QED
    BY <1>14, <2>1, PeerKnown DEF HandleDisconnect, Message
<1>15. QED
  BY <1>1, <1>2, <1>3, <1>4, <1>5, <1>6, <1>7, <1>8, <1>9, <1>10, <1>11,
     <1>12, <1>13, <1>14 DEF Handler

LEMMA OtherTypeOK ==
  ASSUME TypeOK, (\E c \in Conns : Agent(c)) \/ ServerRestart \/ Admin
  PROVE  TypeOK'
<1> USE DEF TypeOK, database, network, server, history, Phases, Row, Hello
<1>1. ASSUME NEW c \in Conns, NEW d \in Devices, NEW t \in Tokens,
             AgentConnect(d, c, t)
      PROVE  TypeOK'
  <2>1. [key |-> t, secret |-> agentSecret[d]] \in Hello
    OBVIOUS
  <2>2. hello' \in [Conns -> Hello \cup {None}]
    BY <1>1, <2>1 DEF AgentConnect
  <2>3. \A x \in Conns : phase'[x] # "unused" => hello'[x] # None
    BY <1>1, <2>1, NoneIsNoRecord DEF AgentConnect
  <2>4. \A x \in Conns : phase'[x] # "unused" => peer'[x] # None
    BY <1>1, NoneAssumption DEF AgentConnect
  <2>5. QED
    BY <1>1, <2>2, <2>3, <2>4 DEF AgentConnect
<1>2. ASSUME NEW c \in Conns, NEW m \in Message, AgentSend(c, m)
      PROVE  TypeOK'
  BY <1>2 DEF AgentSend, Message
<1>3. ASSUME NEW c \in Conns, NEW saved \in BOOLEAN, AgentSaveSecret(c, saved)
      PROVE  TypeOK'
  BY <1>3 DEF AgentSaveSecret
<1>4. ASSUME NEW c \in Conns, NEW n \in 0 .. MaxUp, LoseConn(c, n)
      PROVE  TypeOK'
  <2>1. SubSeq(up[c], 1, n) \in Seq(Message)
    BY <1>4, PrefixType DEF LoseConn, Message
  <2>2. up' \in [Conns -> Seq(Message)]
    BY <1>4, <2>1 DEF LoseConn, Message
  <2>3. QED
    BY <1>4, <2>2 DEF LoseConn, Message
<1>5. CASE ServerRestart
  <2>1. /\ phase' \in [Conns -> Phases]
        /\ \A x \in Conns : phase'[x] # "unused" => phase[x] # "unused"
    BY <1>5 DEF ServerRestart, Alive
  <2>2. registry' \in [Devices -> Conns \cup {None}]
    BY <1>5 DEF ServerRestart
  <2>3. open' \in [Conns -> BOOLEAN] /\ down' \in [Conns -> BOOLEAN]
    BY <1>5 DEF ServerRestart
  <2>4. up' \in [Conns -> Seq(Message)]
    BY <1>5 DEF ServerRestart
  <2>5. QED
    BY <1>5, <2>1, <2>2, <2>3, <2>4 DEF ServerRestart, Message
<1>6. ASSUME Request PROVE admin' \in 0 .. MaxAdmin
  BY <1>6, ParameterAssumption DEF Request
<1>7. ASSUME NEW d \in Devices, Approve(d) \/ DeleteDevice(d) PROVE TypeOK'
  <2>1. CASE Approve(d)
    <3>1. row[d] \in Row
      BY <2>1 DEF Approve
    <3>2. row' \in [Devices -> Row \cup {None}]
      BY <2>1, <3>1 DEF Approve
    <3>3. QED
      BY <1>6, <2>1, <3>2 DEF Approve
  <2>2. CASE DeleteDevice(d)
    BY <1>6, <2>2 DEF DeleteDevice
  <2>3. QED
    BY <1>7, <2>1, <2>2
<1>8. ASSUME NEW d \in Devices, NEW o \in Orgs, MoveDevice(d, o) PROVE TypeOK'
  BY <1>6, <1>8 DEF MoveDevice
<1>9. ASSUME NEW o \in Orgs, DeleteOrg(o) PROVE TypeOK'
  BY <1>6, <1>9 DEF DeleteOrg
<1>10. ASSUME NEW t \in Tokens, DropToken(t) PROVE TypeOK'
  BY <1>6, <1>10 DEF DropToken
<1>11. CASE ResetConfig
  BY <1>6, <1>11 DEF ResetConfig
<1>12. QED
  BY <1>1, <1>2, <1>3, <1>4, <1>5, <1>7, <1>8, <1>9, <1>10, <1>11
     DEF Agent, Admin, Message

LEMMA NextTypeOK == TypeOK /\ [Next]_vars => TypeOK'
<1>1. CASE Next
  BY <1>1, HandlerTypeOK, OtherTypeOK DEF Next
<1>2. CASE UNCHANGED vars
  BY <1>2 DEF vars, database, server, network, history, TypeOK
<1>3. QED
  BY <1>1, <1>2

\* Every variable keeps its type in every behaviour.
THEOREM Typing == Spec => []TypeOK
  BY InitTypeOK, NextTypeOK, PTL DEF Spec

-----------------------------------------------------------------------------
(* The registry.  RegistryTracksLast is inductive as it stands, given the   *)
(* types.                                                                   *)

\* A step that leaves the registry alone and starts or ends no handler.
LEMMA RegistryFrame ==
  ASSUME RegistryTracksLast,
         registry' = registry,
         last' = last,
         \A x \in Conns : phase'[x] \in Serving <=> phase[x] \in Serving,
         \A x \in Conns : phase[x] \in Serving => peer'[x] = peer[x],
         TypeOK
  PROVE  RegistryTracksLast'
  BY DEF RegistryTracksLast, TypeOK

\* The end of a handler: its own entry goes, a successor's stays.
LEMMA RegistryFinish ==
  ASSUME TypeOK, RegistryTracksLast, NEW c \in Conns, phase[c] \in Serving,
         Finish(c), peer' = peer, last' = last
  PROVE  RegistryTracksLast'
<1>1. peer[c] \in Devices
  BY PeerKnown DEF Serving
<1>2. CASE registry[peer[c]] = c
  <2>1. registry' = [registry EXCEPT ![peer[c]] = None]
    BY <1>2 DEF Finish, Unregister, IsCurrent
  <2>2. phase' = [phase EXCEPT ![c] = "closed"]
    BY DEF Finish
  <2>3. ASSUME NEW d \in Devices, registry'[d] # None
        PROVE  /\ registry'[d] = last'[d]
               /\ peer'[registry'[d]] = d
               /\ phase'[registry'[d]] \in Serving
    BY <1>1, <1>2, <2>1, <2>2, <2>3 DEF RegistryTracksLast, TypeOK
  <2>4. ASSUME NEW x \in Conns, phase'[x] \in Serving, last'[peer'[x]] = x
        PROVE  registry'[peer'[x]] = x
    <3>1. x # c /\ phase[x] \in Serving
      BY <2>2, <2>4 DEF Serving, TypeOK
    <3>2. registry[peer[x]] = x
      BY <2>4, <3>1 DEF RegistryTracksLast
    <3>3. peer[x] # peer[c]
      BY <1>2, <3>1, <3>2
    <3>4. QED
      BY <2>1, <3>2, <3>3, <1>1, PeerKnown, <3>1 DEF Serving, TypeOK
  <2>5. QED
    BY <2>3, <2>4 DEF RegistryTracksLast
<1>3. CASE registry[peer[c]] # c
  <2>1. registry' = registry
    BY <1>3 DEF Finish, Unregister, IsCurrent
  <2>2. phase' = [phase EXCEPT ![c] = "closed"]
    BY DEF Finish
  <2>3. QED
    BY <1>1, <1>3, <2>1, <2>2 DEF RegistryTracksLast, TypeOK, Serving
<1>4. QED
  BY <1>2, <1>3

LEMMA RegistryHandler ==
  ASSUME TypeOK, RegistryTracksLast, NEW c \in Conns, Handler(c)
  PROVE  RegistryTracksLast'
<1> USE DEF At, database, network, history, Serving
<1>1. CASE \/ HelloLost(c) \/ AdmitKnown(c) \/ AdmitNew(c)
           \/ RefuseUnknown(c) \/ CheckSecret(c) \/ IssueSecret(c)
           \/ WithoutSecret(c) \/ RegisterFails(c)
  <2>1. registry' = registry /\ last' = last /\ peer' = peer
    BY <1>1 DEF HelloLost, AdmitKnown, AdmitNew, RefuseUnknown, CheckSecret,
                IssueSecret, WithoutSecret, RegisterFails, Refuse
  <2>2. /\ phase[c] \notin Serving
        /\ \E p \in Phases \ Serving : phase' = [phase EXCEPT ![c] = p]
    BY <1>1 DEF HelloLost, AdmitKnown, AdmitNew, RefuseUnknown, CheckSecret,
                IssueSecret, WithoutSecret, RegisterFails, Refuse, Phases
  <2>3. \A x \in Conns : phase'[x] \in Serving <=> phase[x] \in Serving
    BY <2>2 DEF TypeOK
  <2>4. QED
    BY <2>1, <2>3, RegistryFrame
<1>2. CASE Register(c)
  <2>1. peer[c] \in Devices
    BY <1>2, PeerKnown DEF Register
  <2>2. /\ phase' = [phase EXCEPT ![c] = "greeting"]
        /\ registry' = [registry EXCEPT ![peer[c]] = c]
        /\ last' = [last EXCEPT ![peer[c]] = c]
        /\ peer' = peer
    BY <1>2 DEF Register
  <2>3. QED
    BY <2>1, <2>2 DEF RegistryTracksLast, TypeOK
<1>3. CASE \/ SendSecret(c) \/ Greet(c) \/ HandleMetrics(c)
           \/ HandleRegister(c) \/ HandleDisconnect(c)
  <2>1. phase[c] \in Serving /\ peer' = peer /\ last' = last
    BY <1>3 DEF SendSecret, Greet, HandleMetrics, HandleRegister,
                HandleDisconnect
  <2>2. \/ Finish(c)
        \/ /\ registry' = registry
           /\ phase' = phase \/ phase' = [phase EXCEPT ![c] = "serving"]
    BY <1>3 DEF SendSecret, Greet, HandleMetrics, HandleRegister,
                HandleDisconnect
  <2>3. CASE Finish(c)
    BY <2>1, <2>3, RegistryFinish
  <2>4. CASE /\ registry' = registry
             /\ phase' = phase \/ phase' = [phase EXCEPT ![c] = "serving"]
    <3>1. \A x \in Conns : phase'[x] \in Serving <=> phase[x] \in Serving
      BY <2>1, <2>4 DEF TypeOK
    <3>2. QED
      BY <2>1, <2>4, <3>1, RegistryFrame
  <2>5. QED
    BY <2>2, <2>3, <2>4
<1>4. QED
  BY <1>1, <1>2, <1>3 DEF Handler

LEMMA RegistryOther ==
  ASSUME TypeOK, RegistryTracksLast,
         (\E c \in Conns : Agent(c)) \/ ServerRestart \/ Admin
  PROVE  RegistryTracksLast'
<1> USE DEF database, server, network, history
<1>1. ASSUME NEW c \in Conns, NEW d \in Devices, NEW t \in Tokens,
             AgentConnect(d, c, t)
      PROVE  RegistryTracksLast'
  <2>1. \A x \in Conns : phase'[x] \in Serving <=> phase[x] \in Serving
    BY <1>1 DEF AgentConnect, Serving, TypeOK
  <2>2. \A x \in Conns : phase[x] \in Serving => peer'[x] = peer[x]
    BY <1>1 DEF AgentConnect, Serving, TypeOK
  <2>3. registry' = registry /\ last' = last
    BY <1>1 DEF AgentConnect
  <2>4. QED
    BY <2>1, <2>2, <2>3, RegistryFrame
<1>2. CASE ServerRestart
  <2>1. \A x \in Conns : phase'[x] \notin Serving
    BY <1>2 DEF ServerRestart, Serving, Alive
  <2>2. \A d \in Devices : registry'[d] = None
    BY <1>2 DEF ServerRestart
  <2>3. QED
    BY <2>1, <2>2 DEF RegistryTracksLast
<1>3. CASE registry' = registry /\ last' = last /\ phase' = phase /\ peer' = peer
  BY <1>3, RegistryFrame
<1>4. ASSUME NEW c \in Conns, Agent(c)
      PROVE  RegistryTracksLast'
  <2>1. \/ \E d \in Devices, t \in Tokens : AgentConnect(d, c, t)
        \/ registry' = registry /\ last' = last /\ phase' = phase /\ peer' = peer
    BY <1>4 DEF Agent, AgentSend, AgentSaveSecret, LoseConn
  <2>2. QED
    BY <1>1, <1>3, <2>1
<1>5. Admin => registry' = registry /\ last' = last /\ phase' = phase /\ peer' = peer
  BY DEF Admin, Approve, DeleteDevice, MoveDevice, DeleteOrg, DropToken,
         ResetConfig
<1>6. QED
  BY <1>2, <1>3, <1>4, <1>5

\* A device is online exactly while the handler that registered last for it
\* runs, however many connections it has and however they overlap.
THEOREM RegistryCorrect == Spec => []RegistryTracksLast
<1>1. Init => RegistryTracksLast
  BY NoneAssumption DEF Init, RegistryTracksLast, Serving
<1>2. TypeOK /\ RegistryTracksLast /\ [Next]_vars => RegistryTracksLast'
  <2>1. SUFFICES ASSUME TypeOK, RegistryTracksLast, [Next]_vars
                 PROVE  RegistryTracksLast'
    OBVIOUS
  <2>2. CASE Next
    BY <2>1, <2>2, RegistryHandler, RegistryOther DEF Next
  <2>3. CASE UNCHANGED vars
    BY <2>1, <2>3, RegistryFrame DEF vars, server, history
  <2>4. QED
    BY <2>1, <2>2, <2>3
<1>3. QED
  BY <1>1, <1>2, Typing, PTL DEF Spec

-----------------------------------------------------------------------------
(* The device secret.  An invariant about what an agent has stored needs one *)
(* about what is still on its way: a secret to be sent, or under way, is the *)
(* one on file for the device of its connection.                             *)

SecretInv ==
  /\ DeliveredSecretIsCurrent
  /\ \A c \in Conns :
       /\ issue[c] \/ down[c] => phase[c] # "unused"
       /\ ~forgotten /\ (issue[c] \/ down[c]) => secretHash[peer[c]] = c

\* A step after which no more is under way, and nothing stored has changed.
LEMMA SecretFrame ==
  ASSUME TypeOK, SecretInv,
         secretHash' = secretHash, agentSecret' = agentSecret,
         forgotten' = forgotten,
         \A x \in Conns : issue'[x] \/ down'[x] =>
           /\ issue[x] \/ down[x]
           /\ peer'[x] = peer[x]
           /\ phase'[x] # "unused"
  PROVE  SecretInv'
  BY DEF SecretInv, DeliveredSecretIsCurrent, TypeOK

LEMMA SecretHandler ==
  ASSUME TypeOK, SecretInv, NEW c \in Conns, Handler(c)
  PROVE  SecretInv'
<1> USE DEF At, database, network, history
<1>1. CASE IssueSecret(c)
  <2>1. peer[c] \in Devices
    BY <1>1, PeerKnown DEF IssueSecret
  <2>2. /\ secretHash[peer[c]] = None
        /\ secretHash' = [secretHash EXCEPT ![peer[c]] = c]
        /\ issue' = [issue EXCEPT ![c] = TRUE]
        /\ phase' = [phase EXCEPT ![c] = "checked"]
        /\ peer' = peer /\ down' = down /\ agentSecret' = agentSecret
        /\ forgotten' = forgotten
    BY <1>1 DEF IssueSecret, LacksSecret
  <2>3. ~forgotten => agentSecret[peer[c]] = None
    BY <2>1, <2>2 DEF SecretInv, DeliveredSecretIsCurrent
  <2>4. DeliveredSecretIsCurrent'
    BY <2>1, <2>2, <2>3 DEF SecretInv, DeliveredSecretIsCurrent, TypeOK
  <2>5. ASSUME NEW x \in Conns, issue'[x] \/ down'[x]
        PROVE  phase'[x] # "unused" /\ (~forgotten => secretHash'[peer'[x]] = x)
    <3>1. CASE x = c
      BY <2>1, <2>2, <3>1 DEF TypeOK
    <3>2. CASE x # c
      <4>1. issue[x] \/ down[x]
        BY <2>2, <2>5, <3>2 DEF TypeOK
      <4>2. phase'[x] # "unused"
        BY <2>2, <3>2, <4>1 DEF SecretInv, TypeOK
      <4>3. ~forgotten => secretHash[peer[x]] = x
        BY <4>1 DEF SecretInv
      <4>4. ~forgotten => peer[x] # peer[c]
        BY <2>2, <4>3, NoneAssumption
      <4>5. QED
        BY <2>1, <2>2, <4>2, <4>3, <4>4, PeerKnown, <4>1 DEF TypeOK, SecretInv
    <3>3. QED
      BY <3>1, <3>2
  <2>6. QED
    BY <2>2, <2>4, <2>5 DEF SecretInv
<1>2. CASE SendSecret(c)
  <2>1. /\ issue[c] /\ phase[c] = "greeting"
        /\ issue' = [issue EXCEPT ![c] = FALSE]
        /\ down' = [down EXCEPT ![c] = open[c]] \/ down' = down
        /\ phase' = phase \/ phase' = [phase EXCEPT ![c] = "closed"]
        /\ peer' = peer /\ secretHash' = secretHash
        /\ agentSecret' = agentSecret /\ forgotten' = forgotten
    BY <1>2 DEF SendSecret, Finish
  <2>2. \A x \in Conns : issue'[x] \/ down'[x] =>
           /\ issue[x] \/ down[x]
           /\ peer'[x] = peer[x]
           /\ phase'[x] # "unused"
    BY <2>1 DEF TypeOK, SecretInv
  <2>3. QED
    BY <2>1, <2>2, SecretFrame
<1>3. CASE ~IssueSecret(c) /\ ~SendSecret(c)
  <2>1. /\ secretHash' = secretHash /\ agentSecret' = agentSecret
        /\ forgotten' = forgotten /\ peer' = peer
        /\ issue' = issue /\ down' = down
        /\ \E p \in Phases \ {"unused"} :
             phase' = phase \/ phase' = [phase EXCEPT ![c] = p]
    BY <1>3 DEF Handler, HelloLost, AdmitKnown, AdmitNew, RefuseUnknown,
                CheckSecret, WithoutSecret, Register, RegisterFails, Greet,
                HandleMetrics, HandleRegister, HandleDisconnect, Refuse,
                Finish, Phases
  <2>2. \A x \in Conns : phase[x] # "unused" => phase'[x] # "unused"
    BY <2>1 DEF TypeOK
  <2>3. QED
    BY <2>1, <2>2, SecretFrame DEF SecretInv
<1>4. QED
  BY <1>1, <1>2, <1>3

LEMMA SecretOther ==
  ASSUME TypeOK, SecretInv,
         (\E c \in Conns : Agent(c)) \/ ServerRestart \/ Admin
  PROVE  SecretInv'
<1> USE DEF database, server, network, history
<1>1. ASSUME NEW c \in Conns, NEW d \in Devices, NEW t \in Tokens,
             AgentConnect(d, c, t)
      PROVE  SecretInv'
  <2>1. /\ secretHash' = secretHash /\ agentSecret' = agentSecret
        /\ forgotten' = forgotten /\ issue' = issue /\ down' = down
    BY <1>1 DEF AgentConnect
  <2>2. ~issue[c] /\ ~down[c]
    BY <1>1 DEF AgentConnect, SecretInv
  <2>3. \A x \in Conns : x # c => peer'[x] = peer[x] /\ phase'[x] = phase[x]
    BY <1>1 DEF AgentConnect, TypeOK
  <2>4. QED
    BY <2>1, <2>2, <2>3, SecretFrame DEF SecretInv
<1>2. ASSUME NEW c \in Conns, NEW saved \in BOOLEAN, AgentSaveSecret(c, saved)
      PROVE  SecretInv'
  <2>1. /\ down[c] /\ down' = [down EXCEPT ![c] = FALSE]
        /\ secretHash' = secretHash /\ forgotten' = forgotten
        /\ issue' = issue /\ phase' = phase /\ peer' = peer
    BY <1>2 DEF AgentSaveSecret
  <2>2. peer[c] \in Devices
    BY <2>1, PeerKnown DEF SecretInv
  <2>3. \/ agentSecret' = agentSecret
        \/ agentSecret' = [agentSecret EXCEPT ![peer[c]] = c]
    BY <1>2 DEF AgentSaveSecret
  <2>4. DeliveredSecretIsCurrent'
    BY <2>1, <2>2, <2>3 DEF SecretInv, DeliveredSecretIsCurrent, TypeOK
  <2>5. \A x \in Conns : down'[x] => down[x]
    BY <2>1 DEF TypeOK
  <2>6. QED
    BY <2>1, <2>4, <2>5 DEF SecretInv
<1>3. ASSUME NEW c \in Conns, Agent(c)
      PROVE  SecretInv'
  <2>1. ASSUME NEW n \in 0 .. MaxUp, LoseConn(c, n)
        PROVE  SecretInv'
    <3>1. /\ down' = [down EXCEPT ![c] = FALSE]
          /\ secretHash' = secretHash /\ agentSecret' = agentSecret
          /\ forgotten' = forgotten /\ issue' = issue /\ phase' = phase
          /\ peer' = peer
      BY <2>1 DEF LoseConn
    <3>2. \A x \in Conns : down'[x] => down[x]
      BY <3>1 DEF TypeOK
    <3>3. QED
      BY <3>1, <3>2, SecretFrame DEF SecretInv
  <2>2. ASSUME NEW m \in Message, AgentSend(c, m)
        PROVE  SecretInv'
    BY <2>2, SecretFrame DEF AgentSend, SecretInv
  <2>3. QED
    BY <1>1, <1>2, <1>3, <2>1, <2>2 DEF Agent, Message
<1>4. CASE ServerRestart
  <2>1. /\ secretHash' = secretHash /\ agentSecret' = agentSecret
        /\ forgotten' = forgotten /\ issue' = issue /\ peer' = peer
        /\ \A x \in Conns : ~down'[x]
        /\ \A x \in Conns : phase[x] # "unused" => phase'[x] # "unused"
    BY <1>4 DEF ServerRestart
  <2>2. QED
    BY <2>1, SecretFrame DEF SecretInv
<1>5. CASE ResetConfig
  BY <1>5 DEF ResetConfig, SecretInv, DeliveredSecretIsCurrent
<1>6. CASE Admin /\ ~ResetConfig
  <2>1. /\ secretHash' = secretHash /\ agentSecret' = agentSecret
        /\ forgotten' = forgotten /\ issue' = issue /\ peer' = peer
        /\ down' = down /\ phase' = phase
    BY <1>6 DEF Admin, Approve, DeleteDevice, MoveDevice, DeleteOrg, DropToken
  <2>2. QED
    BY <2>1, SecretFrame DEF SecretInv
<1>7. QED
  BY <1>3, <1>4, <1>5, <1>6

\* While the settings are not wiped, the secret an agent has stored is the
\* one the server checks it against.
THEOREM SecretsAgree == Spec => []DeliveredSecretIsCurrent
<1>1. Init => SecretInv
  BY DEF Init, SecretInv, DeliveredSecretIsCurrent
<1>2. TypeOK /\ SecretInv /\ [Next]_vars => SecretInv'
  <2>1. SUFFICES ASSUME TypeOK, SecretInv, [Next]_vars PROVE SecretInv'
    OBVIOUS
  <2>2. CASE Next
    BY <2>1, <2>2, SecretHandler, SecretOther DEF Next
  <2>3. CASE UNCHANGED vars
    BY <2>1, <2>3, SecretFrame
       DEF vars, database, server, network, history, SecretInv
  <2>4. QED
    BY <2>1, <2>2, <2>3
<1>3. SecretInv => DeliveredSecretIsCurrent
  BY DEF SecretInv
<1>4. QED
  BY <1>1, <1>2, <1>3, Typing, PTL DEF Spec

-----------------------------------------------------------------------------
(* Admission.  What holds of a row has to hold already of the handler that  *)
(* is about to write it: an organisation captured, and a key spent, at the  *)
(* start of a connection are used for as long as it lasts.                  *)

Admitted == {"admitted", "checked", "greeting", "serving"}
HasKey(d) == \E t \in Tokens : spentBy[t] = d

AdmissionInv ==
  /\ OrgIsGranted
  /\ OneKeyPerDevice
  /\ \A c \in Conns : phase[c] \in Admitted =>
       org[c] \in granted[peer[c]] /\ HasKey(peer[c])

\* A step that writes no row and admits no connection.
LEMMA AdmissionFrame ==
  ASSUME TypeOK, AdmissionInv,
         \A d \in Devices : row'[d] # None =>
           row[d] # None /\ row'[d].org \in orgs' /\ row'[d].org \in granted'[d],
         spentBy' = spentBy,
         \A d \in Devices : granted[d] \subseteq granted'[d],
         \A x \in Conns : phase'[x] \in Admitted =>
           /\ phase[x] \in Admitted
           /\ peer'[x] = peer[x]
           /\ org'[x] = org[x]
  PROVE  AdmissionInv'
<1>1. OrgIsGranted'
  BY DEF OrgIsGranted
<1>2. OneKeyPerDevice'
  BY DEF AdmissionInv, OneKeyPerDevice
<1>3. ASSUME NEW x \in Conns, phase'[x] \in Admitted
      PROVE  (org[x] \in granted[peer[x]] /\ HasKey(peer[x]))'
  <2>1. peer[x] \in Devices
    BY <1>3, PeerKnown DEF Admitted
  <2>2. QED
    BY <1>3, <2>1 DEF AdmissionInv, HasKey
<1>4. QED
  BY <1>1, <1>2, <1>3 DEF AdmissionInv

\* upsert_device, by a handler that has been admitted.
LEMMA AdmissionUpsert ==
  ASSUME TypeOK, AdmissionInv, NEW c \in Conns, phase[c] \in Admitted,
         org[c] \in orgs, NEW b \in BOOLEAN,
         row' = [row EXCEPT ![peer[c]] = Upserted(peer[c], org[c], b)],
         orgs' = orgs, spentBy' = spentBy, granted' = granted,
         peer' = peer, org' = org,
         \A x \in Conns : phase'[x] \in Admitted => phase[x] \in Admitted
  PROVE  AdmissionInv'
<1>1. peer[c] \in Devices
  BY PeerKnown DEF Admitted
<1>2. /\ Upserted(peer[c], org[c], b).org = org[c]
      /\ Upserted(peer[c], org[c], b) \in Row
  <2>1. Upserted(peer[c], org[c], b) \in Row
    BY <1>1, UpsertedType
  <2>2. CASE row[peer[c]] = None
    BY <2>1, <2>2 DEF Upserted
  <2>3. CASE row[peer[c]] # None
    BY <1>1, <2>1, <2>3 DEF Upserted, TypeOK, Row
  <2>4. QED
    BY <2>1, <2>2, <2>3
<1>3. org[c] \in granted[peer[c]] /\ HasKey(peer[c])
  BY DEF AdmissionInv
<1>4. OrgIsGranted'
  BY <1>1, <1>2, <1>3 DEF AdmissionInv, OrgIsGranted, TypeOK
<1>5. OneKeyPerDevice'
  BY <1>1, <1>3 DEF AdmissionInv, OneKeyPerDevice, HasKey, TypeOK
<1>6. QED
  BY <1>4, <1>5 DEF AdmissionInv, HasKey

LEMMA AdmissionHandler ==
  ASSUME TypeOK, AdmissionInv, NEW c \in Conns, Handler(c)
  PROVE  AdmissionInv'
<1> USE DEF At, database, network, history
<1>1. CASE AdmitKnown(c)
  <2>1. /\ phase[c] = "hello" /\ row[peer[c]] # None
        /\ org' = [org EXCEPT ![c] = row[peer[c]].org]
        /\ phase' = [phase EXCEPT ![c] = "admitted"]
        /\ UNCHANGED <<orgs, row, spentBy, peer, granted>>
    BY <1>1 DEF AdmitKnown
  <2>2. peer[c] \in Devices
    BY <2>1, PeerKnown
  <2>3. row[peer[c]].org \in granted[peer[c]] /\ HasKey(peer[c])
    BY <2>1, <2>2 DEF AdmissionInv, OrgIsGranted, OneKeyPerDevice, HasKey
  <2>4. ASSUME NEW x \in Conns, phase'[x] \in Admitted
        PROVE  (org[x] \in granted[peer[x]] /\ HasKey(peer[x]))'
    BY <2>1, <2>3, <2>4 DEF AdmissionInv, HasKey, TypeOK
  <2>5. QED
    BY <2>1, <2>4 DEF AdmissionInv, OrgIsGranted, OneKeyPerDevice
<1>2. CASE AdmitNew(c)
  <2> DEFINE t == hello[c].key
  <2>1. /\ phase[c] = "hello" /\ spentBy[t] = None
        /\ spentBy' = [spentBy EXCEPT ![t] = peer[c]]
        /\ org' = [org EXCEPT ![c] = TokenOrg[t]]
        /\ granted' = [granted EXCEPT ![peer[c]] = @ \cup {TokenOrg[t]}]
        /\ phase' = [phase EXCEPT ![c] = "admitted"]
        /\ UNCHANGED <<orgs, row, peer>>
    BY <1>2 DEF AdmitNew, Spendable
  <2>2. peer[c] \in Devices /\ t \in Tokens
    BY <2>1, PeerKnown DEF Hello
  <2>3. \A d \in Devices : HasKey(d) => HasKey(d)'
    BY <2>1, <2>2, NoneAssumption DEF HasKey, TypeOK
  <2>4. \E k \in Tokens : spentBy'[k] = peer[c]
    BY <2>1, <2>2 DEF TypeOK
  <2>5. /\ \A d \in Devices : granted[d] \subseteq granted'[d]
        /\ TokenOrg[t] \in granted'[peer[c]]
    BY <2>1, <2>2 DEF TypeOK
  <2>6. OrgIsGranted'
    BY <2>1, <2>5 DEF AdmissionInv, OrgIsGranted
  <2>7. OneKeyPerDevice'
    BY <2>1, <2>3 DEF AdmissionInv, OneKeyPerDevice, HasKey
  <2>8. ASSUME NEW x \in Conns, phase'[x] \in Admitted
        PROVE  (org[x] \in granted[peer[x]] /\ HasKey(peer[x]))'
    <3>1. CASE x = c
      <4>1. org'[c] = TokenOrg[t] /\ peer'[c] = peer[c]
        BY <2>1 DEF TypeOK
      <4>2. HasKey(peer[c])'
        BY <2>4, <4>1 DEF HasKey
      <4>3. QED
        BY <2>5, <3>1, <4>1, <4>2
    <3>2. CASE x # c
      <4>1. phase[x] \in Admitted /\ org'[x] = org[x] /\ peer'[x] = peer[x]
        BY <2>1, <2>8, <3>2 DEF TypeOK
      <4>2. peer[x] \in Devices
        BY <4>1, PeerKnown DEF Admitted
      <4>3. org[x] \in granted[peer[x]] /\ HasKey(peer[x])
        BY <4>1 DEF AdmissionInv
      <4>4. \E k \in Tokens : spentBy'[k] = peer[x]
        BY <2>3, <4>2, <4>3 DEF HasKey
      <4>5. HasKey(peer[x])'
        BY <4>1, <4>4 DEF HasKey
      <4>6. QED
        BY <2>5, <4>1, <4>2, <4>3, <4>5
    <3>3. QED
      BY <3>1, <3>2
  <2>9. QED
    BY <2>6, <2>7, <2>8 DEF AdmissionInv
<1>3. CASE Register(c)
  <2>1. /\ phase[c] = "checked" /\ org[c] \in orgs
        /\ row' = [row EXCEPT ![peer[c]] =
                     Upserted(peer[c], org[c], RequireApproval)]
        /\ phase' = [phase EXCEPT ![c] = "greeting"]
        /\ UNCHANGED <<orgs, spentBy, granted, peer, org>>
    BY <1>3 DEF Register, OrgExists
  <2>2. \A x \in Conns : phase'[x] \in Admitted => phase[x] \in Admitted
    BY <2>1 DEF Admitted, TypeOK
  <2>3. QED
    BY <2>1, <2>2, AdmissionUpsert, ParameterAssumption DEF Admitted
<1>4. CASE HandleRegister(c)
  <2>1. /\ phase[c] = "serving"
        /\ phase' = phase \/ phase' = [phase EXCEPT ![c] = "closed"]
        /\ UNCHANGED <<orgs, spentBy, granted, peer, org>>
    BY <1>4 DEF HandleRegister, Finish
  <2>2. \A x \in Conns : phase'[x] \in Admitted => phase[x] \in Admitted
    BY <2>1 DEF Admitted, TypeOK
  <2>3. CASE OrgExists(org[c])
    <3>1. row' = [row EXCEPT ![peer[c]] = Upserted(peer[c], org[c], FALSE)]
      BY <1>4, <2>3 DEF HandleRegister
    <3>2. org[c] \in orgs
      BY <2>3 DEF OrgExists
    <3>3. QED
      BY <2>1, <2>2, <3>1, <3>2, AdmissionUpsert DEF Admitted
  <2>4. CASE ~OrgExists(org[c])
    <3>1. row' = row
      BY <1>4, <2>4 DEF HandleRegister
    <3>2. QED
      BY <2>1, <2>2, <3>1, AdmissionFrame DEF AdmissionInv, OrgIsGranted
  <2>5. QED
    BY <2>3, <2>4
<1>5. CASE ~AdmitKnown(c) /\ ~AdmitNew(c) /\ ~Register(c) /\ ~HandleRegister(c)
  <2>1. /\ UNCHANGED <<orgs, row, spentBy, granted, peer, org>>
        /\ \/ phase' = phase
           \/ phase' = [phase EXCEPT ![c] = "closed"]
           \/ /\ phase[c] \in Admitted
              /\ \E p \in Admitted : phase' = [phase EXCEPT ![c] = p]
    BY <1>5 DEF Handler, HelloLost, RefuseUnknown, CheckSecret, IssueSecret,
                WithoutSecret, RegisterFails, SendSecret, Greet,
                HandleMetrics, HandleDisconnect, Refuse, Finish, Admitted
  <2>2. \A x \in Conns : phase'[x] \in Admitted => phase[x] \in Admitted
    BY <2>1 DEF Admitted, TypeOK
  <2>3. QED
    BY <2>1, <2>2, AdmissionFrame DEF AdmissionInv, OrgIsGranted
<1>6. QED
  BY <1>1, <1>2, <1>3, <1>4, <1>5

LEMMA AdmissionOther ==
  ASSUME TypeOK, AdmissionInv,
         (\E c \in Conns : Agent(c)) \/ ServerRestart \/ Admin
  PROVE  AdmissionInv'
<1> USE DEF database, server, network, history
<1>1. ASSUME NEW c \in Conns, Agent(c)
      PROVE  AdmissionInv'
  <2>1. UNCHANGED <<orgs, row, spentBy, granted, org>>
    BY <1>1 DEF Agent, AgentConnect, AgentSend, AgentSaveSecret, LoseConn
  <2>2. \A x \in Conns : phase'[x] \in Admitted =>
          phase[x] \in Admitted /\ peer'[x] = peer[x]
    BY <1>1 DEF Agent, AgentConnect, AgentSend, AgentSaveSecret, LoseConn,
                Admitted, TypeOK
  <2>3. QED
    BY <2>1, <2>2, AdmissionFrame DEF AdmissionInv, OrgIsGranted
<1>2. CASE ServerRestart
  <2>1. /\ UNCHANGED <<orgs, row, spentBy, granted, org, peer>>
        /\ \A x \in Conns : phase'[x] \notin Admitted
    BY <1>2 DEF ServerRestart, Alive, Admitted
  <2>2. QED
    BY <2>1, AdmissionFrame DEF AdmissionInv, OrgIsGranted
<1>3. Admin => UNCHANGED <<spentBy, org, peer, phase>>
  BY DEF Admin, Approve, DeleteDevice, MoveDevice, DeleteOrg, DropToken,
         ResetConfig
<1>4. ASSUME NEW d \in Devices, Approve(d)
      PROVE  AdmissionInv'
  <2>1. /\ row[d] \in Row /\ UNCHANGED <<orgs, granted>>
        /\ row' = [row EXCEPT ![d].approved = TRUE]
    BY <1>4 DEF Approve, TypeOK
  <2>2. \A x \in Devices : row'[x] # None =>
          row[x] # None /\ row'[x].org = row[x].org
    BY <1>4, <2>1 DEF Approve, TypeOK, Row
  <2>3. QED
    BY <1>3, <1>4, <2>1, <2>2, AdmissionFrame
       DEF AdmissionInv, OrgIsGranted, Admin
<1>5. ASSUME NEW d \in Devices, DeleteDevice(d)
      PROVE  AdmissionInv'
  <2>1. /\ UNCHANGED <<orgs, granted>>
        /\ row' = [row EXCEPT ![d] = None]
    BY <1>5 DEF DeleteDevice
  <2>2. QED
    BY <1>3, <1>5, <2>1, AdmissionFrame
       DEF AdmissionInv, OrgIsGranted, Admin, TypeOK
<1>6. ASSUME NEW d \in Devices, NEW o \in Orgs, MoveDevice(d, o)
      PROVE  AdmissionInv'
  <2>1. /\ row[d] \in Row /\ o \in orgs /\ orgs' = orgs
        /\ row' = [row EXCEPT ![d].org = o]
        /\ granted' = [granted EXCEPT ![d] = @ \cup {o}]
    BY <1>6 DEF MoveDevice, TypeOK
  <2>2. \A x \in Devices : granted[x] \subseteq granted'[x]
    BY <2>1 DEF TypeOK
  <2>3. \A x \in Devices : row'[x] # None =>
          row[x] # None /\ row'[x].org \in orgs /\ row'[x].org \in granted'[x]
    BY <1>6, <2>1, <2>2 DEF MoveDevice, TypeOK, Row, AdmissionInv, OrgIsGranted
  <2>4. QED
    BY <1>3, <1>6, <2>1, <2>2, <2>3, AdmissionFrame DEF Admin
<1>7. ASSUME NEW o \in Orgs, DeleteOrg(o)
      PROVE  AdmissionInv'
  <2>1. /\ orgs' = orgs \ {o} /\ granted' = granted
        /\ \A x \in Devices : row'[x] # None =>
             row[x] # None /\ row'[x] = row[x] /\ row[x].org # o
    BY <1>7 DEF DeleteOrg
  <2>2. QED
    BY <1>3, <1>7, <2>1, AdmissionFrame DEF AdmissionInv, OrgIsGranted, Admin
<1>8. CASE ResetConfig \/ \E t \in Tokens : DropToken(t)
  <2>1. UNCHANGED <<orgs, row, granted>>
    BY <1>8 DEF ResetConfig, DropToken
  <2>2. QED
    BY <1>3, <1>8, <2>1, AdmissionFrame DEF AdmissionInv, OrgIsGranted, Admin
<1>9. QED
  BY <1>1, <1>2, <1>4, <1>5, <1>6, <1>7, <1>8 DEF Admin

\* The invariant the two theorems below are read off.
THEOREM AdmissionInvariant == Spec => []AdmissionInv
<1>1. Init => AdmissionInv
  BY DEF Init, AdmissionInv, OrgIsGranted, OneKeyPerDevice, Admitted
<1>2. TypeOK /\ AdmissionInv /\ [Next]_vars => AdmissionInv'
  <2>1. SUFFICES ASSUME TypeOK, AdmissionInv, [Next]_vars PROVE AdmissionInv'
    OBVIOUS
  <2>2. CASE Next
    BY <2>1, <2>2, AdmissionHandler, AdmissionOther DEF Next
  <2>3. CASE UNCHANGED vars
    BY <2>1, <2>3, AdmissionFrame
       DEF vars, database, server, network, history, AdmissionInv, OrgIsGranted
  <2>4. QED
    BY <2>1, <2>2, <2>3
<1>3. QED
  BY <1>1, <1>2, Typing, PTL DEF Spec

\* A device is only ever filed under an existing organisation that a key or
\* an administrator has put it into.
THEOREM OrgsGranted == Spec => []OrgIsGranted
<1>1. AdmissionInv => OrgIsGranted
  BY DEF AdmissionInv
<1>2. QED
  BY <1>1, AdmissionInvariant, PTL

\* Every device in the fleet has spent an enrolment key of its own.
THEOREM KeysEnrolOneDevice == Spec => []OneKeyPerDevice
<1>1. AdmissionInv => OneKeyPerDevice
  BY DEF AdmissionInv
<1>2. QED
  BY <1>1, AdmissionInvariant, PTL

-----------------------------------------------------------------------------
(* The approval queue.                                                     *)

\* A step that writes at most the row of one device, and keeps its approval.
LEMMA ApprovalWritten ==
  ASSUME TypeOK, NEW e \in Devices, NEW o \in Orgs, NEW d \in Devices,
         row' = [row EXCEPT ![e] = [@ EXCEPT !.org = o]],
         row[e] # None, row[d] # None
  PROVE  row'[d].approved = row[d].approved
<1>1. row[e] \in Row /\ row[d] \in Row  BY DEF TypeOK
<1>2. [row[e] EXCEPT !.org = o].approved = row[e].approved  BY <1>1 DEF Row
<1> QED  BY <1>2 DEF TypeOK

\* Of all steps only an approval takes a device that keeps its row out of the
\* approval queue: registering again, for the first time on a connection or on
\* one that lasts, keeps the row's approval.
THEOREM ApprovalNeeded == Spec => PendingUntilApproved
<1>1. ASSUME TypeOK, Next, NEW d \in Devices, row[d] # None, row'[d] # None,
             ~row[d].approved, row'[d].approved
      PROVE  Approve(d)
  <2>1. ASSUME NEW c \in Conns, NEW b \in BOOLEAN, peer[c] \in Devices,
               OrgExists(org[c]),
               row' = [row EXCEPT ![peer[c]] = Upserted(peer[c], org[c], b)]
        PROVE  FALSE
    <3>1. org[c] \in Orgs  BY <1>1, <2>1 DEF OrgExists, TypeOK
    <3>2. CASE row[peer[c]] = None
      BY <1>1, <2>1, <3>2 DEF TypeOK
    <3>3. CASE row[peer[c]] # None
      <4>1. row' = [row EXCEPT ![peer[c]] = [@ EXCEPT !.org = org[c]]]
        BY <2>1, <3>3 DEF Upserted
      <4>2. row'[d].approved = row[d].approved
        BY <1>1, <2>1, <3>1, <3>3, <4>1, ApprovalWritten
      <4> QED  BY <1>1, <4>2
    <3> QED  BY <3>2, <3>3
  <2>2. row' # row  BY <1>1
  <2>3. ASSUME NEW c \in Conns, Handler(c) PROVE FALSE
    <3>1. Register(c) \/ HandleRegister(c)
      BY <2>2, <2>3 DEF Handler, HelloLost, AdmitKnown, AdmitNew, RefuseUnknown,
         CheckSecret, IssueSecret, WithoutSecret, RegisterFails, SendSecret, Greet,
         HandleMetrics, HandleDisconnect, database
    <3>2. CASE Register(c)
      BY <1>1, <2>1, <3>2, PeerKnown, ParameterAssumption DEF Register, At
    <3>3. CASE HandleRegister(c)
      BY <1>1, <2>1, <2>2, <3>3, PeerKnown DEF HandleRegister, At
    <3> QED  BY <3>1, <3>2, <3>3
  <2>4. ASSUME NEW e \in Devices, NEW o \in Orgs, MoveDevice(e, o) PROVE FALSE
    <3>1. row' = [row EXCEPT ![e] = [@ EXCEPT !.org = o]] /\ row[e] # None
      BY <2>4 DEF MoveDevice
    <3> QED  BY <1>1, <3>1, ApprovalWritten
  <2>5. CASE Admin
    <3>1. \/ \E e \in Devices : Approve(e) \/ DeleteDevice(e)
          \/ \E o \in Orgs : DeleteOrg(o)
      BY <2>2, <2>4, <2>5 DEF Admin, DropToken, ResetConfig
    <3>2. ASSUME NEW e \in Devices, Approve(e) PROVE e = d
      BY <1>1, <3>2 DEF Approve, TypeOK
    <3>3. ASSUME NEW e \in Devices, DeleteDevice(e) PROVE FALSE
      BY <1>1, <3>3 DEF DeleteDevice, TypeOK
    <3>4. ASSUME NEW o \in Orgs, DeleteOrg(o) PROVE FALSE
      BY <1>1, <3>4 DEF DeleteOrg
    <3> QED  BY <3>1, <3>2, <3>3, <3>4
  <2> QED
    BY <1>1, <2>2, <2>3, <2>5 DEF Next, Agent, AgentConnect, AgentSend,
       AgentSaveSecret, LoseConn, ServerRestart, database
<1>2. TypeOK /\ [Next]_vars =>
        [\A d \in Devices :
           row[d] # None /\ row'[d] # None /\ ~row[d].approved /\ row'[d].approved
             => Approve(d)]_vars
  BY <1>1
<1> QED  BY <1>2, Typing, PTL DEF Spec, PendingUntilApproved

-----------------------------------------------------------------------------
(* The duties of a node.                                                   *)

\* The messages to an agent.
RoleMessages ==
  [type : {"set_role"}, role : {"agent", "node"}, subnets : SUBSET Subnets,
   targets : {Nothing} \cup SUBSET Duties]
ConfigMessages == [type : {"snmp_config"}, targets : SUBSET Duties]
ScanMessages == [type : {"scan"}, subnets : SUBSET Subnets]
PollMessages == [type : {"snmp_poll"}, id : Targets]
NodeMessages == RoleMessages \cup ConfigMessages \cup ScanMessages \cup PollMessages

AgentRecord == [role : {"agent", "node"}, subnets : SUBSET Subnets, targets : SUBSET Duties]

\* Beside the property, the types of what it is about.
NodesInv ==
  /\ connected \in BOOLEAN /\ isNode \in BOOLEAN /\ subnets \subseteq Subnets
  /\ target \in [Targets -> [row : {"new", "on", "off", "gone"}, version : Versions \cup {Nothing}]]
  /\ inbox \in Seq(NodeMessages)
  /\ agent \in AgentRecord
  /\ TargetsReachNode

\* A message has targets or not, whatever kind it is.
LEMMA MessageKinds ==
  /\ \A m \in RoleMessages : Carries(m) <=> m.targets \in SUBSET Duties
  /\ \A m \in RoleMessages : ~Carries(m) => m.targets = Nothing
  /\ \A m \in ConfigMessages : Carries(m) /\ m.targets \in SUBSET Duties
  /\ \A m \in ScanMessages \cup PollMessages : ~Carries(m)
  BY NoDuties DEF RoleMessages, ConfigMessages, ScanMessages, PollMessages, Carries

LEMMA RowsAreDuties ==
  ASSUME NodesInv
  PROVE  Enabled(target) \in SUBSET Duties
  BY DEF NodesInv, Enabled, Duties

-----------------------------------------------------------------------------
(* What the messages on the way come to.                                   *)

LEMMA OtherIsSent ==
  ASSUME NEW q \in Seq(NodeMessages), NEW m \in NodeMessages, ~Carries(m),
         NEW held, NEW rows, ComesTo(q, held, rows)
  PROVE  ComesTo(Append(q, m), held, rows)
<1>1. /\ DOMAIN q = 1 .. Len(q) /\ Len(q) \in Nat /\ DOMAIN Append(q, m) = 1 .. Len(q) + 1
      /\ \A k \in 1 .. Len(q) : Append(q, m)[k] = q[k]
      /\ Append(q, m)[Len(q) + 1] = m
  OBVIOUS
<1>2. \A k \in 1 .. Len(q) + 1 : k \in 1 .. Len(q) \/ k = Len(q) + 1
  BY <1>1
<1> QED  BY <1>1, <1>2 DEF ComesTo

LEMMA NewsIsSent ==
  ASSUME NEW q \in Seq(NodeMessages), NEW m \in NodeMessages, Carries(m), NEW held
  PROVE  ComesTo(Append(q, m), held, m.targets)
<1>1. /\ Len(q) \in Nat /\ DOMAIN Append(q, m) = 1 .. Len(q) + 1
      /\ Append(q, m)[Len(q) + 1] = m
  OBVIOUS
<1> QED  BY <1>1 DEF ComesTo

LEMMA OneMessage ==
  ASSUME NEW m \in NodeMessages, Carries(m), NEW held
  PROVE  ComesTo(<<m>>, held, m.targets)
<1>1. DOMAIN <<m>> = {1} /\ <<m>>[1] = m
  OBVIOUS
<1> QED  BY <1>1 DEF ComesTo

LEMMA MessageIsRead ==
  ASSUME NEW q \in Seq(NodeMessages), q # <<>>, NEW held, NEW rows, ComesTo(q, held, rows)
  PROVE  ComesTo(Tail(q), IF Carries(Head(q)) THEN Head(q).targets ELSE held, rows)
<1> DEFINE rest == Tail(q)
<1>1. /\ DOMAIN q = 1 .. Len(q) /\ Len(q) \in Nat \ {0} /\ Head(q) = q[1]
      /\ DOMAIN rest = 1 .. Len(q) - 1
      /\ \A k \in 1 .. Len(q) - 1 : rest[k] = q[k + 1]
  OBVIOUS
<1> HIDE DEF rest
<1>2. ASSUME NEW k \in 1 .. Len(q), Carries(q[k]), q[k].targets = rows,
             \A l \in DOMAIN q : l > k => ~Carries(q[l])
      PROVE  ComesTo(rest, IF Carries(Head(q)) THEN Head(q).targets ELSE held, rows)
  <2>1. CASE k = 1
    <3>1. \A l \in DOMAIN rest : ~Carries(rest[l])
      BY <1>1, <1>2, <2>1
    <3> QED  BY <1>1, <1>2, <2>1, <3>1 DEF ComesTo
  <2>2. CASE k # 1
    <3>1. k - 1 \in DOMAIN rest /\ rest[k - 1] = q[k]
      BY <1>1, <2>2
    <3>2. \A l \in DOMAIN rest : l > k - 1 => ~Carries(rest[l])
      BY <1>1, <1>2
    <3> QED  BY <1>2, <3>1, <3>2 DEF ComesTo
  <2> QED  BY <2>1, <2>2
<1>3. ASSUME held = rows, \A k \in DOMAIN q : ~Carries(q[k])
      PROVE  ComesTo(rest, IF Carries(Head(q)) THEN Head(q).targets ELSE held, rows)
  <2>1. ~Carries(Head(q)) /\ \A k \in DOMAIN rest : ~Carries(rest[k])
    BY <1>1, <1>3
  <2> QED  BY <1>3, <2>1 DEF ComesTo
<1>4. \/ \E k \in 1 .. Len(q) : /\ Carries(q[k]) /\ q[k].targets = rows
                               /\ \A l \in DOMAIN q : l > k => ~Carries(q[l])
      \/ held = rows /\ \A k \in DOMAIN q : ~Carries(q[k])
  BY <1>1 DEF ComesTo
<1> QED  BY <1>2, <1>3, <1>4 DEF rest

-----------------------------------------------------------------------------
(* The steps.                                                              *)

LEMMA NodesInvInit == NodesInit => NodesInv
<1> SUFFICES ASSUME NodesInit PROVE NodesInv
  OBVIOUS
<1>1. agent \in AgentRecord
  BY DEF NodesInit, Unstarted, AgentRecord
<1>2. inbox \in Seq(NodeMessages)
  BY DEF NodesInit
<1>3. TargetsReachNode
  BY DEF NodesInit, TargetsReachNode
<1> QED  BY <1>1, <1>2, <1>3 DEF NodesInit, NodesInv

\* A request that sends no targets.
LEMMA RequestKeeps ==
  ASSUME NodesInv, NEW m \in NodeMessages, ~Carries(m), Send(m) \/ inbox' = inbox,
         isNode' \in BOOLEAN, subnets' \subseteq Subnets,
         UNCHANGED <<target, connected, agent, told>>
  PROVE  NodesInv'
<1>1. inbox' = inbox \/ inbox' = Append(inbox, m)
  BY DEF Send
<1>2. inbox' \in Seq(NodeMessages)
  BY <1>1 DEF NodesInv
<1>3. TargetsReachNode'
  <2>1. Enabled(target') = Enabled(target)
    BY DEF Enabled
  <2>2. SUFFICES ASSUME connected, told
                 PROVE  ComesTo(inbox', agent.targets, Enabled(target))
    BY <2>1, <2>2 DEF TargetsReachNode
  <2>3. ComesTo(inbox, agent.targets, Enabled(target)) /\ inbox \in Seq(NodeMessages)
    BY <2>2 DEF NodesInv, TargetsReachNode
  <2> QED  BY <1>1, <2>3, OtherIsSent
<1> QED  BY <1>2, <1>3 DEF NodesInv

\* A row that is written is sent with the others.
LEMMA PushKeeps ==
  ASSUME NodesInv, NEW t \in Targets, NEW v \in Versions \cup {Nothing},
         NEW r \in {"on", "off", "gone"},
         PushConfig(t, [row |-> r, version |-> v]), UNCHANGED <<connected, agent>>
  PROVE  NodesInv'
<1> DEFINE m == [type |-> "snmp_config", targets |-> Enabled(target')]
<1>1. target' \in [Targets -> [row : {"new", "on", "off", "gone"},
                               version : Versions \cup {Nothing}]]
  BY DEF NodesInv, PushConfig
<1>2. Enabled(target') \in SUBSET Duties
  BY <1>1 DEF Enabled, Duties
<1>3. m \in ConfigMessages /\ m.targets = Enabled(target')
  BY <1>2 DEF ConfigMessages
<1>4. m \in NodeMessages /\ Carries(m)
  BY <1>3, MessageKinds DEF NodeMessages
<1>5. /\ inbox' = IF connected THEN Append(inbox, m) ELSE inbox
      /\ told' = connected /\ UNCHANGED <<isNode, subnets>>
  BY DEF PushConfig, Send
<1> HIDE DEF m
<1>6. inbox' \in Seq(NodeMessages)
  BY <1>4, <1>5 DEF NodesInv
<1>7. TargetsReachNode'
  BY <1>3, <1>4, <1>5, NewsIsSent DEF NodesInv, TargetsReachNode
<1> QED  BY <1>1, <1>5, <1>6, <1>7 DEF NodesInv

LEMMA ConnectKeeps == NodesInv /\ Connect => NodesInv'
<1> SUFFICES ASSUME NodesInv, Connect PROVE NodesInv'
  OBVIOUS
<1> DEFINE m == [type |-> "set_role", role |-> "node", subnets |-> subnets,
                 targets |-> Enabled(target)]
<1>1. m \in RoleMessages /\ m.targets = Enabled(target)
  BY RowsAreDuties DEF RoleMessages, NodesInv
<1>2. m \in NodeMessages /\ Carries(m)
  BY <1>1, RowsAreDuties, MessageKinds DEF NodeMessages
<1>3. /\ inbox' = IF isNode THEN <<m>> ELSE <<>>
      /\ told' = isNode /\ connected' = TRUE /\ UNCHANGED <<isNode, subnets, target, agent>>
  BY DEF Connect, nodeRows
<1> HIDE DEF m
<1>4. inbox' \in Seq(NodeMessages)
  BY <1>2, <1>3
<1>5. TargetsReachNode'
  <2>1. SUFFICES ASSUME isNode PROVE ComesTo(<<m>>, agent.targets, Enabled(target))
    BY <1>3, <2>1 DEF TargetsReachNode, Enabled
  <2> QED  BY <1>1, <1>2, OneMessage
<1> QED  BY <1>3, <1>4, <1>5 DEF NodesInv

LEMMA LoseKeeps ==
  ASSUME NodesInv, Lose, UNCHANGED <<isNode, subnets, target>>, agent' \in AgentRecord
  PROVE  NodesInv'
<1>1. inbox' \in Seq(NodeMessages)
  BY DEF Lose
<1>2. TargetsReachNode'
  BY DEF Lose, TargetsReachNode
<1> QED  BY <1>1, <1>2 DEF NodesInv, Lose

LEMMA ReadKeeps == NodesInv /\ AgentSteps => NodesInv'
<1> SUFFICES ASSUME NodesInv, AgentSteps PROVE NodesInv'
  OBVIOUS
<1> DEFINE m == Head(inbox)
<1>1. /\ inbox # <<>> /\ inbox' = Tail(inbox)
      /\ UNCHANGED <<isNode, subnets, target, connected, told>>
  BY DEF AgentSteps, SetRole, SnmpConfig, StartScan, SnmpPoll, Receives, AgentReads, nodeRows
<1>2. inbox \in Seq(NodeMessages) /\ m \in NodeMessages /\ inbox' \in Seq(NodeMessages)
  BY <1>1 DEF NodesInv
<1>3. agent' \in AgentRecord /\ agent'.targets = IF Carries(m) THEN m.targets ELSE agent.targets
  <2>1. agent \in AgentRecord
    BY DEF NodesInv
  <2>2. CASE SetRole
    <3>1. m \in RoleMessages
      BY <1>2, <2>2 DEF SetRole, Receives, NodeMessages, ConfigMessages, ScanMessages, PollMessages
    <3>2. agent' = [role |-> m.role, subnets |-> m.subnets,
                    targets |-> IF m.targets = Nothing THEN agent.targets ELSE m.targets]
      BY <2>2 DEF SetRole
    <3>3. m.targets = Nothing <=> ~Carries(m)
      BY <3>1, MessageKinds, NoDuties
    <3> HIDE DEF m
    <3> QED  BY <2>1, <3>1, <3>2, <3>3 DEF AgentRecord, RoleMessages
  <2>3. CASE SnmpConfig
    <3>1. m \in ConfigMessages
      BY <1>2, <2>3 DEF SnmpConfig, Receives, NodeMessages, RoleMessages, ScanMessages, PollMessages
    <3>2. agent' = [agent EXCEPT !.targets = m.targets]
      BY <2>3 DEF SnmpConfig
    <3>3. Carries(m) /\ m.targets \in SUBSET Duties
      BY <3>1, MessageKinds
    <3> HIDE DEF m
    <3> QED  BY <2>1, <3>2, <3>3 DEF AgentRecord
  <2>4. CASE StartScan \/ SnmpPoll
    <3>1. m \in ScanMessages \cup PollMessages
      BY <1>2, <2>4 DEF StartScan, SnmpPoll, Receives, NodeMessages, RoleMessages, ConfigMessages
    <3>2. ~Carries(m)
      BY <3>1, MessageKinds
    <3> QED  BY <2>1, <2>4, <3>2 DEF StartScan, SnmpPoll
  <2> QED  BY <2>2, <2>3, <2>4 DEF AgentSteps
<1>4. TargetsReachNode'
  <2>1. SUFFICES ASSUME connected, told
                 PROVE  ComesTo(Tail(inbox), agent'.targets, Enabled(target))
    BY <1>1, <2>1 DEF TargetsReachNode, Enabled
  <2>2. ComesTo(inbox, agent.targets, Enabled(target))
    BY <2>1 DEF NodesInv, TargetsReachNode
  <2> QED  BY <1>1, <1>2, <1>3, <2>2, MessageIsRead
<1> QED  BY <1>1, <1>2, <1>3, <1>4 DEF NodesInv

\* What is none of these, and leaves both ends alone.
LEMMA RestKeeps ==
  ASSUME NodesInv, UNCHANGED <<isNode, subnets, target, connected, inbox, agent, told>>
  PROVE  NodesInv'
  BY DEF NodesInv, TargetsReachNode, Enabled

LEMMA NodesInvStep == NodesInv /\ [NodesNext]_nodesVars => NodesInv'
<1> SUFFICES ASSUME NodesInv, [NodesNext]_nodesVars PROVE NodesInv'
  OBVIOUS
<1>1. ASSUME NEW role \in {"agent", "node"}, NEW subs \in SUBSET Subnets
      PROVE  Role(role, subs) \in NodeMessages /\ ~Carries(Role(role, subs))
  <2>1. Role(role, subs) \in RoleMessages /\ Role(role, subs).targets = Nothing
    BY DEF Role, RoleMessages
  <2> QED  BY <2>1 DEF NodeMessages, Carries
<1>2. isNode \in BOOLEAN /\ subnets \subseteq Subnets
  BY DEF NodesInv
<1>3. CASE Connect
  BY <1>3, ConnectKeeps
<1>4. CASE ConnectionLost \/ AgentRestarts
  <2>1. Unstarted \in AgentRecord /\ agent \in AgentRecord
    BY DEF Unstarted, AgentRecord, NodesInv
  <2> QED  BY <1>4, <2>1, LoseKeeps DEF ConnectionLost, AgentRestarts, nodeRows
<1>5. CASE Promote
  BY <1>1, <1>2, <1>5, RequestKeeps DEF Promote, Move
<1>6. CASE Demote
  BY <1>1, <1>2, <1>6, RequestKeeps DEF Demote, Move
<1>7. CASE Scan
  <2> DEFINE m == [type |-> "scan", subnets |-> subnets]
  <2>1. m \in ScanMessages
    BY <1>2 DEF ScanMessages
  <2>2. m \in NodeMessages /\ ~Carries(m)
    BY <2>1, MessageKinds DEF NodeMessages
  <2> QED  BY <1>2, <1>7, <2>2, RequestKeeps DEF Scan, Move
<1>8. ASSUME NEW s \in Subnets, AddSubnet(s) PROVE NodesInv'
  <2>1. subnets' \subseteq Subnets /\ Send(Role("node", subnets'))
        /\ UNCHANGED <<isNode, target, connected, agent, told>>
    BY <1>2, <1>8 DEF AddSubnet, Move
  <2> QED  BY <1>1, <1>2, <2>1, RequestKeeps
<1>9. ASSUME NEW s \in Subnets, DeleteSubnet(s) PROVE NodesInv'
  BY <1>1, <1>2, <1>9, RequestKeeps DEF DeleteSubnet, Move
<1>10. ASSUME NEW s \in Subnets, HostChanges(s) PROVE NodesInv'
  BY <1>10, RestKeeps DEF HostChanges, nodeRows
<1>11. ASSUME NEW t \in Targets, DeleteTarget(t) PROVE NodesInv'
  BY <1>11, PushKeeps DEF DeleteTarget
<1>12. ASSUME NEW t \in Targets, NEW v \in Versions, CreateTarget(t, v) PROVE NodesInv'
  BY <1>12, PushKeeps DEF CreateTarget, Move
<1>13. ASSUME NEW t \in Targets, NEW v \in Versions, NEW r \in {"on", "off"},
              UpdateTarget(t, v, r)
       PROVE  NodesInv'
  BY <1>13, PushKeeps DEF UpdateTarget, Move
<1>14. ASSUME NEW t \in Targets, PollNow(t) PROVE NodesInv'
  <2> DEFINE m == [type |-> "snmp_poll", id |-> t]
  <2>1. m \in PollMessages
    BY DEF PollMessages
  <2>2. m \in NodeMessages /\ ~Carries(m)
    BY <2>1, MessageKinds DEF NodeMessages
  <2> QED  BY <1>2, <1>14, <2>2, RequestKeeps DEF PollNow, Move
<1>15. CASE AgentSteps
  BY <1>15, ReadKeeps
<1>16. CASE ServerSteps
  BY <1>16, RestKeeps DEF ServerSteps, SaveScan, SaveReading, ServerReads
<1>17. ASSUME NEW g \in Polled, LoopPolls(g) \/ PollEnds(g) \/ PollIsLost(g)
       PROVE  NodesInv'
  BY <1>17, RestKeeps DEF LoopPolls, PollEnds, PollIsLost, nodeRows
<1>18. ASSUME NEW subs \in SUBSET Subnets, NEW cached \in SUBSET Subnets, ScanEnds(subs, cached)
       PROVE  NodesInv'
  BY <1>18, RestKeeps DEF ScanEnds, nodeRows
<1>19. CASE UNCHANGED nodesVars
  BY <1>19, RestKeeps DEF nodesVars, nodeRows
<1>20. ASSUME NEW v \in Versions, RepliesChange(v) PROVE NodesInv'
  BY <1>20, RestKeeps DEF RepliesChange, nodeRows
<1>21. ASSUME NEW t \in Targets, NEW c \in Counters, ReadingAges(t, c) PROVE NodesInv'
  BY <1>21, RestKeeps DEF ReadingAges
<1> QED
  BY <1>3, <1>4, <1>5, <1>6, <1>7, <1>8, <1>9, <1>10, <1>11, <1>12, <1>13, <1>14, <1>15,
     <1>16, <1>17, <1>18, <1>19, <1>20, <1>21 DEF NodesNext

\* What an agent that has been told its targets holds, and what is on the way to it,
\* come to the rows of the database: for any targets, versions and subnets, requests
\* and lost connections.
THEOREM TargetsReachNodes == NodesSpec => []TargetsReachNode
<1>1. NodesInv => TargetsReachNode
  BY DEF NodesInv
<1> QED  BY <1>1, NodesInvInit, NodesInvStep, PTL DEF NodesSpec

=============================================================================
