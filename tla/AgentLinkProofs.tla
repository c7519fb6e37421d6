--------------------------- MODULE AgentLinkProofs ---------------------------
(***************************************************************************)
(* What holds of requests for any number of requests, connections and      *)
(* faults: AgentLink implements RequestPromise.                            *)
(***************************************************************************)
EXTENDS AgentLink, TLAPS

Each(s, T) == \A i \in 1 .. Len(s) : s[i] \in T
Distinct(s) == \A i, j \in 1 .. Len(s) : s[i] = s[j] => i = j

\* Requests that were sent on c and that the agent has not begun.
Awaited(c) ==
  {r \in Requests : /\ sentOn[r] = c
                    /\ req[r] \notin {"new", "refused"}
                    /\ done[r] = 0}

Begun == {r \in Requests : done[r] = 1}

\* A reply that the agent can give.
Truthful == {m \in Message : m.rid \in Begun /\ m.payload = m.rid}

\* What is on its way to the agent it has not begun, and nothing is on its way
\* twice.
DownSound == \A c \in Conns : Each(down[c], Awaited(c)) /\ Distinct(down[c])

\* What is on its way back, being handled, or received is the outcome of what
\* the agent has begun, for the request it was begun for.
UpSound ==
  /\ \A c \in Conns : Each(up[c], Truthful)
  /\ doing # None => doing \in Begun
  /\ apart \subseteq Begun
  /\ \A r \in Requests : got[r] # None => got[r] = r /\ r \in Begun

\* Nothing is begun twice, nothing answered without a result.
EndingSound ==
  /\ \A r \in Requests : done[r] \in {0, 1}
  /\ \A r \in Requests : req[r] \in {"new", "refused"} => done[r] = 0
  /\ \A r \in Requests : req[r] = "answered" => got[r] # None

\* The inductive invariant.
LinkInv == TypeOK /\ DownSound /\ UpSound /\ EndingSound

-----------------------------------------------------------------------------
(* Sequences.                                                              *)

\* What holds of the elements of a sequence and of one more holds of both.
LEMMA AppendEach ==
  ASSUME NEW S, NEW T, NEW s \in Seq(S), NEW x \in S, Each(s, T), x \in T
  PROVE  Each(Append(s, x), T)
BY DEF Each

\* A sequence without repetitions, and an element it does not have.
LEMMA AppendDistinct ==
  ASSUME NEW S, NEW T, NEW s \in Seq(S), NEW x \in S,
         Distinct(s), Each(s, T), x \notin T
  PROVE  Distinct(Append(s, x))
BY DEF Each, Distinct

\* The rest of a sequence: its elements were there, its head is not among them.
LEMMA TailEach ==
  ASSUME NEW S, NEW T, NEW s \in Seq(S), s # <<>>, Each(s, T)
  PROVE  /\ Tail(s) \in Seq(S) /\ Each(Tail(s), T)
         /\ Head(s) \in S /\ Head(s) \in T
BY DEF Each

LEMMA TailDistinct ==
  ASSUME NEW S, NEW T, NEW s \in Seq(S), s # <<>>, Each(s, T), Distinct(s)
  PROVE  Distinct(Tail(s)) /\ Each(Tail(s), T \ {Head(s)})
BY DEF Each, Distinct

\* The beginning of a sequence.
LEMMA PrefixKeeps ==
  ASSUME NEW S, NEW T, NEW s \in Seq(S), NEW i \in 0 .. Len(s), Each(s, T)
  PROVE  /\ SubSeq(s, 1, i) \in Seq(S) /\ Each(SubSeq(s, 1, i), T)
         /\ Distinct(s) => Distinct(SubSeq(s, 1, i))
<1> DEFINE t == SubSeq(s, 1, i)
<1>1. /\ t \in Seq(S) /\ Len(t) = i
      /\ \A k \in 1 .. i : t[k] = s[k]
  OBVIOUS
<1> HIDE DEF t
<1> QED  BY <1>1 DEF Each, Distinct

-----------------------------------------------------------------------------
(* Types.                                                                  *)

\* The server's steps keep the types.
LEMMA ServerTypes ==
  ASSUME TypeOK, Server
  PROVE  TypeOK'
<1> USE NoneAssumption, TasksAssumption
    DEF TypeOK, network, agent, End, Leave
<1>1. ASSUME NEW r \in Requests, Ask(r)  PROVE TypeOK'
  <2>1. CASE current = None
    BY <1>1, <2>1 DEF Ask
  <2>2. CASE current # None
    <3>1. Append(down[current], r) \in Seq(Requests)
      BY <2>2
    <3>2. down' \in [Conns -> Seq(Requests)]
      <4>1. /\ down \in [Conns -> Seq(Requests)]
            /\ \/ down' = down
               \/ down' = [down EXCEPT ![current] = Append(@, r)]
        BY <1>1, <2>2 DEF Ask
      <4> QED  BY ONLY <2>2, <3>1, <4>1
    <3>a. /\ req' = [req EXCEPT ![r] = "sending"]
          /\ sentOn' = [sentOn EXCEPT ![r] = current]
          /\ pending' = pending \cup {r}
      BY ONLY <1>1, <2>2 DEF Ask
    <3>b. /\ req \in [Requests -> {"new", "refused", "sending", "waiting",
                                   "answered", "expired", "failed"}]
          /\ sentOn \in [Requests -> Conns \cup {None}]
          /\ pending \subseteq Requests /\ current \in Conns \cup {None}
      OBVIOUS
    <3>3. req' \in [Requests -> {"new", "refused", "sending", "waiting",
                                "answered", "expired", "failed"}]
      BY ONLY <3>a, <3>b
    <3>4. sentOn' \in [Requests -> Conns \cup {None}] /\ pending' \subseteq Requests
      BY ONLY <3>a, <3>b
    <3> QED  BY <1>1, <2>2, <3>2, <3>3, <3>4 DEF Ask
  <2> QED  BY <2>1, <2>2
<1>2. ASSUME NEW r \in Requests, Sent(r) \/ SendRaises(r)  PROVE TypeOK'
  BY <1>2, ZenonT(60) DEF Sent, SendRaises
<1>3. ASSUME NEW r \in Requests, Return(r) \/ TimesOut(r)  PROVE TypeOK'
  BY <1>3 DEF Return, TimesOut
<1>4. ASSUME NEW c \in Conns, HandleAck(c)  PROVE TypeOK'
  <2>1. Head(up[c]) \in Message /\ up' \in [Conns -> Seq(Message)]
    BY <1>4 DEF HandleAck
  <2>2. Head(up[c]).payload \in Requests
    BY <2>1 DEF Message
  <2> QED  BY <1>4, <2>1, <2>2 DEF HandleAck
<1>5. ASSUME NEW c \in Conns, Register(c) \/ Refuse(c) \/ HandlerEnds(c)  PROVE TypeOK'
  BY <1>5, ZenonT(60) DEF Register, Refuse, HandlerEnds
<1> QED  BY <1>1, <1>2, <1>3, <1>4, <1>5 DEF Server

\* The agent's steps keep the types.
LEMMA AgentTypes ==
  ASSUME TypeOK, Agent
  PROVE  TypeOK'
<1> USE NoneAssumption, TasksAssumption DEF TypeOK, server, network
<1>1. ASSUME NEW c \in Conns, Connect(c)  PROVE TypeOK'
  BY <1>1 DEF Connect
<1>2. CASE Receive
  <2>1. ws \in Conns /\ Head(down[ws]) \in Requests
    BY <1>2 DEF Receive
  <2>2. down' \in [Conns -> Seq(Requests)]
    BY <1>2, <2>1 DEF Receive
  <2> QED  BY <1>2, <2>1, <2>2 DEF Receive
<1>3. ASSUME NEW r \in Requests, Open(ws), Ack(r)
      PROVE  /\ up' \in [Conns -> Seq(Message)]
             /\ first' \in [Conns -> {"none", "register", "other"}]
  <2>1. [rid |-> r, payload |-> r] \in Message  BY DEF Message
  <2> QED  BY <1>3, <2>1 DEF Ack, Sends, Open
<1>4. CASE Reply
  BY <1>3, <1>4 DEF Reply
<1>5. CASE ReplyFails
  BY <1>5 DEF ReplyFails, AfterFailedReply
<1>6. CASE ReaderEnds
  BY <1>6 DEF ReaderEnds
<1>7. CASE Introduce
  BY <1>7 DEF Introduce
<1>9. CASE LateHeartbeat
  <2>1. first' \in [Conns -> {"none", "register", "other"}]
    BY <1>9, ZenonT(60) DEF LateHeartbeat, Sends
  <2> QED  BY <1>9, <2>1 DEF LateHeartbeat
<1>8. ASSUME NEW r \in Requests, TaskReplies(r)  PROVE TypeOK'
  <2>1. /\ up' \in [Conns -> Seq(Message)]
        /\ first' \in [Conns -> {"none", "register", "other"}]
    BY <1>3, <1>8 DEF TaskReplies
  <2> QED  BY <1>8, <2>1 DEF TaskReplies
<1> QED  BY <1>1, <1>2, <1>4, <1>5, <1>6, <1>7, <1>8, <1>9 DEF Agent

\* A connection that is lost keeps the types: what arrives is a beginning of
\* what was sent.
LEMMA CutTypes ==
  ASSUME TypeOK, NEW c \in Conns, NEW orderly \in BOOLEAN, Cut(c, orderly),
         faults' \in 0 .. MaxFaults[kind]
  PROVE  TypeOK'
<1>1. PICK i \in 0 .. Len(down[c]), j \in 0 .. Len(up[c]) :
        /\ down' = [down EXCEPT ![c] = SubSeq(@, 1, i)]
        /\ up' = [up EXCEPT ![c] = SubSeq(@, 1, j)]
  BY DEF Cut
<1>2. SubSeq(down[c], 1, i) \in Seq(Requests) /\ SubSeq(up[c], 1, j) \in Seq(Message)
  BY <1>1 DEF TypeOK
<1> QED  BY <1>1, <1>2 DEF Cut, TypeOK, server, agent

\* The steps of the network and of faults keep the types.
LEMMA FaultTypes ==
  ASSUME TypeOK, Fault \/ \E c \in Conns : CloseAbandoned(c)
  PROVE  TypeOK'
<1>1. ASSUME Faulty  PROVE faults' \in 0 .. MaxFaults[kind]
  BY <1>1, FaultsAssumption DEF Faulty, TypeOK
<1>2. ASSUME NEW c \in Conns, NEW orderly \in BOOLEAN, Lose(c, orderly)  PROVE TypeOK'
  BY <1>1, <1>2, CutTypes DEF Lose
<1>3. ASSUME NEW c \in Conns, CloseAbandoned(c)  PROVE TypeOK'
  BY <1>3, CutTypes DEF CloseAbandoned, TypeOK
<1> USE NoneAssumption DEF TypeOK, server, network, agent
<1>4. ASSUME NEW c \in Conns, HandlerFails(c)  PROVE TypeOK'
  BY <1>1, <1>4 DEF HandlerFails, Leave
<1>5. CASE HandlerRaises
  BY <1>1, <1>5 DEF HandlerRaises, Open
<1>6. CASE ServerRestart
  BY <1>1, <1>6 DEF ServerRestart
<1>7. CASE AgentRestart
  BY <1>1, <1>7 DEF AgentRestart
<1> QED  BY <1>2, <1>3, <1>4, <1>5, <1>6, <1>7 DEF Fault

\* Every variable keeps its type, for any requests and connections.
THEOREM LinkTyping == Spec => []TypeOK
<1>1. Init => TypeOK
  BY FaultsAssumption DEF Init, TypeOK
<1>2. TypeOK /\ [Next]_vars => TypeOK'
  <2> SUFFICES ASSUME TypeOK, [Next]_vars  PROVE TypeOK'
    OBVIOUS
  <2>1. CASE UNCHANGED vars
    BY <2>1 DEF vars, server, network, agent, TypeOK
  <2> QED  BY <2>1, ServerTypes, AgentTypes, FaultTypes DEF Next
<1> QED  BY <1>1, <1>2, PTL DEF Spec

-----------------------------------------------------------------------------
(* What is under way is sound.                                             *)

\* A sequence within a set is within a larger one.
LEMMA EachGrows ==
  ASSUME NEW s, NEW T, NEW U, Each(s, T), T \subseteq U
  PROVE  Each(s, U)
BY DEF Each

\* A step that sends nothing down, and starts nothing.
LEMMA DownKept ==
  ASSUME DownSound, down' = down, sentOn' = sentOn, done' = done,
         \A r \in Requests :
           req[r] \notin {"new", "refused"} => req'[r] \notin {"new", "refused"}
  PROVE  DownSound'
<1>1. \A c \in Conns : Awaited(c) \subseteq Awaited(c)'
  BY DEF Awaited
<1> QED  BY <1>1, EachGrows DEF DownSound

\* A step that touches nothing on the way up.
LEMMA UpKept ==
  ASSUME UpSound, UNCHANGED <<up, doing, apart, got, done>>
  PROVE  UpSound'
BY DEF UpSound, Truthful, Begun

\* A step that only changes where requests are, between being sent and their
\* ends.
LEMMA OnlyEnds ==
  ASSUME LinkInv, TypeOK',
         UNCHANGED <<down, sentOn, done, up, doing, apart, got>>,
         \A r \in Requests :
           \/ req'[r] = req[r]
           \/ /\ req[r] \in {"sending", "waiting"}
              /\ req'[r] \in {"waiting", "expired", "failed", "answered"}
              /\ req'[r] = "answered" => got[r] # None
  PROVE  LinkInv'
<1>1. DownSound'
  BY DownKept DEF LinkInv
<1>2. UpSound'
  BY UpKept DEF LinkInv
<1>3. EndingSound'
  BY DEF LinkInv, EndingSound
<1> QED  BY <1>1, <1>2, <1>3 DEF LinkInv

\* A new request: refused, or the last on its way down its connection.
LEMMA AskKeeps ==
  ASSUME LinkInv, TypeOK', NEW r \in Requests, Ask(r)
  PROVE  LinkInv'
<1>1. UpSound'
  BY UpKept DEF LinkInv, Ask, agent
<1>2. EndingSound'
  BY DEF LinkInv, EndingSound, Ask, TypeOK
<1>3. /\ req[r] = "new" /\ done[r] = 0 /\ done' = done
      /\ \A c \in Conns : r \notin Awaited(c)
  BY DEF LinkInv, EndingSound, Ask, Awaited
<1>4. \A q \in Requests \ {r} : req'[q] = req[q] /\ sentOn'[q] = sentOn[q]
  BY DEF Ask, LinkInv, TypeOK
<1>5. \A c \in Conns : Awaited(c) \subseteq Awaited(c)'
  BY <1>3, <1>4 DEF Awaited
<1>6. CASE down' = down
  BY <1>1, <1>2, <1>5, <1>6, EachGrows DEF LinkInv, DownSound
<1>7. CASE down' # down
  <2>1. PICK c \in Conns :
          /\ down' = [down EXCEPT ![c] = Append(@, r)]
          /\ sentOn' = [sentOn EXCEPT ![r] = c]
          /\ req' = [req EXCEPT ![r] = "sending"]
    BY <1>7 DEF Ask, LinkInv, TypeOK
  <2>2. r \in Awaited(c)'
    <3>1. req'[r] = "sending" /\ sentOn'[r] = c
      BY <2>1 DEF LinkInv, TypeOK
    <3> QED  BY <1>3, <3>1 DEF Awaited
  <2>3. ASSUME NEW b \in Conns, b # c
        PROVE  Each(down'[b], Awaited(b)') /\ Distinct(down'[b])
    BY <1>5, <2>1, <2>3, EachGrows DEF LinkInv, DownSound, TypeOK
  <2>4. down'[c] = Append(down[c], r)
    BY <2>1 DEF LinkInv, TypeOK
  <2>5. down[c] \in Seq(Requests) /\ Each(down[c], Awaited(c)) /\ Distinct(down[c])
    BY <2>1 DEF LinkInv, TypeOK, DownSound
  <2>6. Each(down'[c], Awaited(c)')
    <3>1. Each(down[c], Awaited(c)')
      BY <1>5, <2>5, EachGrows
    <3> QED  BY <2>2, <2>4, <2>5, <3>1, AppendEach
  <2>7. Distinct(down'[c])
    BY <1>3, <2>4, <2>5, AppendDistinct
  <2>8. DownSound'
    BY <2>3, <2>6, <2>7 DEF DownSound
  <2> QED  BY <1>1, <1>2, <2>8 DEF LinkInv
<1> QED  BY <1>6, <1>7

\* A reply that is read: the result of the request it names, if that waits.
LEMMA AckKeeps ==
  ASSUME LinkInv, TypeOK', NEW c \in Conns, HandleAck(c)
  PROVE  LinkInv'
<1>1. DownSound'
  BY DownKept DEF LinkInv, HandleAck
<1> DEFINE m == Head(up[c])
<1>2. m \in Truthful /\ Each(Tail(up[c]), Truthful)
  BY TailEach DEF HandleAck, LinkInv, UpSound, TypeOK
<1>3. \A r \in Requests : got'[r] # got[r] => got[r] = None /\ got'[r] = r /\ r \in Begun
  BY <1>2 DEF HandleAck, Resolved, Truthful, Begun
<1>4. \A b \in Conns : Each(up'[b], Truthful)
  BY <1>2 DEF HandleAck, LinkInv, UpSound, TypeOK
<1>5. /\ Truthful' = Truthful /\ Begun' = Begun
      /\ UNCHANGED <<doing, apart, req, done>>
  BY DEF HandleAck, Truthful, Begun, agent
<1> HIDE DEF m
<1>6. UpSound'
  BY <1>3, <1>4, <1>5 DEF LinkInv, UpSound
<1>7. EndingSound'
  BY <1>3, <1>5, NoneAssumption DEF LinkInv, EndingSound
<1> QED  BY <1>1, <1>6, <1>7 DEF LinkInv

\* A step that leaves alone what has been sent and received.
LEMMA QuietKeeps ==
  ASSUME LinkInv, TypeOK', UNCHANGED <<req, sentOn, got, down, up, done>>,
         doing' \in {doing, None}, apart' \subseteq apart
  PROVE  LinkInv'
<1>1. DownSound'
  BY DownKept DEF LinkInv
<1>2. UpSound'
  BY DEF LinkInv, UpSound, Truthful, Begun
<1>3. EndingSound'
  BY DEF LinkInv, EndingSound
<1> QED  BY <1>1, <1>2, <1>3 DEF LinkInv

\* The server's steps keep the invariant.
LEMMA ServerKeeps ==
  ASSUME LinkInv, Server
  PROVE  LinkInv'
<1>1. TypeOK'
  BY ServerTypes DEF LinkInv
<1> USE DEF network, agent, End, Leave
<1>2. ASSUME NEW r \in Requests, Sent(r) \/ SendRaises(r)  PROVE LinkInv'
  BY <1>1, <1>2, OnlyEnds DEF Sent, SendRaises, LinkInv, TypeOK
<1>3. ASSUME NEW r \in Requests, Return(r) \/ TimesOut(r)  PROVE LinkInv'
  BY <1>1, <1>3, OnlyEnds DEF Return, TimesOut, LinkInv, TypeOK
<1>4. ASSUME NEW c \in Conns, Register(c) \/ Refuse(c) \/ HandlerEnds(c)  PROVE LinkInv'
  BY <1>1, <1>4, QuietKeeps DEF Register, Refuse, HandlerEnds
<1> QED  BY <1>1, <1>2, <1>3, <1>4, AskKeeps, AckKeeps DEF Server

\* The next request is begun: it was not before, and is not on its way again.
LEMMA ReceiveKeeps ==
  ASSUME LinkInv, TypeOK', Receive
  PROVE  LinkInv'
<1> DEFINE r == Head(down[ws])
<1>1. /\ ws \in Conns /\ r \in Requests
      /\ down[ws] \in Seq(Requests) /\ down[ws] # <<>>
  BY DEF Receive, LinkInv, TypeOK
<1>2. Each(down[ws], Awaited(ws)) /\ Distinct(down[ws])
  BY <1>1 DEF LinkInv, DownSound
<1>3. r \in Awaited(ws)
  BY <1>1, <1>2, TailEach
<1>4. Distinct(Tail(down[ws])) /\ Each(Tail(down[ws]), Awaited(ws) \ {r})
  BY <1>1, <1>2, TailDistinct
<1>5. /\ down' = [down EXCEPT ![ws] = Tail(@)]
      /\ done' = [done EXCEPT ![r] = @ + 1]
      /\ doing' \in {doing, r} /\ apart' \subseteq apart \cup {r}
      /\ UNCHANGED <<req, sentOn, got, up>>
  BY DEF Receive, server
<1> HIDE DEF r
<1>6. done'[r] = 1 /\ \A q \in Requests \ {r} : done'[q] = done[q]
  BY <1>1, <1>3, <1>5 DEF LinkInv, TypeOK, Awaited
<1>7. \A c \in Conns : Awaited(c) \ {r} \subseteq Awaited(c)'
  BY <1>5, <1>6 DEF Awaited
<1>8. ASSUME NEW c \in Conns
      PROVE  Each(down'[c], Awaited(c)') /\ Distinct(down'[c])
  <2>1. CASE c = ws
    BY <1>1, <1>4, <1>5, <1>7, <2>1, EachGrows DEF LinkInv, TypeOK
  <2>2. CASE c # ws
    <3>1. down'[c] = down[c] /\ r \notin Awaited(c)
      BY <1>1, <1>3, <1>5, <2>2 DEF LinkInv, TypeOK, Awaited
    <3>2. Awaited(c) \subseteq Awaited(c)'
      BY <1>7, <3>1
    <3> QED  BY <3>1, <3>2, EachGrows DEF LinkInv, DownSound
  <2> QED  BY <2>1, <2>2
<1>9. r \in Begun' /\ Begun \subseteq Begun' /\ Truthful \subseteq Truthful'
  BY <1>1, <1>6 DEF Begun, Truthful
<1>10. UpSound'
  BY <1>5, <1>9, EachGrows DEF LinkInv, UpSound
<1>11. EndingSound'
  BY <1>3, <1>5, <1>6 DEF LinkInv, EndingSound, Awaited
<1> QED  BY <1>8, <1>10, <1>11 DEF LinkInv, DownSound

\* The reply to what was begun is added to those on their way.
LEMMA ReplyKeeps ==
  ASSUME LinkInv, TypeOK', NEW r \in Begun, Open(ws), Ack(r),
         UNCHANGED <<req, sentOn, got, down, done>>,
         doing' \in {doing, None}, apart' \subseteq apart
  PROVE  LinkInv'
<1>1. DownSound'
  BY DownKept DEF LinkInv
<1>2. [rid |-> r, payload |-> r] \in Truthful
  BY DEF Truthful, Message, Begun
<1>3. Begun' = Begun /\ Truthful' = Truthful
  BY DEF Begun, Truthful
<1>4. \A c \in Conns : Each(up'[c], Truthful)
  <2> SUFFICES ASSUME NEW c \in Conns  PROVE Each(up'[c], Truthful)
    OBVIOUS
  <2>1. up[c] \in Seq(Message) /\ Each(up[c], Truthful)
    BY DEF LinkInv, TypeOK, UpSound
  <2>2. up'[c] \in {up[c], Append(up[c], [rid |-> r, payload |-> r])}
    BY DEF Ack, LinkInv, TypeOK
  <2>3. [rid |-> r, payload |-> r] \in Message
    BY <1>2 DEF Truthful
  <2>4. Each(Append(up[c], [rid |-> r, payload |-> r]), Truthful)
    BY <1>2, <2>1, <2>3, AppendEach
  <2> QED  BY <2>1, <2>2, <2>4
<1>5. UpSound'
  BY <1>3, <1>4 DEF LinkInv, UpSound
<1>6. EndingSound'
  BY DEF LinkInv, EndingSound
<1> QED  BY <1>1, <1>5, <1>6 DEF LinkInv

\* The agent's steps keep the invariant.
LEMMA AgentKeeps ==
  ASSUME LinkInv, Agent
  PROVE  LinkInv'
<1>1. TypeOK'
  BY AgentTypes DEF LinkInv
<1> USE DEF server, network
<1>2. ASSUME NEW c \in Conns, Connect(c)  PROVE LinkInv'
  BY <1>1, <1>2, QuietKeeps DEF Connect
<1>3. CASE Reply
  <2>1. doing \in Begun  BY <1>3 DEF Reply, LinkInv, UpSound
  <2> QED  BY <1>1, <1>3, <2>1, ReplyKeeps DEF Reply
<1>4. CASE ReplyFails \/ ReaderEnds \/ Introduce \/ LateHeartbeat
  BY <1>1, <1>4, QuietKeeps DEF ReplyFails, ReaderEnds, Introduce, LateHeartbeat
<1>5. ASSUME NEW r \in Requests, TaskReplies(r)  PROVE LinkInv'
  <2>1. r \in Begun  BY <1>5 DEF TaskReplies, LinkInv, UpSound
  <2>2. CASE Open(ws)
    BY <1>1, <1>5, <2>1, <2>2, ReplyKeeps DEF TaskReplies
  <2>3. CASE ~Open(ws)
    BY <1>1, <1>5, <2>3, QuietKeeps DEF TaskReplies
  <2> QED  BY <2>2, <2>3
<1> QED  BY <1>1, <1>2, <1>3, <1>4, <1>5, ReceiveKeeps DEF Agent

\* What is lost with a connection takes nothing from the rest.
LEMMA CutKeeps ==
  ASSUME LinkInv, TypeOK', NEW c \in Conns, NEW orderly \in BOOLEAN,
         Cut(c, orderly)
  PROVE  LinkInv'
<1>1. PICK i \in 0 .. Len(down[c]), j \in 0 .. Len(up[c]) :
        /\ down' = [down EXCEPT ![c] = SubSeq(@, 1, i)]
        /\ up' = [up EXCEPT ![c] = SubSeq(@, 1, j)]
  BY DEF Cut
<1>2. UNCHANGED <<req, sentOn, got, done, doing, apart>>
  BY DEF Cut, server, agent
<1>3. /\ \A b \in Conns : Awaited(b)' = Awaited(b)
      /\ Truthful' = Truthful /\ Begun' = Begun
  BY <1>2 DEF Awaited, Truthful, Begun
<1>4. down[c] \in Seq(Requests) /\ up[c] \in Seq(Message)
  BY DEF LinkInv, TypeOK
<1>5. /\ Each(SubSeq(down[c], 1, i), Awaited(c)) /\ Distinct(SubSeq(down[c], 1, i))
      /\ Each(SubSeq(up[c], 1, j), Truthful)
  BY <1>1, <1>4, PrefixKeeps DEF LinkInv, DownSound, UpSound
<1>6. DownSound'
  BY <1>1, <1>3, <1>5 DEF LinkInv, DownSound, TypeOK
<1>7. UpSound'
  BY <1>1, <1>2, <1>3, <1>5 DEF LinkInv, UpSound, TypeOK
<1>8. EndingSound'
  BY <1>2 DEF LinkInv, EndingSound
<1> QED  BY <1>6, <1>7, <1>8 DEF LinkInv

\* Steps of the network and of faults keep the invariant.
LEMMA FaultKeeps ==
  ASSUME LinkInv, Fault \/ \E c \in Conns : CloseAbandoned(c)
  PROVE  LinkInv'
<1>1. TypeOK'
  BY FaultTypes DEF LinkInv
<1>2. ASSUME NEW c \in Conns, NEW orderly \in BOOLEAN,
             Lose(c, orderly) \/ CloseAbandoned(c)
      PROVE  LinkInv'
  BY <1>1, <1>2, CutKeeps DEF Lose, CloseAbandoned
<1> USE DEF server, network, agent
<1>3. ASSUME NEW c \in Conns, HandlerFails(c)  PROVE LinkInv'
  BY <1>1, <1>3, QuietKeeps DEF HandlerFails, Leave
<1>4. CASE HandlerRaises
  BY <1>1, <1>4, QuietKeeps DEF HandlerRaises
<1>5. CASE ServerRestart
  BY <1>1, <1>5, OnlyEnds DEF ServerRestart
<1>6. CASE AgentRestart
  <2>1. /\ down' = [down EXCEPT ![ws] = <<>>] /\ doing' = None /\ apart' = {}
        /\ UNCHANGED <<req, sentOn, got, up, done>>
    BY <1>6 DEF AgentRestart
  <2>2. DownSound'
    BY <2>1 DEF LinkInv, TypeOK, DownSound, Each, Distinct, Awaited
  <2>3. UpSound'
    BY <2>1 DEF LinkInv, UpSound, Truthful, Begun
  <2>4. EndingSound'
    BY <2>1 DEF LinkInv, EndingSound
  <2> QED  BY <1>1, <2>2, <2>3, <2>4 DEF LinkInv
<1> QED  BY <1>2, <1>3, <1>4, <1>5, <1>6 DEF Fault

\* The invariant holds.
LEMMA LinkInvariant == Spec => []LinkInv
<1>1. Init => LinkInv
  <2> SUFFICES ASSUME Init  PROVE LinkInv
    OBVIOUS
  <2>1. TypeOK
    BY FaultsAssumption DEF Init, TypeOK
  <2>2. DownSound /\ UpSound /\ EndingSound
    BY DEF Init, DownSound, UpSound, EndingSound, Each, Distinct
  <2> QED  BY <2>1, <2>2 DEF LinkInv
<1>2. LinkInv /\ [Next]_vars => LinkInv'
  <2> SUFFICES ASSUME LinkInv, [Next]_vars  PROVE LinkInv'
    OBVIOUS
  <2>1. CASE UNCHANGED vars
    <3>1. TypeOK'
      BY <2>1 DEF vars, server, network, agent, LinkInv, TypeOK
    <3> QED  BY <2>1, <3>1, QuietKeeps DEF vars, server, network, agent
  <2> QED  BY <2>1, ServerKeeps, AgentKeeps, FaultKeeps DEF Next
<1> QED  BY <1>1, <1>2, PTL DEF Spec

-----------------------------------------------------------------------------
(* Every step is one that RequestPromise allows, or none.                  *)

\* The ending of a request, by where it is.
LEMMA EndingIs ==
  ASSUME NEW how, NEW x
  PROVE  /\ how = "new" => EndingOf(how, x) = <<"none">>
         /\ how = "refused" => EndingOf(how, x) = <<"refused">>
         /\ how \in {"sending", "waiting"} => EndingOf(how, x) = <<"asked">>
         /\ how \in {"expired", "failed"} => EndingOf(how, x) = <<"error">>
         /\ how = "answered" => EndingOf(how, x) = <<"answer", x>>
BY DEF EndingOf

\* What a request's ending does not depend on.
LEMMA EndingSame ==
  ASSUME NEW how, NEW x, NEW y, how \in {"new", "refused", "sending", "waiting", "expired", "failed"}
  PROVE  EndingOf(how, x) = EndingOf(how, y)
BY DEF EndingOf

\* A step that leaves the endings and what has been begun as they are.
LEMMA Stutters ==
  ASSUME LinkInv, UNCHANGED <<req, done>>,
         \A r \in Requests : req[r] = "answered" => got'[r] = got[r]
  PROVE  UNCHANGED Promise!vars
<1>1. \A r \in Requests : EndingOf(req[r], got'[r]) = EndingOf(req[r], got[r])
  BY EndingSame DEF LinkInv, TypeOK
<1>2. Ending' = Ending
  BY <1>1 DEF Ending
<1> QED  BY <1>2 DEF Promise!vars

\* A step of one request alone: the others end as they did.
LEMMA OneMoves ==
  ASSUME LinkInv, NEW r \in Requests, NEW to, req' = [req EXCEPT ![r] = to],
         UNCHANGED <<got, done>>
  PROVE  Ending' = [Ending EXCEPT ![r] = EndingOf(to, got[r])]
<1>1. req'[r] = to /\ \A q \in Requests \ {r} : req'[q] = req[q] /\ got'[q] = got[q]
  BY DEF LinkInv, TypeOK
<1>2. \A q \in Requests \ {r} :
        EndingOf(req'[q], got'[q]) = EndingOf(req[q], got[q])
  BY <1>1
<1>3. EndingOf(req'[r], got'[r]) = EndingOf(to, got[r])
  BY <1>1
<1>4. Ending' = [q \in Requests |-> EndingOf(req'[q], got'[q])]
  BY DEF Ending
<1> QED  BY <1>2, <1>3, <1>4 DEF Ending

\* The end of a request is Finish with its own outcome, or Fail.
LEMMA EndMaps ==
  ASSUME LinkInv, NEW r \in Requests, NEW to \in {"answered", "expired", "failed"},
         req[r] \in {"sending", "waiting"}, End(r, to),
         to = "answered" => got[r] # None
  PROVE  Promise!Next
<1>1. req' = [req EXCEPT ![r] = to] /\ UNCHANGED <<got, done>>
  BY DEF End
<1>2. Ending' = [Ending EXCEPT ![r] = EndingOf(to, got[r])]
  BY <1>1, OneMoves
<1>3. Ending[r] = <<"asked">>
  BY EndingIs DEF Ending
<1>4. CASE to = "answered"
  <2>1. got[r] = r /\ done[r] = 1
    BY <1>4 DEF LinkInv, UpSound, Begun
  <2>2. Ending' = [Ending EXCEPT ![r] = <<"answer", r>>]
    BY <1>2, <1>4, <2>1, EndingIs
  <2>3. Promise!Finish(r)
    BY <1>1, <1>3, <2>1, <2>2 DEF Promise!Finish, Promise!Answer
  <2> QED  BY <2>3 DEF Promise!Next
<1>5. CASE to \in {"expired", "failed"}
  <2>1. Ending' = [Ending EXCEPT ![r] = <<"error">>]
    BY <1>2, <1>5, EndingIs
  <2>2. Promise!Fail(r)
    BY <1>1, <1>3, <2>1 DEF Promise!Fail
  <2> QED  BY <2>2 DEF Promise!Next
<1> QED  BY <1>4, <1>5

\* What the server does is what an endpoint was promised, or nothing to it.
LEMMA ServerMaps ==
  ASSUME LinkInv, Server
  PROVE  [Promise!Next]_(Promise!vars)
<1>1. ASSUME NEW r \in Requests, Ask(r)  PROVE Promise!Next
  <2>1. PICK to \in {"refused", "sending"} : req' = [req EXCEPT ![r] = to]
    BY <1>1 DEF Ask
  <2>2. UNCHANGED <<got, done>>
    BY <1>1 DEF Ask
  <2>3. Ending' = [Ending EXCEPT ![r] = EndingOf(to, got[r])]
    BY <2>1, <2>2, OneMoves
  <2>4. Ending[r] = <<"none">>
    BY <1>1, EndingIs DEF Ask, Ending
  <2>5. EndingOf(to, got[r]) \in {<<"asked">>, <<"refused">>}
    BY EndingIs
  <2>6. Promise!Ask(r)
    BY <2>2, <2>3, <2>4, <2>5 DEF Promise!Ask
  <2> QED  BY <2>6 DEF Promise!Next
<1>2. ASSUME NEW r \in Requests, Sent(r)  PROVE UNCHANGED Promise!vars
  <2>1. req' = [req EXCEPT ![r] = "waiting"] /\ UNCHANGED <<got, done>>
    BY <1>2 DEF Sent
  <2>2. Ending' = [Ending EXCEPT ![r] = EndingOf("waiting", got[r])]
    BY <2>1, OneMoves
  <2>3. EndingOf("waiting", got[r]) = <<"asked">> /\ Ending[r] = <<"asked">>
    BY <1>2, EndingIs DEF Ending, Sent
  <2>4. Ending' = Ending
    BY <2>2, <2>3 DEF Ending
  <2> QED  BY <2>1, <2>4 DEF Promise!vars
<1>3. ASSUME NEW r \in Requests, SendRaises(r) \/ Return(r) \/ TimesOut(r)
      PROVE  Promise!Next
  BY <1>3, EndMaps DEF SendRaises, Return, TimesOut
<1>4. ASSUME NEW c \in Conns, HandleAck(c)  PROVE UNCHANGED Promise!vars
  <2>1. \A r \in Requests : req[r] = "answered" => got'[r] = got[r]
    BY <1>4 DEF HandleAck, LinkInv, EndingSound
  <2> QED  BY <1>4, <2>1, Stutters DEF HandleAck
<1>5. ASSUME NEW c \in Conns, Register(c) \/ Refuse(c) \/ HandlerEnds(c)
      PROVE  UNCHANGED Promise!vars
  BY <1>5, Stutters DEF Register, Refuse, HandlerEnds, Leave
<1> QED  BY <1>1, <1>2, <1>3, <1>4, <1>5 DEF Server

\* What the agent does is to carry out a request it has not carried out
\* before, one that waits or has ended with an error; or nothing to endpoints.
LEMMA AgentMaps ==
  ASSUME LinkInv, Agent
  PROVE  [Promise!Next]_(Promise!vars)
<1>1. CASE Receive
  <2> DEFINE r == Head(down[ws])
  <2>1. r \in Requests /\ r \in Awaited(ws)
    <3>1. ws \in Conns  BY <1>1 DEF Receive, LinkInv, TypeOK
    <3> QED  BY <1>1, <3>1, TailEach DEF Receive, LinkInv, TypeOK, DownSound
  <2>2. done' = [done EXCEPT ![r] = @ + 1] /\ UNCHANGED <<req, got>>
    BY <1>1 DEF Receive, server
  <2> HIDE DEF r
  <2>3. done[r] = 0 /\ req[r] \notin {"new", "refused", "answered"}
    BY <2>1, NoneAssumption DEF Awaited, LinkInv, EndingSound, UpSound, Begun
  <2>4. Ending[r] \in {<<"asked">>, <<"error">>}
    BY <2>1, <2>3, EndingIs DEF Ending, LinkInv, TypeOK
  <2>5. Ending' = Ending
    BY <2>2 DEF Ending
  <2>6. done' = [done EXCEPT ![r] = 1]
    BY <2>1, <2>2, <2>3 DEF LinkInv, TypeOK
  <2>7. Promise!Perform(r)
    BY <2>3, <2>4, <2>5, <2>6 DEF Promise!Perform
  <2> QED  BY <2>1, <2>7 DEF Promise!Next
<1>2. CASE ~Receive
  <2>1. UNCHANGED <<req, got, done>>
    BY <1>2 DEF Agent, Connect, Introduce, Reply, ReplyFails, ReaderEnds,
                LateHeartbeat, TaskReplies, server
  <2> QED  BY <2>1, Stutters
<1> QED  BY <1>1, <1>2

\* A fault is nothing to endpoints, except that a stop of the server fails all
\* that is asked.
LEMMA FaultMaps ==
  ASSUME LinkInv, Fault \/ \E c \in Conns : CloseAbandoned(c)
  PROVE  [Promise!Next]_(Promise!vars)
<1>1. CASE ServerRestart
  <2>1. ASSUME NEW r \in Requests
        PROVE  EndingOf(req'[r], got'[r]) =
                 IF EndingOf(req[r], got[r]) = <<"asked">> THEN <<"error">>
                 ELSE EndingOf(req[r], got[r])
    <3>1. got'[r] = got[r]  BY <1>1 DEF ServerRestart
    <3>2. CASE req[r] \in {"sending", "waiting"}
      <4>1. req'[r] = "failed"  BY <1>1, <3>2 DEF ServerRestart
      <4> QED  BY <3>2, <4>1, EndingIs
    <3>3. CASE req[r] \notin {"sending", "waiting"}
      <4>1. req'[r] = req[r]  BY <1>1, <3>3 DEF ServerRestart
      <4>2. EndingOf(req[r], got[r]) # <<"asked">>
        <5>1. CASE req[r] = "answered"
          <6>1. EndingOf(req[r], got[r])[1] = "answer"
            BY <5>1, EndingIs
          <6> QED  BY <6>1
        <5>2. CASE req[r] # "answered"
          <6>1. req[r] \in {"new", "refused", "expired", "failed"}
            BY <3>3, <5>2 DEF LinkInv, TypeOK
          <6>2. EndingOf(req[r], got[r])[1] \in {"none", "refused", "error"}
            BY <6>1, EndingIs
          <6> QED  BY <6>2
        <5> QED  BY <5>1, <5>2
      <4> QED  BY <3>1, <4>1, <4>2
    <3> QED  BY <3>2, <3>3
  <2>2. Ending' = [r \in Requests |->
                     IF Ending[r] = <<"asked">> THEN <<"error">> ELSE Ending[r]]
    BY <2>1 DEF Ending
  <2>3. Promise!FailAll
    BY <1>1, <2>2 DEF ServerRestart, Promise!FailAll
  <2> QED  BY <2>3 DEF Promise!Next
<1>2. CASE ~ServerRestart
  <2>1. UNCHANGED <<req, got, done>>
    BY <1>2 DEF Fault, Lose, CloseAbandoned, Cut, HandlerFails, Leave,
                HandlerRaises, AgentRestart, server
  <2> QED  BY <2>1, Stutters
<1> QED  BY <1>1, <1>2

\* AgentLink implements RequestPromise: for any requests, connections, losses,
\* exceptions and restarts, each request is carried out at most once, and is
\* answered only with the outcome of having been carried out.
THEOREM RequestsAreKept == Spec => RequestsKept
<1>1. Init => Promise!Init
  BY EndingIs DEF Init, Promise!Init, Ending
<1>2. LinkInv /\ [Next]_vars => [Promise!Next]_(Promise!vars)
  <2> SUFFICES ASSUME LinkInv, [Next]_vars  PROVE [Promise!Next]_(Promise!vars)
    OBVIOUS
  <2>1. CASE UNCHANGED vars
    BY <2>1, Stutters DEF vars, server
  <2> QED  BY <2>1, ServerMaps, AgentMaps, FaultMaps DEF Next
<1> QED
  BY <1>1, <1>2, LinkInvariant, PTL DEF Spec, Promise!Spec, RequestsKept
=============================================================================
