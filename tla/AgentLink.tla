------------------------------ MODULE AgentLink ------------------------------
(***************************************************************************)
(* One device's agent, its connections and the requests the server makes   *)
(* over them: ConnectionManager.request and resolve in                     *)
(* server/app/manager.py, the receiving half of agent_ws in                *)
(* server/app/main.py, and the agent's run, its receiving task and its     *)
(* handlers in agent/agent.py, or, when the device is an appliance, the    *)
(* session and the threads of the agent in agent/syno_agent.py.            *)
(*                                                                         *)
(* A request waits for a reply that carries its id (rid), whatever         *)
(* connection the reply comes on.  The agent handles what it receives one  *)
(* after the other, except for an update of itself, which is a task of its *)
(* own and replies on whatever connection there is when it is done.  The   *)
(* agent connects again when one of the four tasks of a connection raises; *)
(* asyncio.gather leaves the other three running.                          *)
(*                                                                         *)
(* The appliance's agent is slim: it hands what it receives to a pool of   *)
(* threads, which reply on whatever connection there is when they are      *)
(* done, be it one on which the agent is still to register.  The server    *)
(* closes a connection whose first message is not the register.            *)
(*                                                                         *)
(* The handshake before a connection is registered is module Enrolment.    *)
(***************************************************************************)
EXTENDS Naturals, Sequences

CONSTANTS
  Requests,
  Tasks,       \* requests to update the agent: a task of their own, but on an
               \* appliance, which refuses them at once and has threads for the
               \* others
  Conns,       \* connections over the life of the agent
  None,
  MaxFaults    \* bounds, for each kind of agent: lost connections, exceptions in
               \* a handler, restarts

ASSUME NoneAssumption == None \notin Requests /\ None \notin Conns
Kinds == {"full", "slim"}

ASSUME TasksAssumption == Tasks \subseteq Requests
ASSUME FaultsAssumption == MaxFaults \in [Kinds -> Nat]

VARIABLES
  \* the server
  req,       \* where each request is
  sentOn,    \* the connection it was sent on
  pending,   \* requests with a future in _pending
  got,       \* got[r]: whose outcome the future of r holds, or None
  handler,   \* the handler of each connection
  current,   \* the registered connection, or None
  \* the network
  link,      \* each connection: "unused", "open" or "lost"
  clean,     \* connections that were lost by an orderly close
  first,     \* what has been sent first on each: "none", "register" or "other"
  down,      \* requests on their way to the agent
  up,        \* replies on their way to the server
  \* the agent
  kind,      \* "slim" if it is an appliance's, "full" if not
  pc,        \* "away": not connected; "joining": connected and still to register
             \* (an appliance); "linked": in gather with a receiving task, or in
             \* the loop of a session; "deaf": in gather with no receiving task
  ws,        \* self.ws
  doing,     \* the request the receiving task is handling
  apart,     \* requests being handled in tasks, or threads, of their own
  late,      \* 1 while the heartbeat of a session that is over is at its metrics
  \* history and bounds
  done,      \* how often the agent has begun to carry out each request
  faults

server == <<req, sentOn, pending, got, handler, current>>
network == <<link, clean, down, up, first>>
agent == <<kind, pc, ws, doing, apart, late>>
vars == <<server, network, agent, done, faults>>

Init ==
  /\ req = [r \in Requests |-> "new"]
  /\ sentOn = [r \in Requests |-> None]
  /\ pending = {}
  /\ got = [r \in Requests |-> None]
  /\ handler = [c \in Conns |-> "none"]
  /\ current = None
  /\ link = [c \in Conns |-> "unused"]
  /\ clean = {}
  /\ down = [c \in Conns |-> <<>>]
  /\ up = [c \in Conns |-> <<>>]
  /\ first = [c \in Conns |-> "none"]
  /\ kind \in Kinds
  /\ pc = "away"
  /\ ws = None
  /\ doing = None
  /\ apart = {}
  /\ late = 0
  /\ done = [r \in Requests |-> 0]
  /\ faults = 0

Open(c) == c # None /\ link[c] = "open"

Faulty ==
  /\ faults < MaxFaults[kind]
  /\ faults' = faults + 1

-----------------------------------------------------------------------------
(* The server: request and resolve.                                        *)

\* A request without a connection raises at once; else the future is made and
\* the message given to the socket (a socket that has died swallows it).
Ask(r) ==
  /\ req[r] = "new"
  /\ IF current = None
        THEN /\ req' = [req EXCEPT ![r] = "refused"]
             /\ UNCHANGED <<sentOn, pending, down>>
        ELSE /\ req' = [req EXCEPT ![r] = "sending"]
             /\ sentOn' = [sentOn EXCEPT ![r] = current]
             /\ pending' = pending \cup {r}
             /\ down' = IF link[current] = "open"
                           THEN [down EXCEPT ![current] = Append(@, r)]
                           ELSE down
  /\ UNCHANGED <<got, handler, current, link, clean, up, first, agent, done, faults>>

\* conn.send returns once the message has left the server's buffers.
Sent(r) ==
  /\ req[r] = "sending"
  /\ req' = [req EXCEPT ![r] = "waiting"]
  /\ UNCHANGED <<sentOn, pending, got, handler, current, network, agent, done,
                 faults>>

\* The request ends in its finally clause.
End(r, how) ==
  /\ req' = [req EXCEPT ![r] = how]
  /\ pending' = pending \ {r}
  /\ UNCHANGED <<sentOn, got, handler, current, network, agent, done, faults>>

\* conn.send raises: the connection has been lost.
SendRaises(r) ==
  /\ req[r] = "sending"
  /\ link[sentOn[r]] = "lost"
  /\ End(r, "failed")

\* The future has a result.
Return(r) ==
  /\ req[r] = "waiting"
  /\ got[r] # None
  /\ End(r, "answered")

\* Mutant of MayExpire: only a connection that is gone ends the wait.
MayExpireLost(r) == got[r] = None /\ link[sentOn[r]] = "lost"

\* The timeout may also come between the result and the request's next step.
MayExpire(r) == TRUE

\* asyncio.wait_for gives up.
TimesOut(r) ==
  /\ req[r] = "waiting"
  /\ MayExpire(r)
  /\ End(r, "expired")

\* Mutant of Resolved: the reply is for whoever waits.
ResolvedAny(rid) == pending

\* The requests that a reply is for.
Resolved(rid) == {rid} \cap pending

\* A reply is read, and resolve sets the result of a future that has none.
HandleAck(c) ==
  /\ handler[c] = "serving"
  /\ up[c] # <<>>
  /\ up' = [up EXCEPT ![c] = Tail(@)]
  /\ got' = [r \in Requests |->
               IF r \in Resolved(Head(up[c]).rid) /\ got[r] = None
                 THEN Head(up[c]).payload ELSE got[r]]
  /\ UNCHANGED <<req, sentOn, pending, handler, current, link, clean, down,
                 first, agent, done, faults>>

-----------------------------------------------------------------------------
(* The server: handlers of connections.                                    *)

\* manager.register, when the handshake is done: the connection replaces any
\* other.
Register(c) ==
  /\ handler[c] = "hello"
  /\ first[c] = "register"
  /\ handler' = [handler EXCEPT ![c] = "serving"]
  /\ current' = c
  /\ UNCHANGED <<req, sentOn, pending, got, network, agent, done, faults>>

\* The handler ends and, if the connection is still the registered one,
\* unregisters it.  No request is told.
Leave(c) ==
  /\ handler' = [handler EXCEPT ![c] = "over"]
  /\ current' = IF current = c THEN None ELSE current
  /\ UNCHANGED <<req, sentOn, pending, got, network, agent, done>>

\* The connection has been lost: during the handshake or later.
HandlerEnds(c) ==
  /\ handler[c] \in {"hello", "serving"}
  /\ link[c] = "lost"
  /\ Leave(c)
  /\ UNCHANGED faults

\* The first message is not the register: the handler closes the connection.
Refuse(c) ==
  /\ handler[c] = "hello"
  /\ first[c] = "other"
  /\ Leave(c)
  /\ UNCHANGED faults

\* An exception while a message is handled ends the handler.
HandlerFails(c) ==
  /\ handler[c] = "serving"
  /\ Faulty
  /\ Leave(c)

\* The server stops and starts: every request ends, no connection is served.
ServerRestart ==
  /\ Faulty
  /\ req' = [r \in Requests |->
               IF req[r] \in {"sending", "waiting"} THEN "failed" ELSE req[r]]
  /\ pending' = {}
  /\ handler' = [c \in Conns |-> IF handler[c] = "none" THEN "none" ELSE "over"]
  /\ current' = None
  /\ UNCHANGED <<sentOn, got, network, agent, done>>

-----------------------------------------------------------------------------
(* The network.                                                            *)

\* A connection is lost, with what has not arrived; by an orderly close or not.
Cut(c, orderly) ==
  /\ link[c] = "open"
  /\ link' = [link EXCEPT ![c] = "lost"]
  /\ clean' = IF orderly THEN clean \cup {c} ELSE clean
  /\ \E i \in 0 .. Len(down[c]), j \in 0 .. Len(up[c]) :
       /\ down' = [down EXCEPT ![c] = SubSeq(@, 1, i)]
       /\ up' = [up EXCEPT ![c] = SubSeq(@, 1, j)]
  /\ UNCHANGED <<server, first, agent, done>>

Lose(c, orderly) ==
  /\ Faulty
  /\ Cut(c, orderly)

\* A connection whose handler is over is closed by the server's framework, or
\* because nobody reads it any more; it went with a server that stopped.
CloseAbandoned(c) ==
  /\ handler[c] = "over"
  /\ \E orderly \in BOOLEAN : Cut(c, orderly)
  /\ UNCHANGED faults

-----------------------------------------------------------------------------
(* The agent.                                                              *)

\* run: a connection is made and registered, and gather starts the tasks.  In
\* run_forever the connection is there for every thread before the inventory is
\* collected and the register sent.
Connect(c) ==
  /\ pc = "away"
  /\ link[c] = "unused"
  /\ link' = [link EXCEPT ![c] = "open"]
  /\ handler' = [handler EXCEPT ![c] = "hello"]
  /\ ws' = c
  /\ IF kind = "slim"
        THEN pc' = "joining" /\ UNCHANGED first
        ELSE pc' = "linked" /\ first' = [first EXCEPT ![c] = "register"]
  /\ UNCHANGED <<req, sentOn, pending, got, current, clean, down, up, kind, doing,
                 apart, late, done, faults>>

\* _session: the register is sent, and the heartbeat starts; or sending raises.
Introduce ==
  /\ pc = "joining"
  /\ IF Open(ws)
        THEN /\ first' = [first EXCEPT ![ws] = IF @ = "none" THEN "register" ELSE @]
             /\ pc' = "linked"
        ELSE pc' = "away" /\ UNCHANGED first
  /\ UNCHANGED <<server, link, clean, down, up, kind, ws, doing, apart, late, done,
                 faults>>

\* create_task(_self_update), or _submit.
OfItsOwn(r) == (kind = "full") <=> (r \in Tasks)

\* _recv_loop and _handle: the handler of the next request begins, or is handed
\* to the pool.
Receive ==
  /\ pc = "linked"
  /\ doing = None
  /\ down[ws] # <<>>
  /\ down' = [down EXCEPT ![ws] = Tail(@)]
  /\ LET r == Head(down[ws]) IN
       /\ done' = [done EXCEPT ![r] = @ + 1]
       /\ IF OfItsOwn(r)
             THEN apart' = apart \cup {r} /\ UNCHANGED doing
             ELSE doing' = r /\ UNCHANGED apart
  /\ UNCHANGED <<server, link, clean, up, first, kind, pc, ws, late, faults>>

\* A message goes up that is not the register.
Sends == first' = [first EXCEPT ![ws] = IF @ = "none" THEN "other" ELSE @]

\* _ack: the reply carries the id of the request.
Ack(r) ==
  /\ up' = [up EXCEPT ![ws] = Append(@, [rid |-> r, payload |-> r])]
  /\ Sends

Reply ==
  /\ doing # None
  /\ Open(ws)
  /\ Ack(doing)
  /\ doing' = None
  /\ UNCHANGED <<server, link, clean, down, kind, pc, ws, apart, late, done, faults>>

\* Mutant of AfterFailedReply: the receiving task returns, as the metrics
\* task does.
AfterFailedReplyReturns == "deaf"

\* The exception leaves the receiving task, gather and the connection.
AfterFailedReply == "away"

\* The connection was lost while the handler ran: _ack raises.
ReplyFails ==
  /\ doing # None
  /\ ~Open(ws)
  /\ doing' = None
  /\ pc' = AfterFailedReply
  /\ kind = "full" => late' = late
  /\ late' \in {late, 1}
  /\ UNCHANGED <<server, network, kind, ws, apart, done, faults>>

\* A handler that raises ends the connection.  (A thread's exceptions are its
\* outcome.)
HandlerRaises ==
  /\ kind = "full"
  /\ doing # None
  /\ Open(ws)
  /\ Faulty
  /\ link' = [link EXCEPT ![ws] = "lost"]
  /\ doing' = None
  /\ pc' = "away"
  /\ UNCHANGED <<server, clean, down, up, first, kind, ws, apart, late, done>>

\* Nothing is left to receive on a connection that is lost.  The receiving
\* task raises, and run connects again; but after an orderly close its "async
\* for" just ends, and gather goes on waiting for the tasks that never do.  (An
\* appliance's session ends either way.)
ReaderEnds ==
  /\ pc = "linked"
  /\ doing = None
  /\ ~Open(ws)
  /\ down[ws] = <<>>
  /\ pc' = IF ws \in clean /\ kind = "full" THEN "deaf" ELSE "away"
  /\ kind = "full" => late' = late
  /\ late' \in {late, 1}
  /\ UNCHANGED <<server, network, kind, ws, doing, apart, done, faults>>

\* _self_update, or the job of a thread, is done: it replies on the connection
\* there is now, or nobody hears of it.
TaskReplies(r) ==
  /\ r \in apart
  /\ apart' = apart \ {r}
  /\ IF Open(ws) THEN Ack(r) ELSE UNCHANGED <<up, first>>
  /\ UNCHANGED <<server, link, clean, down, kind, pc, ws, doing, late, done, faults>>

\* _heartbeat: it was at its metrics when its session ended, and sends them on
\* the connection there is by now; then it finds that it is to stop.
LateHeartbeat ==
  /\ late = 1
  /\ late' = 0
  /\ IF Open(ws) THEN Sends ELSE UNCHANGED first
  /\ UNCHANGED <<server, link, clean, down, up, kind, pc, ws, doing, apart, done,
                 faults>>

\* The process ends (its update, the machine) and is started again.
AgentRestart ==
  /\ ws # None
  /\ Faulty
  /\ pc' = "away"
  /\ ws' = None
  /\ doing' = None
  /\ apart' = {}
  /\ late' = 0
  /\ link' = [link EXCEPT ![ws] = "lost"]
  /\ down' = [down EXCEPT ![ws] = <<>>]
  /\ UNCHANGED <<server, clean, up, first, kind, done>>

-----------------------------------------------------------------------------
Server ==
  \/ \E r \in Requests :
       Ask(r) \/ Sent(r) \/ SendRaises(r) \/ Return(r) \/ TimesOut(r)
  \/ \E c \in Conns : HandleAck(c) \/ Register(c) \/ Refuse(c) \/ HandlerEnds(c)

Agent ==
  \/ \E c \in Conns : Connect(c)
  \/ Introduce \/ Receive \/ Reply \/ ReplyFails \/ ReaderEnds
  \/ LateHeartbeat
  \/ \E r \in Requests : TaskReplies(r)

Fault ==
  \/ \E c \in Conns, orderly \in BOOLEAN : Lose(c, orderly)
  \/ \E c \in Conns : HandlerFails(c)
  \/ HandlerRaises \/ ServerRestart \/ AgentRestart

Next == Server \/ Agent \/ Fault \/ \E c \in Conns : CloseAbandoned(c)

Spec == Init /\ [][Next]_vars

\* A send leaves the server or raises, a wait is timed, every coroutine that
\* can go on does, a handler of the agent ends, run tries again for ever, and
\* what nobody reads is closed.
Fairness ==
  /\ \A r \in Requests :
       /\ WF_vars(Sent(r) \/ SendRaises(r))
       /\ WF_vars(Return(r) \/ TimesOut(r))
  /\ \A c \in Conns :
       /\ WF_vars(Register(c) \/ Refuse(c) \/ HandlerEnds(c))
       /\ WF_vars(CloseAbandoned(c))
  /\ WF_vars(Introduce \/ Receive \/ Reply \/ ReplyFails \/ ReaderEnds)
  /\ WF_vars(\E c \in Conns : Connect(c))

FairSpec == Spec /\ Fairness

-----------------------------------------------------------------------------
(* Properties.                                                             *)

Message == [rid : Requests, payload : Requests]

\* Every variable keeps its type.
TypeOK ==
  /\ req \in [Requests -> {"new", "refused", "sending", "waiting", "answered",
                           "expired", "failed"}]
  /\ sentOn \in [Requests -> Conns \cup {None}]
  /\ pending \subseteq Requests
  /\ got \in [Requests -> Requests \cup {None}]
  /\ handler \in [Conns -> {"none", "hello", "serving", "over"}]
  /\ current \in Conns \cup {None}
  /\ link \in [Conns -> {"unused", "open", "lost"}]
  /\ clean \subseteq Conns
  /\ down \in [Conns -> Seq(Requests)]
  /\ up \in [Conns -> Seq(Message)]
  /\ first \in [Conns -> {"none", "register", "other"}]
  /\ kind \in Kinds
  /\ pc \in {"away", "joining", "linked", "deaf"}
  /\ ws \in Conns \cup {None}
  /\ doing \in Requests \cup {None}
  /\ apart \subseteq Requests
  /\ late \in {0, 1}
  /\ done \in [Requests -> Nat]
  /\ faults \in 0 .. MaxFaults[kind]
  /\ pc # "away" => ws # None
  /\ doing # None => pc = "linked"

\* A request as its endpoint sees it, by where it is and what its future holds.
EndingOf(how, result) ==
  CASE how = "new" -> <<"none">>
    [] how = "refused" -> <<"refused">>
    [] how \in {"sending", "waiting"} -> <<"asked">>
    [] how \in {"expired", "failed"} -> <<"error">>
    [] how = "answered" -> <<"answer", result>>

Ending == [r \in Requests |-> EndingOf(req[r], got[r])]

Promise == INSTANCE RequestPromise WITH ending <- Ending

\* The endpoints get what they rely on: each request is carried out at most
\* once and only when it was not refused, and is answered, once, with the
\* outcome of what the agent did for it, across connections that are replaced,
\* replies that are late, and restarts on either side.
RequestsKept == Promise!Spec

\* No request waits for ever: it is answered, or fails, whatever becomes of the
\* connection, the agent and the reply.
RequestsEnd ==
  \A r \in Requests :
    req[r] \in {"sending", "waiting"}
      ~> req[r] \in {"answered", "expired", "failed"}

\* An agent whose connection is lost without an orderly close connects again,
\* also when it was in the middle of a request, and an appliance's after any
\* close, also when its threads have spoiled a connection: in the end it is
\* served.  (The connections of an instance run out.)
AgentComesBack ==
  (pc = "away" \/ ~Open(ws)) ~>
    \/ Open(ws) /\ handler[ws] = "serving"
    \/ clean # {} /\ kind = "full"
    \/ \A c \in Conns : link[c] # "unused"

\* Whatever becomes of a connection, neither an endpoint nor the device's agent
\* hangs on it for ever (request, Agent.run).
NothingHangs == RequestsEnd /\ AgentComesBack
=============================================================================
