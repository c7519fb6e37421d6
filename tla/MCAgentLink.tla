----------------------------- MODULE MCAgentLink -----------------------------
EXTENDS AgentLink, WsClient

CONSTANTS q1, q2, c1, c2

MCMaxFaults == [kindOfAgent \in Kinds |-> IF kindOfAgent = "slim" THEN 1 ELSE 2]
MCMask == <<1, 2, 128, 255>>

\* The appliance's agent gets what the server sends on its own WebSocket: every
\* text, whole, once and in order, and every ping is answered, however the bytes
\* fall into chunks - the first frames may come with the answer to the
\* handshake -, at every edge of how a length is written, and with pings between
\* the fragments of a message; a connection that ends in the middle of a message
\* gives no part of it.  And what the agent sends is read as what it is.
SocketIsExact == kind = "slim" /\ doing # None => EveryMessageArrives /\ EveryFrameLeaves
=============================================================================
