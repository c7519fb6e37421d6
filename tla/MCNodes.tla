------------------------------- MODULE MCNodes -------------------------------
EXTENDS Nodes, SnmpCodec

\* The second version asks for one more OID.
MCAsks == [v \in Versions |-> IF v = "v1" THEN {"name"} ELSE {"name", "uptime"}]

MCNumbers == {-8388607, -32769, -32768, -129, -128, -1, 0, 1, 127, 128, 255, 256,
              32767, 32768, 65536, 8388607, 8388608, 2147483647}
MCOids == {<<1, 3>>, <<0, 0, 0>>, <<1, 39, 127>>, <<2, 0, 128>>, <<2, 100, 16383>>,
           <<1, 3, 6, 1, 2, 1, 16384>>}

\* A node reads what a target answers as what it says, and asks what it means to
\* ask, at every edge of the encoding; a lost datagram costs a try.
SnmpIsExact == (\E t \in Targets : reading[t] # NoReading) => EveryAnswerIsRead
=============================================================================
