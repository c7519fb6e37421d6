------------------------------- MODULE WsClient -------------------------------
(***************************************************************************)
(* The WebSocket of an appliance's agent (class WSClient in                *)
(* agent/syno_agent.py), which is written by hand on a socket: what comes  *)
(* in chunks of any size is taken apart into frames, the frames into       *)
(* messages.  Bytes are numbers below 256; a text is its bytes.            *)
(***************************************************************************)
EXTENDS Naturals, Sequences, SequencesExt, FiniteSetsExt, Bitwise

CONSTANTS
  Small,      \* scaled: from this size on a length has bytes of its own (126)
  LengthBase, \* scaled: of how many values each of these is one (256)
  Sizes,      \* the sizes of payloads: at the edges of how a length is written
  Mask        \* the mask of a frame of the agent's

TEXT == 1  BINARY == 2  CLOSE == 8  PING == 9  PONG == 10
CRLF == <<13, 10>>

-----------------------------------------------------------------------------
(* Into bytes.                                                             *)

Digits(n, k) == [i \in 1 .. k |-> (n \div LengthBase ^ (k - i)) % LengthBase]

\* Mutant of WrittenSize: the two bytes are used a size too late.
WrittenSizeLate(n, bit) ==
  CASE n <= Small -> <<bit + n>>
    [] n > Small /\ n < LengthBase ^ 2 -> <<bit + Small>> \o Digits(n, 2)
    [] OTHER -> <<bit + Small + 1>> \o Digits(n, 8)

\* The size of a payload, after the bit that says whether it is masked.
WrittenSize(n, bit) ==
  CASE n < Small -> <<bit + n>>
    [] n >= Small /\ n < LengthBase ^ 2 -> <<bit + Small>> \o Digits(n, 2)
    [] OTHER -> <<bit + Small + 1>> \o Digits(n, 8)

Masked(payload) == [i \in DOMAIN payload |-> payload[i] ^^ Mask[((i - 1) % 4) + 1]]

\* _send_frame: one frame, masked.
SendFrame(op, payload) ==
  <<128 + op>> \o WrittenSize(Len(payload), 128) \o Mask \o Masked(payload)

\* A frame of the server's.
Frame(op, payload, fin) ==
  <<(IF fin THEN 128 ELSE 0) + op>> \o WrittenSize(Len(payload), 0) \o payload

-----------------------------------------------------------------------------
(* Out of bytes.  A socket is what has been read of it and not been used,  *)
(* the chunks to come, and whether it is up.                               *)

Pulled(io, k) == io.buf \o FlattenSeq(SubSeq(io.wire, 1, k))

Down == [buf |-> <<>>, wire |-> <<>>, up |-> FALSE]

\* The socket from position i of what is there with k more chunks.
From(io, k, i) ==
  [buf |-> SubSeq(Pulled(io, k), i, Len(Pulled(io, k))),
   wire |-> SubSeq(io.wire, k + 1, Len(io.wire)), up |-> TRUE]

\* _read: n bytes, of as many chunks as it takes; the connection may end first.
Read(io, n) ==
  LET enough == {k \in 0 .. Len(io.wire) : Len(Pulled(io, k)) >= n}
  IN IF ~io.up \/ enough = {}
       THEN [data |-> [i \in 1 .. n |-> 0], io |-> Down]
       ELSE [data |-> SubSeq(Pulled(io, Min(enough)), 1, n),
             io |-> From(io, Min(enough), n + 1)]

\* Mutant of AfterHead: what came with the head is not kept.
AfterHeadAlone(io, k, i) == [From(io, k, i) EXCEPT !.buf = <<>>]

AfterHead(io, k, i) == From(io, k, i)

\* _read_http_response: up to the empty line.
Connected(io) ==
  LET ends(bytes) == {i \in 4 .. Len(bytes) : SubSeq(bytes, i - 3, i) = CRLF \o CRLF}
      whole == {k \in 0 .. Len(io.wire) : ends(Pulled(io, k)) # {}}
  IN IF whole = {} THEN Down
     ELSE AfterHead(io, Min(whole), 1 + Min(ends(Pulled(io, Min(whole)))))

\* _read_frame: the head, the longer forms of the length, the mask, the payload.
Framed(head, mask, body) ==
  [fin |-> head[1] >= 128, op |-> head[1] % 16, io |-> body.io,
   payload |-> IF mask = <<>> THEN body.data ELSE Masked(body.data)]

Size(head, more) ==
  IF more = <<>> THEN head[2] % 128
  ELSE FoldLeft(LAMBDA acc, d : acc * LengthBase + d, 0, more)

AfterMask(head, n, mask) == Framed(head, mask.data, Read(mask.io, n))

AfterSize(head, more) ==
  AfterMask(head, Size(head, more.data), Read(more.io, IF head[2] >= 128 THEN 4 ELSE 0))

AfterStart(head) ==
  AfterSize(head.data, Read(head.io, CASE head.data[2] % 128 = Small -> 2
                                       [] head.data[2] % 128 = Small + 1 -> 8
                                       [] OTHER -> 0))

ReadFrame(io) == AfterStart(Read(io, 2))

\* Mutant of Between: a ping ends the message it comes in the middle of.
BetweenForgets(s) == [s EXCEPT !.op = 0, !.data = <<>>]

\* What is left of a message in fragments when a ping or pong comes between.
Between(s) == s

\* recv, for one frame; at the end of a text it returns, and is called again.
Handled(s, f) ==
  LET now == [s EXCEPT !.io = f.io]
      op == IF f.op = 0 THEN s.op ELSE f.op
      data == IF f.op = 0 THEN s.data \o f.payload ELSE f.payload
  IN CASE ~f.io.up -> [now EXCEPT !.end = "lost"]
       [] f.io.up /\ f.op = CLOSE ->
            [now EXCEPT !.end = "closed",
                        !.sent = Append(@, <<CLOSE, SubSeq(f.payload, 1, 2)>>)]
       [] f.io.up /\ f.op = PING ->
            [Between(now) EXCEPT !.sent = Append(@, <<PONG, f.payload>>)]
       [] f.io.up /\ f.op = PONG -> Between(now)
       [] f.io.up /\ f.op < CLOSE /\ ~f.fin -> [now EXCEPT !.op = op, !.data = data]
       [] f.io.up /\ f.op < CLOSE /\ f.fin ->
            [now EXCEPT !.op = 0, !.data = <<>>,
                        !.texts = IF op = TEXT THEN Append(@, data) ELSE @]

Received(s) == Handled(s, ReadFrame(s.io))

\* Everything that is received in a session.
RECURSIVE Rest(_)
Rest(s) == IF s.end = "" THEN Rest(Received(s)) ELSE s

Session(chunks) ==
  Rest([io |-> Connected([buf |-> <<>>, wire |-> chunks, up |-> TRUE]), op |-> 0,
        data |-> <<>>, texts |-> <<>>, sent |-> <<>>, end |-> ""])

-----------------------------------------------------------------------------
(* Properties.                                                             *)

Payload(n) == [i \in 1 .. n |-> (77 * i) % 256]

\* What the server may send, with the texts it carries and the answers it is due.
Item(frames, texts, sent) == [bytes |-> FlattenSeq(frames), texts |-> texts, sent |-> sent]

Whole(n) == Item(<<Frame(TEXT, Payload(n), TRUE)>>, <<Payload(n)>>, <<>>)

\* A message in fragments, with something of another kind between them.
InFragments(op, n, between, sent) ==
  Item(<<Frame(op, Payload(n), FALSE), between, Frame(0, Payload(n), FALSE),
         Frame(0, <<>>, TRUE)>>,
       IF op = TEXT THEN <<Payload(n) \o Payload(n)>> ELSE <<>>, sent)

Items ==
  {Whole(n) : n \in Sizes}
  \cup {InFragments(op, n, Frame(PING, Payload(1), TRUE), <<<<PONG, Payload(1)>>>>) :
          op \in {TEXT, BINARY}, n \in {1, Small}}
  \cup {InFragments(TEXT, 1, Frame(PONG, <<>>, TRUE), <<>>),
        Item(<<Frame(PING, <<>>, TRUE)>>, <<>>, <<<<PONG, <<>>>>>>),
        Item(<<Frame(BINARY, Payload(1), TRUE)>>, <<>>, <<>>)}

Answer101 == <<49>> \o CRLF \o <<65>> \o CRLF \o CRLF

Chunks(bytes, size) ==
  [i \in 1 .. (Len(bytes) + size - 1) \div size |->
     SubSeq(bytes, (i - 1) * size + 1, Min({i * size, Len(bytes)}))]

EveryMessageArrives ==
  \A one, other \in Items :
    LET bye == Frame(CLOSE, <<3, 232>>, TRUE)
        bytes == Answer101 \o one.bytes \o other.bytes \o bye
        Is(s, texts, sent, end) == s.texts = texts /\ s.sent = sent /\ s.end = end
    IN /\ \A size \in 1 .. Len(bytes) :
            Is(Session(Chunks(bytes, size)), one.texts \o other.texts,
               Append(one.sent \o other.sent, <<CLOSE, <<3, 232>>>>), "closed")
       /\ \A end \in 0 .. Len(bytes) - 1 :
            LET s == Session(Chunks(SubSeq(bytes, 1, end), 3))
            IN s.end = "lost" /\ IsPrefix(s.texts, one.texts \o other.texts)

EveryFrameLeaves ==
  \A n \in Sizes, op \in {TEXT, CLOSE, PONG} :
    LET f == ReadFrame([buf |-> SendFrame(op, Payload(n)), wire |-> <<>>, up |-> TRUE])
    IN f.fin /\ f.op = op /\ f.payload = Payload(n) /\ f.io.buf = <<>> /\ f.io.up
=============================================================================
