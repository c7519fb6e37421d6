------------------------------ MODULE SnmpCodec ------------------------------
(***************************************************************************)
(* The SNMP client of a node (agent/snmp.py): a GET of several objects is  *)
(* put into bytes (BER), sent, and what comes back is taken apart again.   *)
(* Bytes are numbers below 256, texts are sequences of bytes.              *)
(***************************************************************************)
EXTENDS Integers, Sequences, SequencesExt, FiniteSetsExt

CONSTANTS
  Numbers,   \* what is sent as an integer: the edges of one, two, three bytes
  Oids,      \* object identifiers
  TextSizes, \* the sizes of texts, at the edges of how a length is encoded
  Retries

Digits256[n \in Nat] == IF n = 0 THEN <<>> ELSE Append(Digits256[n \div 256], n % 256)
Digits128[n \in Nat] == IF n = 0 THEN <<>> ELSE Append(Digits128[n \div 128], n % 128)
BitLength[n \in Nat] == IF n = 0 THEN 0 ELSE 1 + BitLength[n \div 2]
Power256[k \in Nat] == IF k = 0 THEN 1 ELSE 256 * Power256[k - 1]
Abs(n) == IF n < 0 THEN -n ELSE n
Unsigned(bytes) == FoldLeft(LAMBDA acc, b : acc * 256 + b, 0, bytes)
Signed(bytes) == IF bytes # <<>> /\ Head(bytes) > 127
                    THEN Unsigned(bytes) - Power256[Len(bytes)] ELSE Unsigned(bytes)

INT == 2  OCTET == 4  NULL == 5  OID == 6  SEQ == 48
IPADDR == 64  COUNTER == 65  GET == 160  RESPONSE == 162  NOSUCH == 128

-----------------------------------------------------------------------------
(* Into bytes.                                                             *)

\* Mutant of EncLen: the long form starts at 129.
EncLenLate(n) == IF n < 129 THEN <<n>> ELSE <<128 + Len(Digits256[n])>> \o Digits256[n]

EncLen(n) == IF n < 128 THEN <<n>> ELSE <<128 + Len(Digits256[n])>> \o Digits256[n]

Tlv(tag, value) == <<tag>> \o EncLen(Len(value)) \o value

\* Two's complement, in as many bytes as leave room for the sign.
EncInt(n) ==
  LET size == (BitLength[Abs(n)] + 8) \div 8
      ds == Digits256[IF n < 0 THEN Power256[size] + n ELSE n]
  IN Tlv(INT, [i \in 1 .. (size - Len(ds)) |-> 0] \o ds)

B128(n) ==
  LET ds == Digits128[n]
  IN IF n = 0 THEN <<0>> ELSE [i \in DOMAIN ds |-> IF i < Len(ds) THEN 128 + ds[i] ELSE ds[i]]

EncOid(oid) ==
  LET arcs == <<40 * oid[1] + oid[2]>> \o SubSeq(oid, 3, Len(oid))
  IN Tlv(OID, FlattenSeq([i \in DOMAIN arcs |-> B128(arcs[i])]))

Varbind(oid) == Tlv(SEQ, EncOid(oid) \o Tlv(NULL, <<>>))

BuildPdu(type, rid, status, index, varbinds) ==
  Tlv(type, EncInt(rid) \o EncInt(status) \o EncInt(index) \o Tlv(SEQ, FlattenSeq(varbinds)))

BuildMessage(version, community, pdu) ==
  Tlv(SEQ, EncInt(version) \o Tlv(OCTET, community) \o pdu)

Request(rid, oids) ==
  BuildMessage(1, <<112>>, BuildPdu(GET, rid, 0, 0, [i \in DOMAIN oids |-> Varbind(oids[i])]))

\* What a target answers: values are [tag, v], v of a number being <<number>>.
EncValue(val) ==
  CASE val.tag = INT -> EncInt(val.v[1])
    [] val.tag = COUNTER -> Tlv(COUNTER, Digits256[val.v[1]])
    [] val.tag = OID -> EncOid(val.v)
    [] OTHER -> Tlv(val.tag, val.v)
Answer(rid, status, varbinds) ==
  BuildMessage(1, <<112>>, BuildPdu(RESPONSE, rid, status, 0,
    [i \in DOMAIN varbinds |->
       Tlv(SEQ, EncOid(varbinds[i].oid) \o EncValue(varbinds[i].value))]))

-----------------------------------------------------------------------------
(* Out of bytes.                                                           *)

\* Tag and value at a place in data, and the place after them.
Element(data, i, from, size) ==
  [tag |-> data[i], value |-> SubSeq(data, from, Min({from + size - 1, Len(data)})),
   next |-> from + size]

ParseTlv(data, i) ==
  IF data[i + 1] < 128
    THEN Element(data, i, i + 2, data[i + 1])
    ELSE Element(data, i, i + data[i + 1] - 126,
                 Unsigned(SubSeq(data, i + 2, i + data[i + 1] - 127)))

\* The elements of a sequence, one after the other.
Elements(data) ==
  LET from[i \in Nat] == IF i > Len(data) THEN <<>>
                         ELSE LET e == ParseTlv(data, i) IN <<e>> \o from[e.next]
  IN from[1]

\* The first number holds the first two arcs.
DecodeOid(value) ==
  LET step(acc, b) ==
        IF b > 127 THEN [acc EXCEPT !.n = @ * 128 + b - 128]
        ELSE [subs |-> Append(acc.subs, acc.n * 128 + b), n |-> 0]
      subs == FoldLeft(step, [subs |-> <<>>, n |-> 0], value).subs
      first == Min({2, subs[1] \div 40})
  IN IF value = <<>> THEN <<>> ELSE <<first, subs[1] - 40 * first>> \o Tail(subs)

DecodeValue(tag, value) ==
  [tag |-> tag,
   v |-> CASE tag = INT -> <<Signed(value)>>
           [] tag = COUNTER -> <<Unsigned(value)>>
           [] tag = OID -> DecodeOid(value)
           [] OTHER -> value]

ParseBinding(pair) ==
  [oid |-> DecodeOid(pair[1].value), value |-> DecodeValue(pair[2].tag, pair[2].value)]

ParsePdu(pdu) ==
  LET pairs == Elements(pdu[4].value)
  IN [rid |-> Signed(pdu[1].value), status |-> Signed(pdu[2].value),
      varbinds |-> [i \in DOMAIN pairs |-> ParseBinding(Elements(pairs[i].value))]]

ParseResponse(data) == ParsePdu(Elements(Elements(ParseTlv(data, 1).value)[3].value))

\* get: what an answer without an error status is taken for.
Got(resp) == [ok |-> resp.status = 0, varbinds |-> resp.varbinds]

\* _udp_query: the tries that were answered, <<>> being a try without an answer.
Answered(tries) ==
  SelectSeq(SubSeq(tries, 1, Min({Retries + 1, Len(tries)})), LAMBDA data : data # <<>>)

\* get: the first answer, if any.
Get(tries) ==
  IF Answered(tries) = <<>> THEN [ok |-> FALSE, varbinds |-> <<>>]
  ELSE Got(ParseResponse(Head(Answered(tries))))

-----------------------------------------------------------------------------
(* Properties.                                                             *)

Values ==
  {[tag |-> INT, v |-> <<n>>] : n \in Numbers}
  \cup {[tag |-> COUNTER, v |-> <<n>>] : n \in {m \in Numbers : m >= 0}}
  \cup {[tag |-> OID, v |-> oid] : oid \in Oids}
  \cup {[tag |-> OCTET, v |-> [i \in 1 .. n |-> 65]] : n \in TextSizes}
  \cup {[tag |-> IPADDR, v |-> <<10, 0, 128, 255>>], [tag |-> NULL, v |-> <<>>],
        [tag |-> NOSUCH, v |-> <<>>]}

Bindings == {[oid |-> oid, value |-> val] : oid \in Oids, val \in Values}

IsAsked(asked, rid, oids) ==
  asked.rid = rid /\ [i \in DOMAIN oids |-> asked.varbinds[i].oid] = oids

IsRead(data, status, varbinds) ==
  /\ \A tries \in {<<data>>, <<<<>>, data>>} :
       Get(tries) = [ok |-> status = 0, varbinds |-> varbinds]
  /\ Retries < 2 => ~Get(<<<<>>, <<>>, data>>).ok

\* What a target answers is read as what it says, and a question says what is
\* asked, at every edge of the encoding: integers with and without a sign bit
\* of their own, arcs of one, two and three bytes, the two arcs in the first
\* number, and messages whose lengths need one, two or three bytes.  A lost
\* datagram costs a try.
EveryAnswerIsRead ==
  LET more == [oid |-> <<1, 3, 6>>, value |-> [tag |-> NULL, v |-> <<>>]]
  IN /\ \A rid \in {n \in Numbers : n > 0}, oid \in Oids, other \in Oids :
          IsAsked(ParseResponse(Request(rid, <<oid, other>>)), rid, <<oid, other>>)
     /\ \A b \in Bindings, status \in {0, 2} :
          IsRead(Answer(7, status, <<b, more>>), status, <<b, more>>)
=============================================================================
