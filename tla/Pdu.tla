--------------------------------- MODULE Pdu --------------------------------
(***************************************************************************)
(* A message on its way (internal/at/pdu.go): EncodePDU makes the parts;   *)
(* the network (external) turns a part into an SMS-DELIVER, of which the   *)
(* modem may return only the beginning; DecodePDU reads it field by field, *)
(* with a check before each. Offsets count from 0, as in the code.         *)
(***************************************************************************)
EXTENDS PduCodec

CONSTANTS Messages8Bit,  \* messages of other senders, in octets
          MessagesSent,  \* messages sent through EncodePDU
          MaxOctets,     \* user data that fits into a PDU (140 octets)
          CutBelow       \* bound: an SMS-DELIVER of fewer octets may be cut short

ASSUME PduAssumption ==
  /\ \A m \in MessagesSent \cup Messages8Bit :
       DOMAIN m = {"body", "enc", "to", "from", "at"}
  /\ \A m \in MessagesSent : m.enc \in {"", "GSM7", "UCS2"}
  /\ {CutBelow, MaxOctets} \subseteq Nat

VARIABLES sent,  \* the message: body, encoding, number, sender, and the time: six fields
                 \* from the year of the century to the second, and the zone in quarters
          parts, \* the parts it was sent in
          part,  \* the part that is delivered, 0 before
          raw,   \* the SMS-DELIVER as the modem returns it
          dec,   \* DecodePDU: the next field, its offset and what was read
          high   \* history: octets read, up to and including the highest

pduVars == <<sent, parts, part, raw, dec, high>>

Fields == {"none", "smsc", "type", "oa", "dcs", "scts", "udl", "ud", "done", "error"}
NoDec == [at |-> "none", pos |-> 0, type |-> 0, dcs |-> 0, udl |-> 0,
          sender |-> [prefix |-> "", text |-> <<>>], time |-> [day |-> 0, sec |-> 0], body |-> <<>>]

PduTypeOK ==
  /\ sent \in MessagesSent \cup Messages8Bit
  /\ part \in 0 .. Len(parts) /\ high \in Nat
  /\ \A k \in DOMAIN parts : /\ parts[k].udl \in 0 .. 255
                             /\ \A o \in DOMAIN parts[k].ud : parts[k].ud[o] \in 0 .. 255
  /\ \A o \in DOMAIN raw : raw[o] \in 0 .. 255
  /\ dec.at \in Fields /\ dec.pos \in Nat

PduInit ==
  /\ sent \in MessagesSent \cup Messages8Bit
  /\ parts = <<>> /\ part = 0 /\ raw = <<>> /\ dec = NoDec /\ high = 0

Encode ==
  /\ parts = <<>>
  /\ parts' = IF sent \in MessagesSent THEN EncodePDU(sent.to, sent.body, sent.enc)
              ELSE <<[udhi |-> FALSE, da |-> encodeBCDAddress(sent.to), dcs |-> 4,
                      udl |-> Len(sent.body), ud |-> sent.body]>>
  /\ UNCHANGED <<sent, part, raw, dec, high>>

(* external: the SMS-DELIVER of the service centre (3GPP TS 23.040). *)
Semi(v) == (v % 10) * 16 + (v \div 10)
SemiSigned(v) == IF v < 0 THEN Semi(-v) + 8 ELSE Semi(v)
Originator ==
  IF sent.from.prefix = "name"
  THEN <<(Len(sent.from.text) * 7 + 3) \div 4, 208>> \o packGSM7(sent.from.text)
  ELSE LET a == encodeBCDAddress(sent.from) IN <<a.n, a.type>> \o a.data
SmsDeliver(p) ==
  <<3, 145, 33, 67, IF p.udhi THEN 64 ELSE 0>> \o Originator \o <<0, p.dcs>>
    \o [k \in 1 .. 7 |-> SemiSigned(sent.at[k])] \o <<p.udl>> \o p.ud

Deliver(i) ==
  LET full == SmsDeliver(parts[i]) IN
  /\ part = 0 /\ part' = i
  /\ \E n \in (IF Len(full) < CutBelow THEN 0 .. Len(full) ELSE {Len(full)}) :
       raw' = SubSeq(full, 1, n)
  /\ dec' = [NoDec EXCEPT !.at = "smsc"]
  /\ UNCHANGED <<sent, parts, high>>

-----------------------------------------------------------------------------
(* DecodePDU. *)

Octet(o) == IF o < Len(raw) THEN raw[o + 1] ELSE 0
Octets(o, n) == [k \in 1 .. n |-> Octet(o + k - 1)]

(* Offsets below n are read. *)
Reads(n) == high' = Max({high, n})
Fails == dec' = [dec EXCEPT !.at = "error"]
Field(f) == dec.at = f /\ UNCHANGED <<sent, parts, part, raw>>

ReadSmsc ==
  LET pos == SmscOctets(raw) IN
  /\ Field("smsc") /\ Reads(IF pos <= Len(raw) THEN pos ELSE 1)
  /\ \/ pos >= Len(raw) /\ Fails
     \/ pos < Len(raw) /\ dec' = [dec EXCEPT !.at = "type", !.pos = pos]

ReadType ==
  LET t == Octet(dec.pos) IN
  /\ Field("type") /\ Reads(dec.pos + 1)
  /\ \/ t % 4 # 0 /\ Fails
     \/ t % 4 = 0 /\ dec' = [dec EXCEPT !.at = "oa", !.pos = @ + 1, !.type = t]

ReadOA ==
  LET pos == dec.pos + 2
      n == Octet(dec.pos)
      oaBytes == (n + 1) \div 2
  IN /\ Field("oa")
     /\ \/ pos > Len(raw) /\ Fails /\ Reads(0)
        \/ pos <= Len(raw) /\ pos + oaBytes > Len(raw) /\ Fails /\ Reads(pos)
        \/ /\ pos <= Len(raw) /\ pos + oaBytes <= Len(raw) /\ Reads(pos + oaBytes)
           /\ dec' = [dec EXCEPT !.at = "dcs", !.pos = pos + oaBytes,
                        !.sender = decodeBCDAddress(Octets(pos, oaBytes), n, Octet(dec.pos + 1))]

(* PID, skipped, and DCS. *)
ReadDcs ==
  /\ Field("dcs")
  /\ \/ dec.pos + 2 > Len(raw) /\ Fails /\ Reads(0)
     \/ /\ dec.pos + 2 <= Len(raw) /\ Reads(dec.pos + 2)
        /\ dec' = [dec EXCEPT !.at = "scts", !.pos = @ + 2, !.dcs = Octet(dec.pos + 1)]

ReadSctsUnchecked ==
  /\ Field("scts") /\ Reads(dec.pos + 7)
  /\ dec' = [dec EXCEPT !.at = "udl", !.pos = @ + 7, !.time = decodeSCTS(Octets(dec.pos, 7))]
ReadScts ==
  /\ Field("scts")
  /\ \/ dec.pos + 7 > Len(raw) /\ Fails /\ Reads(0)
     \/ /\ dec.pos + 7 <= Len(raw) /\ Reads(dec.pos + 7)
        /\ dec' = [dec EXCEPT !.at = "udl", !.pos = @ + 7, !.time = decodeSCTS(Octets(dec.pos, 7))]

ReadUdl ==
  /\ Field("udl")
  /\ \/ dec.pos >= Len(raw) /\ Fails /\ Reads(0)
     \/ /\ dec.pos < Len(raw) /\ Reads(dec.pos + 1)
        /\ dec' = [dec EXCEPT !.at = "ud", !.pos = @ + 1, !.udl = Octet(dec.pos)]

(* The user data: the header is stripped as whole octets and, for GSM7, counted as
   whole septets; the length is clamped to what is there. *)
Body(enc, ud, udl) ==
  CASE enc = "GSM7" -> decodeGSM7Text(unpackGSM7(ud, udl))
    [] enc = "UCS2" -> decodeUCS2(SubSeq(ud, 1, Min({2 * udl, Len(ud)})))
    [] enc = "8BIT" -> SubSeq(ud, 1, Min({udl, Len(ud)}))

ReadUd ==
  LET left == Len(raw) - dec.pos
      udhi == (dec.type \div 64) % 2 = 1
      udhLen == IF udhi THEN Octet(dec.pos) + 1 ELSE 0
      enc == dcsEncoding(dec.dcs)
      counted == IF enc = "GSM7" THEN (udhLen * 8 + 6) \div 7 ELSE udhLen
      udl == IF counted >= dec.udl THEN 0 ELSE dec.udl - counted
  IN /\ Field("ud")
     /\ \/ udhi /\ left = 0 /\ Fails /\ Reads(0)
        \/ udhi /\ left > 0 /\ udhLen > left /\ Fails /\ Reads(dec.pos + 1)
        \/ /\ ~udhi \/ (left > 0 /\ udhLen <= left)
           /\ Reads(Len(raw))
           /\ dec' = [dec EXCEPT !.at = "done",
                        !.body = Body(enc, Octets(dec.pos + udhLen, left - udhLen), udl)]

DecodePDU == ReadSmsc \/ ReadType \/ ReadOA \/ ReadDcs \/ ReadScts \/ ReadUdl \/ ReadUd

PduNext == Encode \/ DecodePDU \/ \E i \in DOMAIN parts : Deliver(i)
PduSpec == PduInit /\ [][PduNext]_pduVars

-----------------------------------------------------------------------------
(* The text of a part as a receiver reads it: septets of the bit stream after the
   septets of the header, or characters of two octets after its octets. *)

TextOf(p) ==
  LET skip == IF p.udhi THEN 7 ELSE 0 IN
  IF p.dcs = 0
  THEN [i \in 1 .. p.udl - skip |->
          MapThenSumSet(LAMBDA b : BitOf(p.ud, 8, 7 * (skip + i - 1) + b) * 2 ^ b, 0 .. 6)]
  ELSE decodeUCS2(SubSeq(p.ud, IF p.udhi THEN 7 ELSE 1, Len(p.ud)))

(* The parts of a text, read bit by bit and joined in the order of their numbers, give
   the codes of the text back: splitting, packing, the fill bit after the header and the lengths agree
   with one another for every length around the limits. The user data of each fits
   into a PDU, unless the text has runes that take two units each. The split may part
   an escape from its code: joined, the codes do not show it. *)
PartsCarryBody ==
  (parts # <<>> /\ part = 0 /\ sent \in MessagesSent) =>
    /\ FlattenSeq([k \in DOMAIN parts |-> TextOf(parts[k])])
         = IF parts[1].dcs = 0 THEN encodeGSM7Text(sent.body) ELSE sent.body
    /\ Len(parts) > 1 => \A k \in DOMAIN parts :
                           SubSeq(parts[k].ud, 1, 6) = <<5, 0, 3, 66, Len(parts), k>>
    /\ \/ \E k \in DOMAIN sent.body : sent.body[k] >= Supplementary
       \/ \A k \in DOMAIN parts : Len(parts[k].ud) <= MaxOctets

(* The piece of the body that the delivered part carries. *)
Piece ==
  IF ~parts[part].udhi THEN sent.body
  ELSE IF parts[part].dcs = 8 THEN Split(sent.body, maxUCS2Chars, maxUCS2ConcatChars)[part]
  ELSE decodeGSM7Text(Split(encodeGSM7Text(sent.body), maxGSM7Chars, maxGSM7ConcatChars)[part])

Uncut == Len(raw) = Len(SmsDeliver(parts[part]))

(* The instant the service centre stamped. *)
SentAt == LET t == sent.at IN Date(t[1], t[2], t[3], t[4], t[5], t[6], t[7] * 900)

(* IsGSM7 takes the escape for a rune of its table. *)
EscapeSent == parts[part].dcs = 0 /\ ESC \in Range(sent.body)

(* What DecodePDU returns for a message in one part, or in parts of UCS2, is what was
   sent, and for a PDU that was cut short a beginning of it, where a rune cut in two
   is replaced: body, sender, and the instant of the time stamp in its zone. Not so
   for three kinds of messages: an escape sent as a character of GSM7 is read with
   the character after it; a name whose septets leave seven bits over (7 letters, 15,
   ...) gains a letter; and in a time stamp with a field of two digits that field is
   read as hexadecimal and the excess carried into the others. A body sent as GSM7
   has only runes of its tables. Nothing is read beyond the end of a PDU, wherever
   it was cut. *)
ReceivedIsSent ==
  /\ high <= Len(raw)
  /\ dec.at = "done" /\ ~(parts[part].udhi /\ parts[part].dcs = 0) =>
      /\ EscapeSent \/ \A k \in DOMAIN dec.body :
           dec.body[k] = Piece[k] \/ (k = Len(dec.body) /\ dec.body[k] = Replacement /\ ~Uncut)
      /\ Uncut => EscapeSent \/ dec.body = Piece
      /\ (sent.from.prefix = "name" => Len(sent.from.text) % 8 # 7) => dec.sender = sent.from
      /\ (\A k \in 1 .. 7 : sent.at[k] \in -9 .. 9) => dec.time = SentAt

=============================================================================
