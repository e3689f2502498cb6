------------------------------- MODULE PduCodec --------------------------------
(***************************************************************************)
(* The conversions of the SMS codec (internal/at/pdu.go): septets, text,   *)
(* addresses, time stamps, and the splitting of a text into parts.         *)
(*                                                                         *)
(* A rune of the basic GSM7 table is named by its code (0 .. 127), one of  *)
(* the extension table by 1000 + its code; the others are numbers too,     *)
(* from Supplementary on the ones outside the basic multilingual plane.    *)
(* Bits that the code joins with | are disjoint and are added here.        *)
(***************************************************************************)
EXTENDS Integers, Sequences, FiniteSetsExt, SequencesExt

CONSTANTS maxGSM7Chars,       \* 160
          maxGSM7ConcatChars, \* 153
          maxUCS2Chars,       \* 70
          maxUCS2ConcatChars  \* 67

ESC == 27
ExtensionCodes == {10, 20, 40, 41, 47, 60, 61, 62, 64, 101}
Supplementary == 65536
Replacement == 65533

Basic(r) == r < 128
Extended7(r) == r - 1000 \in ExtensionCodes
IsGSM7(text) == \A k \in DOMAIN text : Basic(text[k]) \/ Extended7(text[k])

-----------------------------------------------------------------------------
(* Packing. *)

packGSM7(chars) ==
  LET n == Len(chars)
      Pos(i) == (i * 7) \div 8
      Bit(i) == (i * 7) % 8
      Part(p, i) == IF Pos(i) = p THEN (chars[i + 1] * 2 ^ Bit(i)) % 256
                    ELSE IF Bit(i) > 1 THEN chars[i + 1] \div 2 ^ (8 - Bit(i)) ELSE 0
  IN [k \in 1 .. (n * 7 + 7) \div 8 |->
        MapThenSumSet(LAMBDA i : Part(k - 1, i),
                      {i \in 0 .. n - 1 : Pos(i) = k - 1 \/ Pos(i) = k - 2})]

(* nChars septets of data. *)
Septets(data, nChars) ==
  [i \in 1 .. nChars |->
     LET pos == ((i - 1) * 7) \div 8
         bit == ((i - 1) * 7) % 8
     IN IF pos < Len(data)
        THEN ((data[pos + 1] \div 2 ^ bit) % 128)
             + (IF bit > 1 /\ pos + 1 < Len(data) THEN (data[pos + 2] * 2 ^ (8 - bit)) % 128 ELSE 0)
        ELSE 0]
unpackGSM7(data, nChars) ==
  Septets(data, Min({nChars, (Len(data) * 8) \div 7}))

(* Bit k of a sequence of units of w bits; 0 beyond its end. *)
BitOf(s, w, k) == LET u == (k \div w) + 1
                  IN IF u \in DOMAIN s THEN (s[u] \div 2 ^ (k % w)) % 2 ELSE 0

repackWithoutFill(chars, fillBits) == packGSM7(chars)
repackWithFill(chars, fillBits) ==
  LET n == Len(chars) * 7 + fillBits
      bit(k) == IF k < fillBits THEN 0 ELSE BitOf(chars, 7, k - fillBits)
  IN [o \in 1 .. (n + 7) \div 8 |->
        MapThenSumSet(LAMBDA j : bit(8 * (o - 1) + j) * 2 ^ j,
                      {j \in 0 .. 7 : 8 * (o - 1) + j < n})]

-----------------------------------------------------------------------------
(* Text. *)

encodeGSM7Text(text) ==
  FlattenSeq([k \in DOMAIN text |-> IF Basic(text[k]) THEN <<text[k]>>
                                    ELSE IF Extended7(text[k]) THEN <<ESC, text[k] - 1000>> ELSE <<>>])

(* An unknown extension is a space; an escape at the end is dropped. *)
decodeGSM7Text(codes) ==
  FoldLeft(LAMBDA a, c :
             IF a.esc THEN [esc |-> FALSE,
                            out |-> Append(a.out, IF c \in ExtensionCodes THEN 1000 + c ELSE 32)]
             ELSE IF c = ESC THEN [a EXCEPT !.esc = TRUE]
             ELSE [a EXCEPT !.out = Append(@, c)],
           [esc |-> FALSE, out |-> <<>>], codes).out

(* utf16.Encode and the big-endian octets. *)
Units(r) == IF r < Supplementary THEN <<r>>
            ELSE <<55296 + ((r - Supplementary) \div 1024), 56320 + ((r - Supplementary) % 1024)>>
encodeUCS2(text) ==
  FlattenSeq([k \in DOMAIN text |->
    FlattenSeq([u \in DOMAIN Units(text[k]) |->
                  <<Units(text[k])[u] \div 256, Units(text[k])[u] % 256>>])])

(* The pairs of octets, an odd last one dropped, and utf16.Decode. *)
decodeUCS2(data) ==
  LET units == [k \in 1 .. Len(data) \div 2 |-> data[2 * k - 1] * 256 + data[2 * k]]
      High(k) == k \in DOMAIN units /\ units[k] \in 55296 .. 56319
      Low(k) == k \in DOMAIN units /\ units[k] \in 56320 .. 57343
      Rune(k) == IF High(k) /\ Low(k + 1)
                 THEN <<Supplementary + (units[k] - 55296) * 1024 + units[k + 1] - 56320>>
                 ELSE IF Low(k) /\ High(k - 1) THEN <<>>
                 ELSE <<IF High(k) \/ Low(k) THEN Replacement ELSE units[k]>>
  IN FlattenSeq([k \in DOMAIN units |-> Rune(k)])

-----------------------------------------------------------------------------
(* Addresses and time stamps. *)

swapNibbles(b) == (b \div 16) + (b % 16) * 16
Nibble(data, i) == IF i % 2 = 0 THEN data[i \div 2 + 1] % 16 ELSE data[i \div 2 + 1] \div 16

(* An address is its prefix, "+" or none, and its digits, or a name and its letters.
   encodeBCDAddress: the number of digits, the type of address and the octets. *)
encodeBCDAddress(num) ==
  LET d == num.text
      digit(k) == IF k \in DOMAIN d THEN d[k] ELSE 15
  IN [n |-> Len(d), type |-> IF num.prefix = "+" THEN 145 ELSE 129,
      data |-> [k \in 1 .. (Len(d) + 1) \div 2 |-> digit(2 * k - 1) + 16 * digit(2 * k)]]

(* decodeBCDAddress: a name for type D0, else a number; it ends at a filler. *)
decodeBCDAddress(data, numDigits, addrType) ==
  LET n == Min({numDigits, 2 * Len(data)})
      fill == {i \in 0 .. n - 1 : Nibble(data, i) = 15}
      len == IF fill = {} THEN n ELSE Min(fill)
  IN IF addrType = 208
     THEN [prefix |-> "name", text |-> decodeGSM7Text(unpackGSM7(data, numDigits))]
     ELSE [prefix |-> IF addrType = 145 THEN "+" ELSE "",
           text |-> [i \in 1 .. len |-> Nibble(data, i - 1)]]

(* external: time.Date, as an instant: the days since 1 January 2000 and the second
   of the day, both in UTC. A field beyond its range is carried into the next one. *)
MonthStart == <<0, 31, 59, 90, 120, 151, 181, 212, 243, 273, 304, 334>>
Leap(y) == y % 4 = 0 /\ (y % 100 # 0 \/ y % 400 = 0)
Date(yy, mm, dd, hh, min, ss, offset) ==
  LET y == yy + (mm - 1) \div 12
      m == ((mm - 1) % 12) + 1
      leapDays == (y + 3) \div 4 - (y + 99) \div 100 + (y + 399) \div 400
      days == 365 * y + leapDays + MonthStart[m] + (IF m > 2 /\ Leap(y) THEN 1 ELSE 0) + dd - 1
      secs == hh * 3600 + min * 60 + ss - offset
  IN [day |-> days + secs \div 86400, sec |-> secs % 86400]

(* The digits of a field are read as one number of base 16; yy counts from 2000. *)
decodeSCTS(data) ==
  LET f == [k \in 1 .. 7 |-> swapNibbles(data[k])]
      tzQuarters == f[7] % 128
      tzSign == IF f[7] >= 128 THEN -1 ELSE 1
  IN Date(f[1], f[2], f[3], f[4], f[5], f[6], tzSign * tzQuarters * 15 * 60)

dcsEncoding(dcs) ==
  LET class == dcs \div 16
      bits == (dcs \div 4) % 4
  IN IF class \in {0, 15} /\ bits = 1 THEN "8BIT"
     ELSE IF \/ class \in {0, 15} /\ bits = 2
             \/ class \in 8 .. 11
             \/ class = 14 /\ bits % 2 = 1 THEN "UCS2"
     ELSE "GSM7"

(* decodeSMSC: the octets it takes; beyond the end when the length is wrong. *)
SmscOctets(data) == IF data = <<>> THEN 0 ELSE 1 + data[1]

-----------------------------------------------------------------------------
(* EncodePDU. A part is the fields of its SMS-SUBMIT; udl and total are octets. *)

(* buildGSM7PDU: the header of a part is 6 octets, one bit short of 7 septets. *)
buildGSM7PDU(to, chars, total, part) ==
  LET multi == total > 0 IN
  [udhi |-> multi, da |-> encodeBCDAddress(to), dcs |-> 0,
   udl |-> (Len(chars) + (IF multi THEN 7 ELSE 0)) % 256,
   ud |-> IF multi THEN <<5, 0, 3, 66, total % 256, part % 256>> \o repackWithFill(chars, 1)
          ELSE packGSM7(chars)]

buildUCS2PDU(to, runes, total, part) ==
  LET multi == total > 0
      udh == IF multi THEN <<5, 0, 3, 66, total % 256, part % 256>> ELSE <<>>
      body == encodeUCS2(runes)
  IN [udhi |-> multi, da |-> encodeBCDAddress(to), dcs |-> 8,
      udl |-> (Len(body) + Len(udh)) % 256, ud |-> udh \o body]

(* One part up to limit characters, else as many as of perPart are needed. *)
Split(s, limit, perPart) ==
  IF Len(s) <= limit THEN <<s>>
  ELSE [i \in 1 .. (Len(s) + perPart - 1) \div perPart |->
          SubSeq(s, (i - 1) * perPart + 1, Min({i * perPart, Len(s)}))]

encodeGSM7PDUs(to, body) ==
  LET pieces == Split(encodeGSM7Text(body), maxGSM7Chars, maxGSM7ConcatChars)
  IN IF Len(pieces) = 1 THEN <<buildGSM7PDU(to, pieces[1], 0, 0)>>
     ELSE [i \in DOMAIN pieces |-> buildGSM7PDU(to, pieces[i], Len(pieces), i)]

encodeUCS2PDUs(to, body) ==
  LET pieces == Split(body, maxUCS2Chars, maxUCS2ConcatChars)
  IN IF Len(pieces) = 1 THEN <<buildUCS2PDU(to, pieces[1], 0, 0)>>
     ELSE [i \in DOMAIN pieces |-> buildUCS2PDU(to, pieces[i], Len(pieces), i)]

EncodePDU(to, body, encoding) ==
  IF encoding = "GSM7" \/ (encoding = "" /\ IsGSM7(body))
  THEN encodeGSM7PDUs(to, body) ELSE encodeUCS2PDUs(to, body)
=============================================================================
