-------------------------------- MODULE MCPdu -------------------------------
(* Messages for Pdu: every length up to three parts, characters of one and two
   codes, one and two units, and all-ones septets; senders of every length up to
   eleven letters; times with fields below and above ten, in zones to both sides of
   UTC, across the end of a year and of a February; an escape in the body. *)
EXTENDS Pdu

Message(b, e, f, t) == [body |-> b, enc |-> e, to |-> [prefix |-> "+", text |-> <<4, 9, 1>>],
                        from |-> f, at |-> t]
Abroad == [prefix |-> "+", text |-> <<4, 9, 0, 1, 7>>]
Local == [prefix |-> "", text |-> <<1, 2>>]
Name(n) == [prefix |-> "name", text |-> [k \in 1 .. n |-> 127 - k]]
Early == <<1, 2, 3, 4, 5, 6, 8>>
Late == <<26, 11, 9, 23, 8, 59, -20>>
Zones == {<<y, m, 1, h, 5, 6, z>> : y \in {0, 1, 4, 9}, m \in {1, 3}, h \in {0, 9}, z \in {-9, 0, 9}}

Pattern(n, r, q) == [k \in 1 .. n |-> IF k % 3 = 0 THEN q ELSE r]
Short == UNION {[1 .. n -> {127, 1101}] : n \in 0 .. 3}
Mixed == {Pattern(n, 85, 1101) : n \in 0 .. 24} \cup {Pattern(n, 1, 127) : n \in 0 .. 28}
Wide == {Pattern(n, 3000, 127) : n \in 0 .. 13} \cup {<<128512, 5>>}

SentMessages ==
  {Message(b, e, Abroad, Early) : b \in Short, e \in {"GSM7", "UCS2"}}
    \cup {Message(b, "", Local, Late) : b \in Mixed \cup Wide}
    \cup {Message(<<1>>, "", Name(n), Late) : n \in 1 .. 11}
    \cup {Message(<<1>>, "", Local, t) : t \in Zones}
    \cup {Message(<<1, ESC, 60>>, e, Local, Early) : e \in {"", "UCS2"}}
OctetMessages == {Message(<<0, 255, 128>>, "8BIT", Abroad, Early)}
=============================================================================
