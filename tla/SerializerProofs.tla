-------------------------- MODULE SerializerProofs --------------------------
(* The AT serializer, for every number of commands, notifications and faults: what
   lines are on their way at each place of a call, and what follows for its result. *)
EXTENDS Serializer, TLAPS

-----------------------------------------------------------------------------
(* What the provers know of sequences, in the form the proofs below use. *)
LEMMA LenFacts ==
  ASSUME NEW S, NEW s \in Seq(S)
  PROVE  /\ Len(s) \in Nat /\ DOMAIN s = 1 .. Len(s) /\ s \in [1 .. Len(s) -> S]
         /\ \A i \in 1 .. Len(s) : s[i] \in S
         /\ Len(s) = 0 <=> s = <<>>
OBVIOUS

(* A function on 1 .. n is a sequence. *)
LEMMA FunctionIsSeq ==
  ASSUME NEW S, NEW n \in Nat, NEW f \in [1 .. n -> S]
  PROVE  f \in Seq(S) /\ Len(f) = n
OBVIOUS

(* The elements of a sequence without its first one. *)
LEMMA TailFacts ==
  ASSUME NEW S, NEW s \in Seq(S), s # <<>>
  PROVE  /\ Len(s) \in Nat \ {0} /\ Head(s) = s[1] /\ Head(s) \in S
         /\ Tail(s) \in Seq(S) /\ Len(Tail(s)) = Len(s) - 1
         /\ \A i \in 1 .. Len(s) - 1 : Tail(s)[i] = s[i + 1] /\ i + 1 \in 1 .. Len(s)
OBVIOUS

(* The elements of a sequence that grows. *)
LEMMA AppendFacts ==
  ASSUME NEW S, NEW s \in Seq(S), NEW e \in S
  PROVE  /\ Append(s, e) \in Seq(S) /\ Len(s) \in Nat /\ Len(Append(s, e)) = Len(s) + 1
         /\ Append(s, e)[Len(s) + 1] = e /\ \A i \in 1 .. Len(s) : Append(s, e)[i] = s[i]
         /\ \A i \in 1 .. Len(s) + 1 : i \in 1 .. Len(s) \/ i = Len(s) + 1
OBVIOUS

(* The elements of two sequences, one after the other. *)
LEMMA ConcatFacts ==
  ASSUME NEW S, NEW s \in Seq(S), NEW t \in Seq(S)
  PROVE  /\ s \o t \in Seq(S) /\ Len(s) \in Nat /\ Len(t) \in Nat
         /\ Len(s \o t) = Len(s) + Len(t)
         /\ \A i \in 1 .. Len(s) + Len(t) : (s \o t)[i] = IF i <= Len(s) THEN s[i]
              ELSE t[i - Len(s)]
OBVIOUS

(* The lines of one answer of the modem. *)
Answers == {<<"ok">>, <<"data", "ok">>, <<"error">>, <<"cms">>, <<"prompt">>,
            <<"cmgs", "ok">>, <<"garbled", "ok">>}

(* A line that ends a wait is the last of its answer. *)
LEMMA AnswerShape ==
  ASSUME NEW r \in Answers
  PROVE  /\ r \in Seq(Kinds \ {"urc"}) /\ Len(r) \in {1, 2}
         /\ \A i \in 1 .. Len(r) : r[i] \in Closing => i = Len(r)
         /\ r # <<"garbled", "ok">> => \A i \in 1 .. Len(r) : r[i] # "garbled"
         /\ r \in {<<"prompt">>, <<"error">>, <<"cms">>}
              => \A i \in 1 .. Len(r) : r[i] \in Closing
<1>1. CASE \E a \in Closing : r = <<a>>
  <2> PICK a \in Closing : r = <<a>>
    BY <1>1, Zenon
  <2>1. r \in Seq(Kinds \ {"urc"}) /\ Len(r) = 1 /\ r[1] = a
    BY DEF Closing, Kinds
  <2>2. \A i \in 1 .. Len(r) : i = 1
    BY <2>1
  <2>3. a # "garbled"
    BY Zenon DEF Closing
  <2> QED  BY <2>1, <2>2, <2>3, Zenon
<1>2. CASE \E a \in {"data", "cmgs", "garbled"} : r = <<a, "ok">>
  <2> PICK a \in {"data", "cmgs", "garbled"} : r = <<a, "ok">>
    BY <1>2, Zenon
  <2>1. r \in Seq(Kinds \ {"urc"}) /\ Len(r) = 2 /\ r[1] = a /\ r[2] = "ok"
    BY DEF Kinds
  <2>2. \A i \in 1 .. Len(r) : i = 1 \/ i = 2
    BY <2>1
  <2>3. a \notin Closing /\ "ok" # "garbled"
    BY Zenon DEF Closing
  <2>4. r # <<"garbled", "ok">> => a # "garbled"
    BY Zenon
  <2>5. r \notin {<<"prompt">>, <<"error">>, <<"cms">>}
    BY <2>1, Zenon
  <2> QED  BY <2>1, <2>2, <2>3, <2>4, <2>5, Zenon
<1> QED  BY <1>1, <1>2, Zenon DEF Answers, Closing

(* The lines of an answer follow the ones already at the port. *)
LEMMA AnswerFacts ==
  ASSUME port \in Seq(Line), NEW k \in Ids, NEW r \in Answers, Answer(k, r)
  PROVE  /\ port' \in Seq(Line) /\ Len(port) \in Nat /\ Len(r) \in {1, 2}
         /\ Len(port') = Len(port) + Len(r)
         /\ \A i \in 1 .. Len(port) : port'[i] = port[i]
         /\ \A i \in 1 .. Len(r) : port'[Len(port) + i] = [kind |-> r[i], of |-> k]
         /\ \A i \in 1 .. Len(r) : r[i] \in Kinds \ {"urc"}
         /\ \A i \in 1 .. Len(port') : i \in 1 .. Len(port)
              \/ \E j \in 1 .. Len(r) : i = Len(port) + j
<1> DEFINE q == [i \in DOMAIN r |-> [kind |-> r[i], of |-> k]]
<1>1. r \in Seq(Kinds \ {"urc"}) /\ Len(r) \in {1, 2}
  BY AnswerShape, Zenon
<1>2. DOMAIN r = 1 .. Len(r) /\ \A i \in 1 .. Len(r) : r[i] \in Kinds \ {"urc"}
  BY <1>1, LenFacts, Zenon
<1>3. \A i \in 1 .. Len(r) : [kind |-> r[i], of |-> k] \in Line
  BY <1>2, SerAssumption DEF Line, Ids
<1>4. q \in [1 .. Len(r) -> Line] /\ \A i \in 1 .. Len(r) : q[i] = [kind |-> r[i], of |-> k]
  BY <1>2, <1>3, Zenon
<1>5. port' = port \o q
  BY Zenon DEF Answer
<1> HIDE DEF q
<1>6. q \in Seq(Line) /\ Len(q) = Len(r)
  <2>1. q \in Seq(Line)
    BY <1>1, <1>4, FunctionIsSeq, Zenon
  <2>2. Len(q) \in Nat /\ DOMAIN q = 1 .. Len(q)
    BY <2>1, LenFacts, Zenon
  <2>3. 1 .. Len(r) = 1 .. Len(q)
    BY <1>4, <2>2, Zenon
  <2> QED  BY <1>1, <2>1, <2>2, <2>3
<1>7. /\ port' \in Seq(Line) /\ Len(port) \in Nat /\ Len(port') = Len(port) + Len(q)
      /\ \A i \in 1 .. Len(port) + Len(q) :
           port'[i] = IF i <= Len(port) THEN port[i] ELSE q[i - Len(port)]
  BY <1>5, <1>6, ConcatFacts, LenFacts, ZenonT(30)
<1>8. \A i \in 1 .. Len(port) : port'[i] = port[i]
  BY <1>1, <1>6, <1>7
<1>9. \A i \in 1 .. Len(r) : port'[Len(port) + i] = [kind |-> r[i], of |-> k]
  <2> TAKE i \in 1 .. Len(r)
  <2>1. /\ Len(port) + i \in 1 .. Len(port) + Len(q) /\ ~(Len(port) + i <= Len(port))
        /\ (Len(port) + i) - Len(port) = i
    BY <1>1, <1>6, <1>7
  <2> QED  BY <1>4, <1>7, <2>1, Zenon
<1>10. \A i \in 1 .. Len(port') : i \in 1 .. Len(port)
       \/ \E j \in 1 .. Len(r) : i = Len(port) + j
  <2> TAKE i \in 1 .. Len(port')
  <2>1. i \in 1 .. Len(port) \/ (i - Len(port) \in 1 .. Len(r)
        /\ i = Len(port) + (i - Len(port)))
    BY <1>1, <1>6, <1>7
  <2> QED  BY <2>1, Zenon
<1> QED  BY <1>1, <1>2, <1>6, <1>7, <1>8, <1>9, <1>10, Zenon

(* A fault uses up one of its kind and none of another. *)
LEMMA LoseFacts ==
  ASSUME left \in [SerFaults -> Nat], NEW f \in SerFaults, Lose(f)
  PROVE  /\ left' \in [SerFaults -> Nat] /\ left'[f] < left[f]
         /\ \A g \in SerFaults : left'[g] <= left[g]
<1>1. left[f] \in Nat /\ left[f] > 0 /\ left' = [left EXCEPT ![f] = left[f] - 1]
  BY Zenon DEF Lose
<1>2. left' \in [SerFaults -> Nat] /\ left'[f] = left[f] - 1
      /\ \A g \in SerFaults : g # f => left'[g] = left[g]
  BY <1>1
<1> QED  BY <1>1, <1>2

(* The faults that may still happen only become fewer. *)
LEMMA LeftKept ==
  ASSUME SerTypeOK, SerNext
  PROVE  left' \in [SerFaults -> Nat] /\ left'["garbled"] <= left["garbled"]
<1>1. left \in [SerFaults -> Nat] /\ "silent" \in SerFaults /\ "slow" \in SerFaults
      /\ "io" \in SerFaults /\ "garbled" \in SerFaults
  BY Zenon DEF SerTypeOK, SerFaults
<1>2. left' = left \/ \E f \in SerFaults : Lose(f)
  BY <1>1, Zenon DEF SerNext, ModemAnswers, ModemNotifies, Unplug, Reader, ReaderScan,
     ReaderDeliver, ReaderUrc,
     ReaderEnds, TakeUrc, Begin, Caller, WriteCommand, TakeLine, Timeout, SeesClosed
<1>3. CASE left' = left
  BY <1>1, <1>3
<1>4. ASSUME NEW f \in SerFaults, Lose(f)
      PROVE  left' \in [SerFaults -> Nat] /\ left'["garbled"] <= left["garbled"]
  BY <1>1, <1>4, LoseFacts, Zenon
<1> QED  BY <1>2, <1>3, <1>4, Zenon

(* What the modem does with a line it was given. *)
Reply(k, kind) ==
  \E r \in Answers :
    /\ Answer(k, r)
    /\ prompted' = IF r = <<"prompt">> THEN prompted \cup {k} ELSE prompted
    /\ r = <<"garbled", "ok">> => left'["garbled"] < left["garbled"]
    /\ kind = "send" => r \in {<<"prompt">>, <<"error">>, <<"cms">>}
    /\ kind # "send" => r # <<"prompt">>

(* The modem takes one line and answers it, or stays silent. *)
LEMMA ModemFacts ==
  ASSUME SerTypeOK, ModemAnswers
  PROVE  /\ Head(toModem) \in [kind : {"cmd", "send", "pdu"}, of : Ids]
         /\ toModem # <<>> /\ toModem' = Tail(toModem)
         /\ toModem' \in Seq([kind : {"cmd", "send", "pdu"}, of : Ids])
         /\ (port' = port /\ prompted' = prompted)
              \/ Reply(Head(toModem).of, Head(toModem).kind)
<1>1. Head(toModem) \in [kind : {"cmd", "send", "pdu"}, of : Ids] /\ toModem # <<>>
      /\ toModem' = Tail(toModem)
      /\ toModem' \in Seq([kind : {"cmd", "send", "pdu"}, of : Ids])
  BY TailFacts, Zenon DEF ModemAnswers, SerTypeOK
<1>2. CASE port' = port /\ prompted' = prompted
  BY <1>1, <1>2, Zenon
<1>3. ASSUME Head(toModem).kind = "cmd", UNCHANGED prompted,
             NEW r \in {<<"ok">>, <<"data", "ok">>, <<"error">>, <<"cms">>},
             Answer(Head(toModem).of, r)
      PROVE  Reply(Head(toModem).of, Head(toModem).kind)
  <2>1. r \in Answers /\ r # <<"prompt">> /\ r # <<"garbled", "ok">>
    BY DEF Answers
  <2> QED  BY <1>3, <2>1, Zenon DEF Reply
<1>4. ASSUME Head(toModem).kind = "send", prompted' = prompted \cup {Head(toModem).of},
             Answer(Head(toModem).of, <<"prompt">>)
      PROVE  Reply(Head(toModem).of, Head(toModem).kind)
  <2>1. <<"prompt">> \in Answers /\ <<"prompt">> # <<"garbled", "ok">>
    BY Zenon DEF Answers
  <2> QED  BY <1>4, <2>1, Zenon DEF Reply
<1>5. ASSUME Head(toModem).kind = "send", UNCHANGED prompted,
             NEW r \in {<<"error">>, <<"cms">>}, Answer(Head(toModem).of, r)
      PROVE  Reply(Head(toModem).of, Head(toModem).kind)
  <2>1. r \in Answers /\ r # <<"prompt">> /\ r # <<"garbled", "ok">>
    BY DEF Answers
  <2> QED  BY <1>5, <2>1, Zenon DEF Reply
<1>6. ASSUME Head(toModem).kind = "pdu", UNCHANGED prompted,
             NEW r \in {<<"cmgs", "ok">>, <<"error">>, <<"cms">>},
             Answer(Head(toModem).of, r)
      PROVE  Reply(Head(toModem).of, Head(toModem).kind)
  <2>1. r \in Answers /\ r # <<"prompt">> /\ r # <<"garbled", "ok">>
    BY DEF Answers
  <2> QED  BY <1>6, <2>1, Zenon DEF Reply
<1>7. ASSUME Head(toModem).kind = "pdu", UNCHANGED prompted, Lose("garbled"),
             Answer(Head(toModem).of, <<"garbled", "ok">>)
      PROVE  Reply(Head(toModem).of, Head(toModem).kind)
  <2>1. <<"garbled", "ok">> \in Answers /\ <<"prompt">> # <<"garbled", "ok">>
    BY Zenon DEF Answers
  <2>2. left'["garbled"] < left["garbled"]
    BY <1>7, LoseFacts, Zenon DEF SerTypeOK, SerFaults
  <2> QED  BY <1>7, <2>1, <2>2, Zenon DEF Reply
<1> QED  BY <1>1, <1>2, <1>3, <1>4, <1>5, <1>6, <1>7, Zenon DEF ModemAnswers

(* What a line does to the call that waits. *)
LEMMA OutcomeFacts ==
  ASSUME NEW at \in Waiting, NEW kind \in Kinds
  PROVE  /\ Outcome(at, kind) \in {"done", "failed", "pduwrite", at}
         /\ Outcome(at, kind) = "pduwrite" <=> at = "prompt" /\ kind = "prompt"
         /\ Outcome(at, kind) \in {"done", "failed"} => kind \in Closing \cup {"garbled"}
         /\ Outcome(at, kind) \notin {"done", "failed", "pduwrite"}
              => Outcome(at, kind) = at
BY Zenon DEF Outcome, Waiting, Kinds, Closing

(* What is written at each place, and what the call waits for then. *)
LEMMA WrittenFacts ==
  ASSUME NEW at \in {"write", "sendwrite", "pduwrite"}
  PROVE  /\ Written(at)[1] = (IF at = "write" THEN "cmd" ELSE IF at = "sendwrite"
              THEN "send" ELSE "pdu")
         /\ Written(at)[2] = (IF at = "write" THEN "answer" ELSE IF at = "sendwrite"
              THEN "prompt" ELSE "result")
BY Zenon DEF Written

(* What a call can return. *)
Results == {"none", "done", "failed", "timeout", "noprompt", "late", "closed"}

(* A return ends the call, resets the pending command and empties linesCh. *)
LEMMA ReturnFacts ==
  ASSUME SerTypeOK, SerBasics, call.at # "idle", NEW s \in Results, Return(s)
  PROVE  /\ status' \in [Ids -> Results] /\ status'[call.id] = s
         /\ \A k \in Ids : k # call.id => status'[k] = status[k]
         /\ call' = [at |-> "idle", id |-> call.id]
         /\ call' \in [at : Waits, id : 0 .. MaxCmds]
         /\ pending' = 0 /\ pending' \in 0 .. MaxCmds /\ lines' = <<>>
         /\ lines' \in Seq(Line) /\ Len(lines') <= LineCap
<1>1. status \in [Ids -> Results] /\ call.id \in Ids
      /\ call \in [at : Waits, id : 0 .. MaxCmds]
  BY Zenon DEF SerTypeOK, SerBasics, CallInHand, Results
<1>2. status' \in [Ids -> Results] /\ status'[call.id] = s /\ \A k \in Ids : k # call.id
      => status'[k] = status[k]
  BY <1>1, Zenon DEF Return
<1>3. call' = [at |-> "idle", id |-> call.id] /\ call' \in [at : Waits, id : 0 .. MaxCmds]
  BY <1>1, Zenon DEF Return, Waits
<1>4. pending' = 0 /\ 0 \in 0 .. MaxCmds /\ lines' = <<>> /\ 0 <= LineCap
  BY SerAssumption DEF Return
<1> QED  BY <1>2, <1>3, <1>4, LenFacts

(* The flags stay flags. *)
LEMMA SerBooleans ==
  ASSUME SerTypeOK, SerNext
  PROVE  /\ atPrompt' \in BOOLEAN /\ portClosed' \in BOOLEAN /\ closed' \in BOOLEAN
         /\ mixed' \in BOOLEAN
<1> USE DEF SerTypeOK, SerNext, ModemAnswers, ModemNotifies, Unplug, Reader, ReaderScan,
            ReaderDeliver, ReaderUrc,
     ReaderEnds, TakeUrc, Begin, Caller, WriteCommand, TakeLine, Timeout, SeesClosed,
     modemVars, callVars, readerVars
<1>1. atPrompt' \in BOOLEAN
  BY Zenon
<1>2. portClosed' \in BOOLEAN
  BY Zenon
<1>3. closed' \in BOOLEAN
  BY Zenon
<1>4. mixed' \in BOOLEAN
  BY Zenon
<1> QED  BY <1>1, <1>2, <1>3, <1>4, Zenon

(* Every step keeps the types. *)
LEMMA SerTypes ==
  ASSUME SerTypeOK, SerBasics, SerNext
  PROVE  SerTypeOK'
<1> USE DEF modemVars, callVars, readerVars
<1> DEFINE Rest == /\ toModem' \in Seq([kind : {"cmd", "send", "pdu"}, of : Ids])
                   /\ port' \in Seq(Line)
                   /\ urcsSent' \in 0 .. MaxUrcs
                   /\ rdr' \in [at : {"scan", "deliver", "urc", "full", "push", "ended"},
                        line : Line,
                                for : 0 .. MaxCmds]
                   /\ call' \in [at : Waits, id : 0 .. MaxCmds]
                   /\ pending' \in 0 .. MaxCmds
                   /\ lines' \in Seq(Line) /\ Len(lines') <= LineCap
                   /\ urcs' \in Seq(1 .. MaxUrcs) /\ Len(urcs') <= UrcChCap
                   /\ taken' \subseteq 1 .. MaxUrcs
                   /\ prompted' \subseteq Ids
                   /\ status' \in [Ids -> Results]
<1>0. /\ MaxCmds \in Nat /\ MaxUrcs \in Nat /\ LineCap \in Nat \ {0}
      /\ UrcChCap \in Nat \ {0}
      /\ Ids = 1 .. MaxCmds /\ status \in [Ids -> Results] /\ call.at \in Waits
      /\ call.id \in 0 .. MaxCmds
      /\ rdr.line \in Line /\ rdr.for \in 0 .. MaxCmds
  BY SerAssumption, Zenon DEF Ids, SerTypeOK, Results
<1>1. ASSUME ModemAnswers PROVE Rest
  <2>1. Head(toModem).of \in Ids /\ toModem' \in Seq([kind : {"cmd", "send", "pdu"},
        of : Ids])
    BY <1>1, ModemFacts, Zenon
  <2>2. port' \in Seq(Line) /\ prompted' \subseteq Ids
    BY <1>1, <2>1, ModemFacts, AnswerFacts, Zenon DEF Reply, SerTypeOK
  <2> QED  BY <1>1, <1>0, <2>1, <2>2, SMTT(30) DEF ModemAnswers, SerTypeOK
<1>2. ASSUME ModemNotifies PROVE Rest
  <2>1. urcsSent' \in 0 .. MaxUrcs /\ [kind |-> "urc", of |-> urcsSent'] \in Line
    BY <1>2, <1>0 DEF ModemNotifies, SerTypeOK, Line, Kinds
  <2>2. port' \in Seq(Line)
    BY <1>2, <2>1, AppendFacts, Zenon DEF ModemNotifies, SerTypeOK
  <2> QED  BY <1>2, <1>0, <2>1, <2>2, Zenon DEF ModemNotifies, SerTypeOK
<1>3. ASSUME Unplug PROVE Rest
  BY <1>3, <1>0, Zenon DEF Unplug, SerTypeOK
<1>4. ASSUME ReaderScan PROVE Rest
  <2>1. port' \in Seq(Line) /\ Head(port) \in Line
    BY <1>4, TailFacts, Zenon DEF ReaderScan, LineArrived, SerTypeOK
  <2>2. rdr' \in [at : {"scan", "deliver", "urc", "full", "push", "ended"}, line : Line,
        for : 0 .. MaxCmds]
    BY <1>4, <1>0, <2>1 DEF ReaderScan, SerTypeOK
  <2> QED  BY <1>4, <1>0, <2>1, <2>2, Zenon DEF ReaderScan, SerTypeOK
<1>5. ASSUME ReaderDeliver PROVE Rest
  <2>1. lines' \in Seq(Line) /\ Len(lines') <= LineCap
    BY <1>5, <1>0, AppendFacts DEF ReaderDeliver, SerTypeOK
  <2>2. rdr' \in [at : {"scan", "deliver", "urc", "full", "push", "ended"}, line : Line,
        for : 0 .. MaxCmds]
    BY <1>5, Zenon DEF ReaderDeliver, SerTypeOK
  <2> QED  BY <1>5, <1>0, <2>1, <2>2, Zenon DEF ReaderDeliver, SerTypeOK
<1>6. ASSUME ReaderUrc PROVE Rest
  <2>1. urcs \in Seq(1 .. MaxUrcs) /\ Len(urcs) \in Nat /\ Len(urcs) <= UrcChCap
    BY LenFacts, Zenon DEF SerTypeOK
  <2>2. rdr.at \in {"urc", "push"} => rdr.line.of \in 1 .. MaxUrcs
    BY Zenon DEF SerBasics, LineInHand
  <2>3. urcs' \in Seq(1 .. MaxUrcs) /\ Len(urcs') <= UrcChCap
    <3>1. CASE Len(urcs) < UrcChCap /\ rdr.line.of \in 1 .. MaxUrcs
               /\ urcs' = Append(urcs, rdr.line.of)
      BY <1>0, <2>1, <3>1, AppendFacts
    <3>2. CASE urcs' = urcs
      BY <2>1, <3>2, Zenon
    <3>3. CASE urcs # <<>> /\ urcs' = Tail(urcs)
      BY <1>0, <2>1, <3>3, TailFacts
    <3> QED  BY <1>6, <2>2, <3>1, <3>2, <3>3, Zenon DEF ReaderUrc
  <2>4. rdr' \in [at : {"scan", "deliver", "urc", "full", "push", "ended"}, line : Line,
        for : 0 .. MaxCmds]
    BY <1>6, Zenon DEF ReaderUrc, SerTypeOK
  <2> QED  BY <1>6, <1>0, <2>3, <2>4, SMTT(30) DEF ReaderUrc, SerTypeOK
<1>7. ASSUME ReaderEnds PROVE Rest
  <2>1. rdr' \in [at : {"scan", "deliver", "urc", "full", "push", "ended"}, line : Line,
        for : 0 .. MaxCmds]
    BY <1>7, Zenon DEF ReaderEnds, SerTypeOK
  <2> QED  BY <1>7, <1>0, <2>1, Zenon DEF ReaderEnds, SerTypeOK
<1>8. ASSUME TakeUrc PROVE Rest
  <2>1. urcs' \in Seq(1 .. MaxUrcs) /\ Head(urcs) \in 1 .. MaxUrcs /\ Len(urcs') <= UrcChCap
    BY <1>8, <1>0, TailFacts DEF TakeUrc, SerTypeOK
  <2> QED  BY <1>8, <1>0, <2>1, Zenon DEF TakeUrc, SerTypeOK
<1>9. ASSUME Begin PROVE Rest
  <2>1. call.id + 1 \in Ids /\ call.id + 1 \in 0 .. MaxCmds /\ <<>> \in Seq(Line)
        /\ Len(<<>>) <= LineCap
    BY <1>9, <1>0 DEF Begin
  <2>2. status' \in [Ids -> Results]
    BY <1>9, <1>0, <2>1, Zenon DEF Begin, Results
  <2>3. call' \in [at : Waits, id : 0 .. MaxCmds]
    BY <1>9, <1>0, <2>1 DEF Begin, Waits, SerTypeOK
  <2> QED  BY <1>9, <1>0, <2>1, <2>2, <2>3, Zenon DEF Begin, SerTypeOK
<1>10. ASSUME WriteCommand PROVE Rest
  <2>1. call.at # "idle" /\ call.id \in Ids
    BY <1>10, Zenon DEF WriteCommand, SerBasics, CallInHand
  <2>2. CASE Return("failed") /\ UNCHANGED toModem
    BY <1>10, <1>0, <2>1, <2>2, ReturnFacts, Zenon DEF WriteCommand, SerTypeOK, Results
  <2>3. CASE /\ toModem' = Append(toModem, [kind |-> Written(call.at)[1], of |-> call.id])
             /\ call' = [call EXCEPT !.at = Written(call.at)[2]]
             /\ UNCHANGED <<pending, lines, status, left>>
    <3>1. [kind |-> Written(call.at)[1], of |-> call.id] \in [kind : {"cmd", "send",
          "pdu"}, of : Ids] /\ Written(call.at)[2] \in Waits
      BY <1>10, <2>1, WrittenFacts, Zenon DEF WriteCommand, Waits
    <3>2. toModem' \in Seq([kind : {"cmd", "send", "pdu"}, of : Ids])
          /\ call' \in [at : Waits, id : 0 .. MaxCmds]
      BY <2>3, <3>1, AppendFacts, Zenon DEF SerTypeOK
    <3> QED  BY <1>10, <1>0, <2>3, <3>2, SMTT(30) DEF WriteCommand, SerTypeOK
  <2> QED  BY <1>10, <2>2, <2>3, Zenon DEF WriteCommand
<1>11. ASSUME TakeLine PROVE Rest
  <2>1. call.at # "idle" /\ call.at \in Waiting /\ Head(lines).kind \in Kinds
        /\ Tail(lines) \in Seq(Line) /\ Len(Tail(lines)) <= LineCap
    <3>1. call.at # "idle" /\ call.at \in Waiting /\ lines # <<>> /\ lines \in Seq(Line)
          /\ Len(lines) <= LineCap
      BY <1>11, Zenon DEF TakeLine, SerTypeOK, Waiting
    <3>2. Head(lines) \in Line /\ Len(lines) \in Nat /\ Tail(lines) \in Seq(Line)
          /\ Len(Tail(lines)) = Len(lines) - 1
      BY <3>1, TailFacts, Zenon
    <3> QED  BY <1>0, <3>1, <3>2 DEF Line
  <2>2. ASSUME NEW o \in {"done", "failed"}, Return(o) PROVE Rest
    BY <1>11, <1>0, <2>1, <2>2, ReturnFacts, Zenon DEF TakeLine, SerTypeOK, Results
  <2>3. CASE \E o \in {"pduwrite", call.at} : call' = [call EXCEPT !.at = o]
             /\ lines' = Tail(lines) /\ UNCHANGED <<pending, status>>
    <3>0. "pduwrite" \in Waits
      BY Zenon DEF Waits
    <3>1. call' \in [at : Waits, id : 0 .. MaxCmds]
      BY <1>0, <2>3, <3>0, ZenonT(30) DEF SerTypeOK
    <3> QED  BY <1>11, <1>0, <2>1, <2>3, <3>1, SMTT(30) DEF TakeLine, SerTypeOK
  <2> QED  BY <1>11, <2>1, <2>2, <2>3, OutcomeFacts, Zenon DEF TakeLine
<1>12. ASSUME Timeout PROVE Rest
  BY <1>12, <1>0, ReturnFacts, Zenon DEF Timeout, TimedOut, SerTypeOK, Results
<1>13. ASSUME SeesClosed PROVE Rest
  BY <1>13, <1>0, ReturnFacts, Zenon DEF SeesClosed, SerTypeOK, Results
<1>14. Rest
  BY <1>1, <1>2, <1>3, <1>4, <1>5, <1>6, <1>7, <1>8, <1>9, <1>10, <1>11, <1>12, <1>13,
     Zenon DEF SerNext, Reader, Caller
<1> QED  BY <1>14, SerBooleans, LeftKept, Zenon DEF SerTypeOK, Results

(* Every step keeps what is known of the line in the hands of the reader. *)
LEMMA LineKept ==
  ASSUME SerTypeOK, LineInHand, SerNext
  PROVE  LineInHand'
<1> USE DEF modemVars, callVars, readerVars
<1>1. CASE UNCHANGED <<port, rdr>>
  BY <1>1, Zenon DEF LineInHand
<1>2. CASE ModemAnswers
  <2>1. UNCHANGED rdr /\ Head(toModem).of \in Ids /\ port \in Seq(Line)
    BY <1>2, ModemFacts, Zenon DEF ModemAnswers, SerTypeOK
  <2>2. ASSUME NEW r \in Answers, Answer(Head(toModem).of, r), NEW i \in 1 .. Len(port'),
               port'[i].kind = "urc"
        PROVE  port'[i].of \in 1 .. MaxUrcs
    <3>0. /\ \A n \in 1 .. Len(port) : port'[n] = port[n]
          /\ \A n \in 1 .. Len(r) : port'[Len(port) + n]
               = [kind |-> r[n], of |-> Head(toModem).of]
          /\ \A n \in 1 .. Len(r) : r[n] \in Kinds \ {"urc"}
          /\ \A n \in 1 .. Len(port') : n \in 1 .. Len(port)
               \/ \E j \in 1 .. Len(r) : n = Len(port) + j
      BY <2>1, <2>2, AnswerFacts, ZenonT(60)
    <3>1. CASE i \in 1 .. Len(port)
      BY <2>2, <3>0, <3>1, Zenon DEF LineInHand
    <3>2. ASSUME NEW j \in 1 .. Len(r), i = Len(port) + j PROVE FALSE
      <4>1. port'[Len(port) + j] = [kind |-> r[j], of |-> Head(toModem).of] /\ r[j] # "urc"
        BY <3>0, Zenon
      <4> QED  BY <2>2, <3>2, <4>1
    <3> QED  BY <2>2, <3>0, <3>1, <3>2, Zenon
  <2>3. port' = port \/ \E r \in Answers : Answer(Head(toModem).of, r)
    BY <1>2, ModemFacts, Zenon DEF Reply
  <2> QED  BY <2>1, <2>2, <2>3, Zenon DEF LineInHand
<1>3. CASE ModemNotifies
  <2>1. /\ UNCHANGED rdr /\ port \in Seq(Line) /\ urcsSent' \in 1 .. MaxUrcs
        /\ [kind |-> "urc", of |-> urcsSent'] \in Line
        /\ port' = Append(port, [kind |-> "urc", of |-> urcsSent'])
    <3>1. urcsSent \in 0 .. MaxUrcs /\ MaxUrcs \in Nat /\ MaxCmds \in Nat
          /\ urcsSent < MaxUrcs /\ urcsSent' = urcsSent + 1
      BY <1>3, SerAssumption, Zenon DEF ModemNotifies, SerTypeOK
    <3>2. urcsSent' \in 1 .. MaxUrcs /\ urcsSent' \in 0 .. MaxCmds + MaxUrcs
      BY <3>1
    <3> QED  BY <1>3, <3>2, Zenon DEF ModemNotifies, SerTypeOK, Line, Kinds
  <2> QED  BY <2>1, AppendFacts DEF LineInHand
<1>4. CASE ReaderScan
  <2>1. /\ port \in Seq(Line) /\ port # <<>> /\ port' = Tail(port)
        /\ Len(port) \in Nat \ {0} /\ Head(port) = port[1] /\ 1 \in 1 .. Len(port)
    BY <1>4, TailFacts DEF ReaderScan, LineArrived, SerTypeOK
  <2>2. \A i \in 1 .. Len(port') : port'[i].kind = "urc" => port'[i].of \in 1 .. MaxUrcs
    BY <2>1, TailFacts DEF LineInHand
  <2>3. Head(port).kind = "urc" => Head(port).of \in 1 .. MaxUrcs
    BY <2>1, Zenon DEF LineInHand
  <2> QED  BY <1>4, <2>2, <2>3, Zenon DEF LineInHand, ReaderScan
<1>5. CASE ReaderDeliver \/ ReaderUrc \/ ReaderEnds
  <2>1. UNCHANGED port /\ rdr'.line = rdr.line /\ rdr'.at # "deliver"
    BY <1>5, Zenon DEF ReaderDeliver, ReaderUrc, ReaderEnds, SerTypeOK
  <2>2. rdr'.at \in {"urc", "full", "push"} => rdr.at \in {"urc", "full", "push"}
    BY <1>5, Zenon DEF ReaderDeliver, ReaderUrc, ReaderEnds, SerTypeOK
  <2> QED  BY <2>1, <2>2, Zenon DEF LineInHand
<1> QED
  BY <1>1, <1>2, <1>3, <1>4, <1>5, Zenon DEF SerNext, Reader, Caller, Unplug, TakeUrc,
     Begin, WriteCommand, TakeLine, Timeout, SeesClosed

(* Every step keeps what is known of the call and of what was written for it. *)
LEMMA CallKept ==
  ASSUME SerTypeOK, SerBasics, SerNext
  PROVE  CallInHand'
<1> USE DEF modemVars, callVars, readerVars
<1>0. /\ MaxCmds \in Nat /\ Ids = 1 .. MaxCmds
      /\ call \in [at : Waits, id : 0 .. MaxCmds] /\ prompted \subseteq Ids
      /\ CallInHand /\ Len(toModem) \in Nat
      /\ \A i \in 1 .. Len(toModem) : toModem[i].of \in Ids
  <2>1. toModem \in Seq([kind : {"cmd", "send", "pdu"}, of : Ids])
    BY Zenon DEF SerTypeOK
  <2>2. Len(toModem) \in Nat
        /\ \A i \in 1 .. Len(toModem) : toModem[i] \in [kind : {"cmd", "send", "pdu"},
        of : Ids]
    BY <2>1, LenFacts, Zenon
  <2> QED  BY <2>2, SerAssumption, Zenon DEF Ids, SerTypeOK, SerBasics
<1>1. CASE UNCHANGED <<closed, portClosed, call, pending, toModem, prompted, status>>
  BY <1>0, <1>1, Zenon DEF CallInHand
<1>2. CASE ModemAnswers
  <2>1. /\ UNCHANGED <<closed, portClosed, call, pending, status>>
        /\ toModem # <<>> /\ toModem' = Tail(toModem)
        /\ prompted' \subseteq prompted \cup {Head(toModem).of}
    BY <1>2, ModemFacts, Zenon DEF ModemAnswers, Reply
  <2>2. Head(toModem) = toModem[1] /\ 1 \in 1 .. Len(toModem)
        /\ Len(toModem') = Len(toModem) - 1
        /\ \A i \in 1 .. Len(toModem') : toModem'[i] = toModem[i + 1]
             /\ i + 1 \in 1 .. Len(toModem)
    BY <2>1, TailFacts DEF SerTypeOK
  <2>3. \A i \in 1 .. Len(toModem') :
          toModem'[i].of <= call.id /\ (call.at \in {"write", "sendwrite"}
          => toModem'[i].of # call.id)
    BY <1>0, <2>2, Zenon DEF CallInHand
  <2>4. \A k \in prompted' : k <= call.id /\ (call.at \in {"write", "sendwrite"}
        => k # call.id)
    BY <1>0, <2>1, <2>2 DEF CallInHand
  <2> QED  BY <1>0, <2>1, <2>3, <2>4, Zenon DEF CallInHand
<1>3. CASE Unplug
  BY <1>0, <1>3, SerBooleans, Zenon DEF Unplug, CallInHand
<1>4. CASE ReaderEnds
  BY <1>0, <1>4, SerBooleans, Zenon DEF ReaderEnds, CallInHand
<1>5. CASE Begin
  <2>1. /\ call.at = "idle" /\ call'.id = call.id + 1 /\ call.id + 1 \in Ids
        /\ UNCHANGED <<closed, portClosed, toModem, prompted>>
    BY <1>0, <1>5 DEF Begin
  <2>2. call'.at = "idle" => pending' = 0
    BY <1>0, <1>5, <2>1 DEF Begin, CallInHand
  <2>3. call'.at # "idle" => pending' = call'.id
    BY <1>0, <1>5, <2>1, Zenon DEF Begin, CallInHand
  <2>4. \A k \in Ids : status'[k] = "noprompt" => portClosed
    BY <1>0, <1>5, <2>1, Zenon DEF Begin, CallInHand, SerTypeOK
  <2>5. \A i \in 1 .. Len(toModem) : toModem[i].of <= call.id + 1
        /\ toModem[i].of # call.id + 1
    BY <1>0 DEF CallInHand
  <2>6. \A k \in prompted : k <= call.id + 1 /\ k # call.id + 1
    BY <1>0 DEF CallInHand
  <2> QED  BY <1>0, <2>1, <2>2, <2>3, <2>4, <2>5, <2>6, Zenon DEF CallInHand
<1>6. ASSUME NEW s \in Results, call.at # "idle", Return(s),
             s = "noprompt" => portClosed', portClosed => portClosed',
             UNCHANGED <<closed, toModem, prompted>>
      PROVE  CallInHand'
  <2>1. /\ call' = [at |-> "idle", id |-> call.id] /\ pending' = 0 /\ status'[call.id] = s
        /\ \A k \in Ids : k # call.id => status'[k] = status[k]
    BY <1>6, ReturnFacts, Zenon
  <2>2. \A k \in Ids : status'[k] = "noprompt" => portClosed'
    BY <1>0, <1>6, <2>1, Zenon DEF CallInHand
  <2> QED  BY <1>0, <1>6, <2>1, <2>2, Zenon DEF CallInHand
<1>7. CASE WriteCommand
  <2>1. CASE Return("failed") /\ UNCHANGED toModem
    BY <1>6, <1>7, <2>1, Zenon DEF WriteCommand, Results
  <2>2. CASE /\ toModem' = Append(toModem, [kind |-> Written(call.at)[1], of |-> call.id])
             /\ call' = [call EXCEPT !.at = Written(call.at)[2]]
             /\ UNCHANGED <<pending, lines, status, left>>
    <3>1. /\ call.at # "idle" /\ call'.at \in Waiting /\ call'.id = call.id
          /\ UNCHANGED <<closed, portClosed, prompted>>
          /\ call.id \in Ids /\ [kind |-> Written(call.at)[1],
               of |-> call.id] \in [kind : {"cmd", "send", "pdu"}, of : Ids]
      BY <1>0, <1>7, <2>2, WrittenFacts, Zenon DEF WriteCommand, Waiting, CallInHand
    <3>2. \A i \in 1 .. Len(toModem') : toModem'[i].of <= call.id
      BY <1>0, <2>2, <3>1, AppendFacts DEF CallInHand, SerTypeOK
    <3>3. call'.at \notin {"idle", "write", "sendwrite"}
      BY <3>1, Zenon DEF Waiting
    <3> QED  BY <1>0, <2>2, <3>1, <3>2, <3>3, Zenon DEF CallInHand
  <2> QED  BY <1>7, <2>1, <2>2, Zenon DEF WriteCommand
<1>8. CASE TakeLine
  <2>1. /\ call.at # "idle" /\ UNCHANGED <<closed, portClosed, toModem, prompted>>
        /\ call.at \in Waiting
        /\ Head(lines).kind \in Kinds
    <3>1. lines \in Seq(Line) /\ lines # <<>>
      BY <1>8, Zenon DEF TakeLine, SerTypeOK
    <3>2. Head(lines) \in Line
      BY <3>1, TailFacts, Zenon
    <3> QED  BY <1>8, <3>2, Zenon DEF TakeLine, Waiting, Line
  <2>2. ASSUME NEW o \in {"done", "failed"}, Return(o) PROVE CallInHand'
    BY <1>6, <2>1, <2>2, Zenon DEF Results
  <2>3. ASSUME NEW o \in {"pduwrite", call.at}, call' = [call EXCEPT !.at = o],
               UNCHANGED <<pending, status>>
        PROVE  CallInHand'
    <3>1. call'.at \notin {"idle", "write", "sendwrite"} /\ call'.id = call.id
      BY <1>0, <2>1, <2>3, Zenon DEF Waiting
    <3> QED  BY <1>0, <2>1, <2>3, <3>1, Zenon DEF CallInHand
  <2> QED  BY <1>8, <2>1, <2>2, <2>3, OutcomeFacts, Zenon DEF TakeLine
<1>9. CASE Timeout
  BY <1>6, <1>9, Zenon DEF Timeout, TimedOut, Results
<1>10. CASE SeesClosed
  BY <1>6, <1>10, Zenon DEF SeesClosed, Results
<1> QED
  BY <1>1, <1>2, <1>3, <1>4, <1>5, <1>7, <1>8, <1>9, <1>10, Zenon
     DEF SerNext, Reader, Caller, ModemNotifies, ReaderScan, ReaderDeliver, ReaderUrc,
     TakeUrc

(* Every step keeps the newest notification. *)
LEMMA UrcKept ==
  ASSUME SerTypeOK, SerBasics, UrcInv, SerNext
  PROVE  UrcInv'
<1> USE DEF modemVars, callVars, readerVars
<1>1. CASE UNCHANGED <<rdr, urcs, taken>>
  BY <1>1, Zenon DEF UrcInv
<1>2. CASE ReaderScan
  BY <1>2, Zenon DEF ReaderScan, UrcInv
<1>3. CASE ReaderDeliver
  BY <1>3, Zenon DEF ReaderDeliver, SerBasics, LineInHand, UrcInv, SerTypeOK
<1>4. CASE ReaderUrc
  <2>1. CASE rdr'.at # "scan"
    BY <2>1, Zenon DEF UrcInv
  <2>2. CASE rdr'.at = "scan"
    <3>1. /\ rdr.line.of \in 1 .. MaxUrcs /\ urcs' = Append(urcs, rdr.line.of)
          /\ rdr'.line = rdr.line
          /\ urcs \in Seq(1 .. MaxUrcs)
      BY <1>4, <2>2, Zenon DEF ReaderUrc, SerBasics, LineInHand, SerTypeOK
    <3>2. urcs'[Len(urcs) + 1] = rdr.line.of /\ Len(urcs) + 1 \in 1 .. Len(urcs')
          /\ DOMAIN urcs' = 1 .. Len(urcs')
      BY <3>1, AppendFacts, LenFacts
    <3>3. rdr.line.of \in Range(urcs')
      BY <3>2, Zenon DEF Range
    <3> QED  BY <3>1, <3>3, Zenon DEF UrcInv
  <2> QED  BY <2>1, <2>2, Zenon
<1>5. CASE ReaderEnds
  BY <1>5, Zenon DEF ReaderEnds, UrcInv, SerTypeOK
<1>6. CASE TakeUrc
  <2>1. /\ urcs \in Seq(1 .. MaxUrcs) /\ urcs # <<>> /\ urcs' = Tail(urcs)
        /\ taken' = taken \cup {Head(urcs)} /\ UNCHANGED rdr
    BY <1>6, Zenon DEF TakeUrc, SerTypeOK
  <2>2. /\ Len(urcs) \in Nat /\ Head(urcs) = urcs[1] /\ Len(Tail(urcs)) = Len(urcs) - 1
        /\ DOMAIN urcs = 1 .. Len(urcs) /\ DOMAIN Tail(urcs) = 1 .. Len(urcs) - 1
        /\ \A i \in 1 .. Len(urcs) - 1 : Tail(urcs)[i] = urcs[i + 1]
    BY <2>1, TailFacts, LenFacts, Zenon
  <2>3. ASSUME NEW i \in 1 .. Len(urcs)
        PROVE  urcs[i] = Head(urcs) \/ urcs[i] \in Range(Tail(urcs))
    <3>1. CASE i = 1
      BY <2>2, <3>1, Zenon
    <3>2. CASE i # 1
      <4>1. i - 1 \in 1 .. Len(urcs) - 1 /\ (i - 1) + 1 = i
        BY <2>2, <3>2
      <4>2. Tail(urcs)[i - 1] = urcs[i]
        BY <2>2, <4>1, Zenon
      <4> QED  BY <2>2, <4>1, <4>2, Zenon DEF Range
    <3> QED  BY <3>1, <3>2, Zenon
  <2>4. taken \cup Range(urcs) \subseteq taken' \cup Range(urcs')
    BY <2>1, <2>2, <2>3 DEF Range
  <2> QED  BY <2>1, <2>4, Zenon DEF UrcInv
<1> QED
  BY <1>1, <1>2, <1>3, <1>4, <1>5, <1>6, Zenon DEF SerNext, Reader, Caller, ModemAnswers,
     ModemNotifies, Unplug, Begin, WriteCommand, TakeLine, Timeout, SeesClosed

(* The modem answers the one line that was written, for the call that waits. *)
LEMMA ModemInStep ==
  ASSUME SerTypeOK, SerBasics, InStep, ModemAnswers, left'["garbled"] = left["garbled"]
  PROVE  InStep'
<1> USE DEF callVars, readerVars
<1>0. /\ UNCHANGED <<call, rdr, lines, mixed, status, portClosed>> /\ ~portClosed
      /\ toModem \in Seq([kind : {"cmd", "send", "pdu"}, of : Ids]) /\ toModem # <<>>
      /\ toModem' = Tail(toModem)
      /\ port \in Seq(Line) /\ lines \in Seq(Line) /\ left["garbled"] \in Nat
      /\ "garbled" \in SerFaults
  BY Zenon DEF ModemAnswers, SerTypeOK, SerFaults
<1>1. call.at \in Waiting
  BY <1>0, Zenon DEF InStep, Clean, NothingComing, Waiting, SerTypeOK, Waits
<1>2. InOrder
  BY <1>1, Zenon DEF InStep
<1>3. /\ Len(toModem) = 1 /\ Head(toModem) = toModem[1] /\ Head(toModem).of = call.id
      /\ call.id \in Ids /\ toModem' = <<>>
      /\ call.at = "prompt" <=> Head(toModem).kind = "send"
  <2>1. Len(toModem) \in Nat /\ Len(toModem) # 0 /\ Len(toModem) <= 1
    <3>1. Len(toModem) <= 1
      BY <1>2, Zenon DEF InOrder, WrittenInOrder
    <3> QED  BY <1>0, <3>1, LenFacts, Zenon
  <2>2. Len(toModem) = 1 /\ Head(toModem) = toModem[1] /\ Len(Tail(toModem)) = 0
        /\ Tail(toModem) \in Seq([kind : {"cmd", "send", "pdu"}, of : Ids])
    <3> DEFINE S == [kind : {"cmd", "send", "pdu"}, of : Ids]
    <3>1. toModem \in Seq(S) /\ toModem # <<>>
      BY <1>0, Zenon
    <3> HIDE DEF S
    <3>2. Head(toModem) = toModem[1] /\ Len(Tail(toModem)) = Len(toModem) - 1
          /\ Tail(toModem) \in Seq(S)
      BY <3>1, TailFacts, Zenon
    <3>3. Len(toModem) = 1 /\ Len(toModem) - 1 = 0
      <4>1. \A n \in Nat : n # 0 /\ n <= 1 => n = 1 /\ n - 1 = 0
        OBVIOUS
      <4> QED  BY <2>1, <4>1, Zenon
    <3> QED  BY <3>2, <3>3, Zenon DEF S
  <2>3. 1 \in 1 .. Len(toModem)
    BY <2>2
  <2>4. Head(toModem).of = call.id /\ (call.at = "prompt" <=> Head(toModem).kind = "send")
    BY <1>2, <2>2, <2>3, Zenon DEF InOrder, WrittenInOrder
  <2>5. Tail(toModem) = <<>>
    BY <2>2, LenFacts, Zenon
  <2> QED  BY <1>0, <2>2, <2>4, <2>5, ModemFacts, Zenon
<1>4. PortQuiet /\ rdr.at # "deliver"
  BY <1>0, <1>2, Zenon DEF InOrder, PortInOrder, ReaderInOrder, PortQuiet
<1>5. lines = <<>>
  <2>1. Len(lines) \in Nat /\ \A i \in 1 .. Len(lines) : FALSE
    BY <1>0, <1>2, LenFacts, Zenon DEF InOrder, LinesInOrder
  <2> QED  BY <1>0, <2>1, LenFacts
<1>6. Len(toModem') = 0 /\ Len(lines') = 0
  BY <1>0, <1>3, <1>5, Zenon
<1>7. WrittenInOrder' /\ ReaderInOrder' /\ LinesInOrder'
  BY <1>0, <1>4, <1>6 DEF WrittenInOrder, ReaderInOrder, LinesInOrder
<1>8. PromptEndsLine => NoPromptIsTrue'
  BY <1>0, Zenon DEF SerBasics, CallInHand, NoPromptIsTrue
<1>9. CASE port' = port /\ prompted' = prompted
  <2>1. PortInOrder'
    BY <1>4, <1>9, Zenon DEF PortInOrder, PortQuiet
  <2>2. PromptPresent => PromptPresent'
    BY <1>0, <1>9, Zenon DEF PromptPresent
  <2> QED  BY <1>0, <1>1, <1>7, <1>8, <1>9, <2>1, <2>2, Zenon DEF InStep, InOrder, Waiting
<1>10. CASE Reply(Head(toModem).of, Head(toModem).kind)
  <2> PICK r \in Answers :
         /\ Answer(Head(toModem).of, r)
         /\ prompted' = IF r = <<"prompt">> THEN prompted \cup {Head(toModem).of}
              ELSE prompted
         /\ r = <<"garbled", "ok">> => left'["garbled"] < left["garbled"]
         /\ Head(toModem).kind = "send" => r \in {<<"prompt">>, <<"error">>, <<"cms">>}
         /\ Head(toModem).kind # "send" => r # <<"prompt">>
    BY <1>10, Zenon DEF Reply
  <2>1. /\ Len(port) \in Nat /\ Len(r) \in {1, 2} /\ Len(port') = Len(port) + Len(r)
        /\ \A i \in 1 .. Len(port) : port'[i] = port[i]
        /\ \A i \in 1 .. Len(r) : port'[Len(port) + i] = [kind |-> r[i], of |-> call.id]
        /\ \A i \in 1 .. Len(port') : i \in 1 .. Len(port)
             \/ \E j \in 1 .. Len(r) : i = Len(port) + j
    BY <1>0, <1>3, AnswerFacts, Zenon
  <2>2. /\ \A i \in 1 .. Len(r) : r[i] \in Closing => i = Len(r)
        /\ \A i \in 1 .. Len(r) : r[i] # "garbled"
        /\ call.at = "prompt" => \A i \in 1 .. Len(r) : r[i] \in Closing
    BY <1>0, <1>3, AnswerShape
  <2>3. PortInOrder'
    <3> SUFFICES ASSUME NEW i \in 1 .. Len(port'), Solicited(port'[i])
                 PROVE  /\ port'[i].of = call.id /\ port'[i].kind # "garbled"
                        /\ call.at = "prompt" => port'[i].kind \in Closing
                        /\ port'[i].kind \in Closing
                             => \A j \in i + 1 .. Len(port') : ~Solicited(port'[j])
      BY <1>0, <1>3, Zenon DEF PortInOrder, Solicited
    <3>1. i \notin 1 .. Len(port)
      BY <1>4, <2>1, Zenon DEF PortQuiet
    <3>2. PICK n \in 1 .. Len(r) : i = Len(port) + n
      BY <2>1, <3>1, Zenon
    <3>3. port'[i].of = call.id /\ port'[i].kind = r[n]
      <4>1. port'[Len(port) + n] = [kind |-> r[n], of |-> call.id]
        BY <2>1, Zenon
      <4> QED  BY <3>2, <4>1
    <3>4. ASSUME r[n] \in Closing, NEW j \in i + 1 .. Len(port') PROVE FALSE
      BY <2>1, <2>2, <3>2, <3>4
    <3> QED  BY <2>2, <3>3, <3>4, Zenon
  <2>4. call.at = "prompt" /\ call.id \in prompted' => PromptPresent'
    <3>1. CASE r = <<"prompt">>
      <4>1. Len(r) = 1 /\ r[1] = "prompt"
        BY <3>1, Zenon
      <4>2. port'[Len(port) + 1].kind = "prompt" /\ Len(port) + 1 \in 1 .. Len(port')
        BY <2>1, <4>1
      <4> QED  BY <4>2, Zenon DEF PromptPresent
    <3>2. CASE r # <<"prompt">> /\ call.at = "prompt" /\ call.id \in prompted'
      <4>1. PromptPresent
        BY <3>2, Zenon DEF InStep
      <4>2. FALSE
        BY <1>4, <1>5, <4>1 DEF PromptPresent, PortQuiet, Solicited
      <4> QED  BY <4>2, Zenon
    <3> QED  BY <3>1, <3>2, Zenon
  <2> QED  BY <1>0, <1>1, <1>7, <1>8, <2>3, <2>4, Zenon DEF InStep, InOrder, Waiting
<1> QED  BY <1>9, <1>10, ModemFacts, Zenon

(* A notification is nobody's answer. *)
LEMMA NotifyInStep ==
  ASSUME SerTypeOK, InStep, ModemNotifies, [kind |-> "urc", of |-> urcsSent'] \in Line
  PROVE  InStep'
<1> USE DEF callVars, readerVars
<1>0. UNCHANGED <<toModem, prompted, call, rdr, lines, mixed, status, portClosed>>
  BY Zenon DEF ModemNotifies
<1>1. /\ Len(port) \in Nat /\ Len(port') = Len(port) + 1
      /\ \A i \in 1 .. Len(port) : port'[i] = port[i]
      /\ \A i \in 1 .. Len(port') : i \in 1 .. Len(port) \/ i = Len(port) + 1
      /\ ~Solicited(port'[Len(port) + 1])
  <2>1. port \in Seq(Line) /\ port' = Append(port, [kind |-> "urc", of |-> urcsSent'])
    BY Zenon DEF ModemNotifies, SerTypeOK
  <2>2. /\ Len(port) \in Nat /\ Len(port') = Len(port) + 1
        /\ \A i \in 1 .. Len(port) : port'[i] = port[i]
        /\ \A i \in 1 .. Len(port) + 1 : i \in 1 .. Len(port) \/ i = Len(port) + 1
        /\ port'[Len(port) + 1] = [kind |-> "urc", of |-> urcsSent']
    BY <2>1, AppendFacts
  <2>3. port'[Len(port) + 1].kind = "urc"
    BY <2>2
  <2> QED  BY <2>2, <2>3, Zenon DEF Solicited
<1>2. PortQuiet => PortQuiet'
  BY <1>1, Zenon DEF PortQuiet, Solicited
<1>3. PortInOrder => PortInOrder'
  <2> SUFFICES ASSUME PortInOrder, NEW i \in 1 .. Len(port'), Solicited(port'[i])
               PROVE  /\ port'[i].of = call.id /\ port'[i].kind # "garbled"
                      /\ toModem = <<>>
                      /\ call.at = "prompt" => port'[i].kind \in Closing
                      /\ port'[i].kind \in Closing
                           => \A j \in i + 1 .. Len(port') : ~Solicited(port'[j])
    BY <1>0, Zenon DEF PortInOrder, Solicited
  <2>1. i \in 1 .. Len(port) /\ port'[i] = port[i]
    BY <1>1, Zenon
  <2>2. Solicited(port[i])
    BY <2>1, Zenon
  <2>3. ASSUME port[i].kind \in Closing, NEW j \in i + 1 .. Len(port')
        PROVE  ~Solicited(port'[j])
    <3>1. CASE j = Len(port) + 1
      BY <1>1, <3>1, Zenon
    <3>2. CASE j # Len(port) + 1
      <4>1. j \in i + 1 .. Len(port) /\ j \in 1 .. Len(port)
        BY <1>1, <2>1, <3>2
      <4>2. ~Solicited(port[j]) /\ port'[j] = port[j]
        BY <1>1, <2>1, <2>2, <2>3, <4>1, Zenon DEF PortInOrder
      <4> QED  BY <4>2, Zenon
    <3> QED  BY <3>1, <3>2, Zenon
  <2> QED  BY <2>1, <2>2, <2>3, Zenon DEF PortInOrder
<1>4. PromptPresent => PromptPresent'
  BY <1>0, <1>1 DEF PromptPresent
<1>5. NothingComing => NothingComing'
  BY <1>0, <1>2, Zenon DEF NothingComing
<1>6. (WrittenInOrder => WrittenInOrder') /\ (ReaderInOrder => ReaderInOrder')
  BY <1>0, <1>2, Zenon DEF WrittenInOrder, ReaderInOrder
<1>7. LinesInOrder => LinesInOrder'
  BY <1>0, <1>5, Zenon DEF LinesInOrder
<1>8. InOrder => InOrder'
  BY <1>3, <1>6, <1>7, Zenon DEF InOrder
<1>9. Clean => Clean'
  BY <1>0, <1>5, Zenon DEF Clean
<1> QED  BY <1>0, <1>4, <1>8, <1>9, Zenon DEF InStep, NoPromptIsTrue

(* The reader takes a line from the port: what was its first line is in its hands. *)
LEMMA ScanInStep ==
  ASSUME SerTypeOK, SerBasics, InStep, ReaderScan
  PROVE  InStep'
<1> USE DEF callVars, readerVars
<1>0. /\ UNCHANGED <<toModem, prompted, call, lines, mixed, status, portClosed>>
      /\ rdr.at = "scan"
  BY Zenon DEF ReaderScan
<1>1. /\ Len(port) \in Nat /\ Len(port) # 0 /\ Len(port') = Len(port) - 1
      /\ Head(port) = port[1] /\ 1 \in 1 .. Len(port)
      /\ \A i \in 1 .. Len(port') : port'[i] = port[i + 1] /\ i + 1 \in 1 .. Len(port)
      /\ \A i \in 1 .. Len(port) : i # 1 => i - 1 \in 1 .. Len(port')
           /\ port'[i - 1] = port[i]
  <2>1. port \in Seq(Line) /\ port # <<>> /\ port' = Tail(port)
    BY Zenon DEF ReaderScan, LineArrived, SerTypeOK
  <2>2. /\ Len(port) \in Nat /\ Len(port) # 0 /\ Len(port') = Len(port) - 1
        /\ Head(port) = port[1]
        /\ \A i \in 1 .. Len(port) - 1 : port'[i] = port[i + 1] /\ i + 1 \in 1 .. Len(port)
    BY <2>1, TailFacts, Zenon
  <2>3. ASSUME NEW i \in 1 .. Len(port), i # 1
        PROVE  i - 1 \in 1 .. Len(port') /\ port'[i - 1] = port[i]
    <3>1. i - 1 \in 1 .. Len(port) - 1 /\ (i - 1) + 1 = i
      BY <2>2, <2>3
    <3> QED  BY <2>2, <3>1, Zenon
  <2> QED  BY <2>2, <2>3
<1>2. PortQuiet => PortQuiet' /\ ~Solicited(port[1])
  BY <1>1 DEF PortQuiet, Solicited
<1>3. PortInOrder => PortInOrder'
  <2> SUFFICES ASSUME PortInOrder, NEW i \in 1 .. Len(port'), Solicited(port'[i])
               PROVE  /\ port'[i].of = call.id /\ port'[i].kind # "garbled"
                      /\ toModem = <<>>
                      /\ call.at = "prompt" => port'[i].kind \in Closing
                      /\ port'[i].kind \in Closing
                           => \A j \in i + 1 .. Len(port') : ~Solicited(port'[j])
    BY <1>0, Zenon DEF PortInOrder, Solicited
  <2>1. i + 1 \in 1 .. Len(port) /\ port'[i] = port[i + 1]
    BY <1>1, Zenon
  <2>2. Solicited(port[i + 1])
    BY <2>1, Zenon
  <2>3. ASSUME port[i + 1].kind \in Closing, NEW j \in i + 1 .. Len(port')
        PROVE  ~Solicited(port'[j])
    <3>1. j \in 1 .. Len(port') /\ j + 1 \in (i + 1) + 1 .. Len(port)
      BY <1>1
    <3>2. port'[j] = port[j + 1] /\ ~Solicited(port[j + 1])
      BY <1>1, <2>1, <2>2, <2>3, <3>1, Zenon DEF PortInOrder
    <3> QED  BY <3>2, Zenon
  <2> QED  BY <2>1, <2>2, <2>3, Zenon DEF PortInOrder
<1>4. WrittenInOrder => WrittenInOrder'
  BY <1>0, Zenon DEF WrittenInOrder
<1>5. CASE ~Solicited(port[1]) \/ pending = 0
  <2>1. rdr'.at # "deliver"
    BY <1>0, <1>1, <1>5, Zenon DEF ReaderScan, Solicited
  <2>2. ReaderInOrder' /\ (NothingComing => NothingComing')
    BY <1>0, <1>2, <2>1, Zenon DEF ReaderInOrder, NothingComing
  <2>3. LinesInOrder => LinesInOrder'
    BY <1>0, <2>2, Zenon DEF LinesInOrder
  <2>4. call.at = "prompt" => ~Solicited(port[1])
    BY <1>5, SerAssumption DEF SerBasics, CallInHand, Ids
  <2>5. call.at = "prompt" /\ PromptPresent => PromptPresent'
    <3> SUFFICES ASSUME call.at = "prompt", PromptPresent PROVE PromptPresent'
      BY Zenon
    <3>1. CASE \E i \in 1 .. Len(port) : port[i].kind = "prompt"
      <4> PICK i \in 1 .. Len(port) : port[i].kind = "prompt"
        BY <3>1, Zenon
      <4>1. i # 1
        BY <2>4, Zenon DEF Solicited
      <4> QED  BY <1>1, <4>1 DEF PromptPresent
    <3> QED  BY <1>0, <3>1, Zenon DEF PromptPresent
  <2>6. Clean => Clean'
    BY <1>0, <2>2, Zenon DEF Clean
  <2> QED  BY <1>0, <1>3, <1>4, <2>2, <2>3, <2>5, <2>6, SMTT(30) DEF InStep, InOrder,
              NoPromptIsTrue
<1>6. CASE Solicited(port[1]) /\ pending # 0
  <2>1. rdr' = [at |-> "deliver", line |-> port[1], for |-> call.id] /\ ~NothingComing
        /\ call.at # "idle"
    BY <1>1, <1>6, Zenon DEF ReaderScan, Solicited, NothingComing, PortQuiet, SerBasics,
       CallInHand
  <2>2. call.at \in {"idle", "write", "sendwrite"} => portClosed
    BY <2>1, Zenon DEF InStep, Clean
  <2>3. call.at # "pduwrite"
    BY <2>1, Zenon DEF InStep, Clean
  <2>4. ASSUME InOrder PROVE InOrder'
    <3>1. ReaderInOrder'
      <4>1. /\ port[1].of = call.id /\ port[1].kind # "garbled" /\ toModem = <<>>
            /\ call.at = "prompt" => port[1].kind \in Closing
            /\ port[1].kind \in Closing => \A j \in 1 + 1 .. Len(port) : ~Solicited(port[j])
        BY <1>1, <1>6, <2>4, Zenon DEF InOrder, PortInOrder
      <4>2. ASSUME port[1].kind \in Closing, NEW i \in 1 .. Len(port')
            PROVE  ~Solicited(port'[i])
        <5>1. i + 1 \in 1 + 1 .. Len(port) /\ port'[i] = port[i + 1]
          BY <1>1
        <5> QED  BY <4>1, <4>2, <5>1, Zenon
      <4> QED  BY <1>0, <2>1, <4>1, <4>2, Zenon DEF ReaderInOrder, PortQuiet, Solicited
    <3>2. LinesInOrder'
      BY <1>0, <2>1, <2>4, Zenon DEF InOrder, LinesInOrder
    <3> QED  BY <1>3, <1>4, <2>4, <3>1, <3>2, Zenon DEF InOrder
  <2>5. PromptPresent => PromptPresent'
    <3>1. ASSUME NEW i \in 1 .. Len(port), port[i].kind = "prompt" PROVE PromptPresent'
      <4>1. CASE i = 1
        BY <2>1, <3>1, <4>1, Zenon DEF PromptPresent
      <4>2. CASE i # 1
        BY <1>1, <3>1, <4>2 DEF PromptPresent
      <4> QED  BY <4>1, <4>2, Zenon
    <3> QED  BY <1>0, <3>1, Zenon DEF PromptPresent
  <2> QED  BY <1>0, <2>2, <2>3, <2>4, <2>5, Zenon DEF InStep, NoPromptIsTrue
<1> QED  BY <1>5, <1>6, Zenon

(* The reader hands the line to the command it read it for, if that is still pending. *)
LEMMA DeliverInStep ==
  ASSUME SerTypeOK, SerBasics, InStep, ReaderDeliver
  PROVE  InStep'
<1> USE DEF modemVars
<1>0. /\ UNCHANGED <<toModem, port, prompted, call, mixed, status, portClosed>>
      /\ rdr.at = "deliver" /\ rdr'.at = "scan"
      /\ ~NothingComing
  BY Zenon DEF ReaderDeliver, SerTypeOK, NothingComing
<1>1. CASE call.at \notin Waiting
  <2>1. call.at \in {"idle", "write", "sendwrite"} /\ portClosed
    BY <1>0, <1>1, Zenon DEF InStep, Clean, Waiting, SerTypeOK, Waits
  <2> QED  BY <1>0, <1>1, <2>1, Zenon DEF InStep, NoPromptIsTrue, Waiting
<1>2. CASE call.at \in Waiting
  <2>0. InOrder /\ call.at # "idle" /\ rdr.for = call.id /\ lines \in Seq(Line)
        /\ rdr.line \in Line
    BY <1>0, <1>2, Zenon DEF InStep, InOrder, ReaderInOrder, Waiting, SerTypeOK
  <2>1. \A i \in 1 .. Len(lines) : lines[i].kind \notin Closing
    BY <1>0, <2>0, SMTT(30) DEF InOrder, LinesInOrder
  <2>2. /\ WrittenInOrder' /\ PortInOrder' /\ ReaderInOrder'
    BY <1>0, <2>0, Zenon DEF InOrder, WrittenInOrder, PortInOrder, ReaderInOrder
  <2>3. CASE Len(lines) < LineCap
    <3>1. /\ lines' = Append(lines, rdr.line) /\ Len(lines) \in Nat
          /\ Len(lines') = Len(lines) + 1 /\ lines'[Len(lines) + 1] = rdr.line
          /\ \A i \in 1 .. Len(lines) : lines'[i] = lines[i]
          /\ \A i \in 1 .. Len(lines) + 1 : i \in 1 .. Len(lines) \/ i = Len(lines) + 1
      BY <2>0, <2>3, AppendFacts DEF ReaderDeliver
    <3>2. ASSUME NEW i \in 1 .. Len(lines)
          PROVE  /\ lines'[i].of = call.id /\ lines'[i].kind # "garbled" /\ toModem = <<>>
                 /\ call.at = "prompt" => lines'[i].kind \in Closing
                 /\ lines'[i].kind \notin Closing
      BY <2>0, <2>1, <3>1, Zenon DEF InOrder, LinesInOrder
    <3>3. /\ rdr.line.of = call.id /\ rdr.line.kind # "garbled" /\ toModem = <<>>
          /\ call.at = "prompt" => rdr.line.kind \in Closing
          /\ rdr.line.kind \in Closing => NothingComing'
      BY <1>0, <2>0, Zenon DEF InOrder, ReaderInOrder, NothingComing, PortQuiet, Solicited
    <3>4. LinesInOrder'
      BY <1>0, <3>1, <3>2, <3>3, SMTT(30) DEF LinesInOrder
    <3>5. PromptPresent => PromptPresent'
      BY <1>0, <3>1 DEF PromptPresent
    <3> QED  BY <1>0, <1>2, <2>2, <3>4, <3>5, Zenon DEF InStep, InOrder, NoPromptIsTrue,
                Waiting
  <2>4. CASE ~(Len(lines) < LineCap)
    <3>1. UNCHANGED lines
      BY <2>4, Zenon DEF ReaderDeliver
    <3>2. LinesInOrder'
      BY <1>0, <2>0, <2>1, <3>1, Zenon DEF InOrder, LinesInOrder
    <3>3. call.at # "prompt"
      <4>1. 1 \in 1 .. Len(lines)
        <5>1. Len(lines) \in Nat /\ LineCap \in Nat \ {0}
          BY <2>0, SerAssumption, LenFacts, Zenon
        <5> QED  BY <2>4, <5>1
      <4> QED  BY <2>0, <2>1, <4>1, Zenon DEF InOrder, LinesInOrder
    <3> QED  BY <1>0, <1>2, <2>2, <3>2, <3>3, Zenon DEF InStep, InOrder, NoPromptIsTrue,
                Waiting
  <2> QED  BY <2>3, <2>4, Zenon
<1> QED  BY <1>1, <1>2, Zenon

(* Steps that touch no line of an answer. *)
LEMMA AsideInStep ==
  ASSUME SerTypeOK, SerBasics, InStep, Unplug \/ ReaderUrc \/ ReaderEnds \/ TakeUrc
         \/ UNCHANGED sVars
  PROVE  InStep'
<1> USE DEF modemVars, callVars, readerVars
<1>0. UNCHANGED <<toModem, port, prompted, call, lines, mixed, status>>
  BY Zenon DEF Unplug, ReaderUrc, ReaderEnds, TakeUrc, sVars
<1>1. portClosed => portClosed'
  BY Zenon DEF Unplug, ReaderUrc, ReaderEnds, TakeUrc, sVars
<1>2. UNCHANGED rdr \/ (rdr.at # "deliver" /\ rdr'.at # "deliver")
  BY Zenon DEF Unplug, ReaderUrc, ReaderEnds, TakeUrc, sVars, SerTypeOK
<1>3. PortQuiet' = PortQuiet /\ WrittenInOrder' = WrittenInOrder
      /\ PortInOrder' = PortInOrder
  BY <1>0, Zenon DEF PortQuiet, WrittenInOrder, PortInOrder
<1>4. (ReaderInOrder => ReaderInOrder') /\ (NothingComing => NothingComing')
      /\ (PromptPresent => PromptPresent')
  BY <1>0, <1>2, <1>3, Zenon DEF ReaderInOrder, NothingComing, PromptPresent
<1>5. LinesInOrder => LinesInOrder'
  BY <1>0, <1>4, Zenon DEF LinesInOrder
<1>6. (InOrder => InOrder') /\ (Clean => Clean')
  BY <1>0, <1>3, <1>4, <1>5, Zenon DEF InOrder, Clean
<1> QED  BY <1>0, <1>1, <1>4, <1>6, Zenon DEF InStep, NoPromptIsTrue

(* A call that returns leaves nothing on its way, or a closed port. *)
LEMMA ReturnInStep ==
  ASSUME SerTypeOK, SerBasics, InStep, NEW s \in Results, call.at # "idle", Return(s),
         UNCHANGED <<toModem, port, rdr, prompted>>, ~mixed',
         portClosed' \/ NothingComing,
         PromptEndsLine /\ s = "noprompt" => call.id \notin prompted
  PROVE  InStep'
<1>1. /\ call' = [at |-> "idle", id |-> call.id] /\ lines' = <<>> /\ status'[call.id] = s
      /\ \A k \in Ids : k # call.id => status'[k] = status[k]
  BY ReturnFacts, Zenon
<1>2. portClosed' \/ Clean'
  BY <1>1, Zenon DEF Clean, NothingComing, PortQuiet, Solicited
<1>3. PromptEndsLine => NoPromptIsTrue'
  BY <1>1, Zenon DEF InStep, NoPromptIsTrue
<1> QED  BY <1>1, <1>2, <1>3, Zenon DEF InStep, Waiting

(* The next command begins: nothing is on its way for it, and none was prompted. *)
LEMMA BeginInStep ==
  ASSUME SerTypeOK, SerBasics, InStep, Begin
  PROVE  InStep'
<1> USE DEF modemVars, readerVars
<1>1. /\ UNCHANGED <<toModem, port, rdr, prompted, mixed, portClosed>> /\ call.at = "idle"
      /\ call'.at \in {"idle", "write", "sendwrite"} /\ (lines' = <<>> \/ UNCHANGED lines)
  BY DEF Begin, SerTypeOK
<1>2. portClosed' \/ Clean'
  BY <1>1, Zenon DEF InStep, Clean, NothingComing, PortQuiet, Solicited
<1>3. \A k \in Ids : status'[k] = "noprompt" => status[k] = "noprompt"
  BY Zenon DEF Begin, SerTypeOK
<1>4. PromptEndsLine => NoPromptIsTrue'
  BY <1>1, <1>3, Zenon DEF InStep, NoPromptIsTrue
<1> QED  BY <1>1, <1>2, <1>4, Zenon DEF InStep, Waiting

(* A command is written: it is all that is on its way. *)
LEMMA WriteInStep ==
  ASSUME SerTypeOK, SerBasics, InStep, WriteCommand
  PROVE  InStep'
<1> USE DEF modemVars, readerVars
<1>0. call.at \in {"write", "sendwrite", "pduwrite"} /\ (portClosed \/ Clean)
      /\ UNCHANGED <<port, rdr, prompted, mixed, portClosed>>
  BY Zenon DEF WriteCommand, InStep
<1>1. CASE Return("failed") /\ UNCHANGED toModem
  BY <1>0, <1>1, ReturnInStep, Zenon DEF Results, Clean, InStep
<1>2. CASE /\ ~portClosed
           /\ toModem' = Append(toModem, [kind |-> Written(call.at)[1], of |-> call.id])
           /\ call' = [call EXCEPT !.at = Written(call.at)[2]]
           /\ UNCHANGED <<pending, lines, status, left>>
  <2>1. toModem = <<>> /\ PortQuiet /\ rdr.at # "deliver" /\ lines = <<>>
    BY <1>0, <1>2, Zenon DEF Clean, NothingComing
  <2>2. /\ Written(call.at)[1] = (IF call.at = "write" THEN "cmd"
             ELSE IF call.at = "sendwrite" THEN "send" ELSE "pdu")
        /\ Written(call.at)[2] = (IF call.at = "write" THEN "answer"
             ELSE IF call.at = "sendwrite" THEN "prompt" ELSE "result")
    BY <1>0, WrittenFacts, Zenon
  <2>3. Len(toModem') = 1 /\ toModem'[1] = [kind |-> Written(call.at)[1], of |-> call.id]
        /\ \A i \in 1 .. Len(toModem') : i = 1
    BY <1>2, <2>1
  <2>4. call'.at = Written(call.at)[2] /\ call'.id = call.id
    BY <1>2, Zenon DEF SerTypeOK
  <2>5. WrittenInOrder'
    <3>1. toModem'[1].of = call'.id /\ (call'.at = "prompt" <=> toModem'[1].kind = "send")
      BY <1>0, <2>2, <2>3, <2>4, SMTT(30)
    <3> QED  BY <2>3, <3>1, SMTT(30) DEF WrittenInOrder
  <2>6. PortInOrder' /\ ReaderInOrder'
    BY <1>0, <2>1, Zenon DEF PortInOrder, ReaderInOrder, PortQuiet
  <2>7. LinesInOrder'
    <3>1. Len(lines') = 0
      BY <1>2, <2>1, Zenon
    <3> QED  BY <3>1 DEF LinesInOrder
  <2>8. call'.at = "prompt" => call.id \notin prompted
    BY <1>0, <2>2, <2>4, Zenon DEF SerBasics, CallInHand
  <2>9. call'.at \in Waiting
    BY <1>0, <2>2, <2>4, Zenon DEF Waiting
  <2> QED  BY <1>0, <1>2, <2>4, <2>5, <2>6, <2>7, <2>8, <2>9 DEF InStep, InOrder, Waiting,
              NoPromptIsTrue
<1> QED  BY <1>1, <1>2, Zenon DEF WriteCommand

(* A line is taken from linesCh: it is of this command, and nothing follows it if it
   ends the wait. *)
LEMMA TakeInStep ==
  ASSUME SerTypeOK, SerBasics, InStep, TakeLine
  PROVE  InStep'
<1> USE DEF modemVars, readerVars
<1>0. /\ call.at \in Waiting /\ lines \in Seq(Line) /\ lines # <<>> /\ call.at # "idle"
      /\ UNCHANGED <<toModem, port, rdr, prompted, portClosed>>
  BY Zenon DEF TakeLine, SerTypeOK, Waiting
<1>1. /\ Len(lines) \in Nat /\ Len(lines) # 0 /\ Head(lines) = lines[1]
      /\ Head(lines) \in Line
      /\ Tail(lines) \in Seq(Line) /\ Len(Tail(lines)) = Len(lines) - 1
      /\ \A i \in 1 .. Len(lines) - 1 : Tail(lines)[i] = lines[i + 1]
           /\ i + 1 \in 1 .. Len(lines)
  BY <1>0, TailFacts, Zenon
<1>2. InOrder
  BY <1>0, Zenon DEF InStep
<1>3. /\ lines[1].of = call.id /\ lines[1].kind # "garbled" /\ toModem = <<>>
      /\ call.at = "prompt" => lines[1].kind \in Closing
      /\ lines[1].kind \in Closing => 1 = Len(lines) /\ NothingComing
  <2>1. 1 \in 1 .. Len(lines)
    BY <1>1
  <2> QED  BY <1>2, <2>1, Zenon DEF InOrder, LinesInOrder
<1>4. ~mixed'
  BY <1>1, <1>3, Zenon DEF TakeLine, InStep
<1>5. lines[1].kind \in Closing => Tail(lines) = <<>>
  <2> SUFFICES ASSUME lines[1].kind \in Closing PROVE Tail(lines) = <<>>
    BY Zenon
  <2>1. Len(lines) = 1 /\ Len(lines) - 1 = 0
    BY <1>3
  <2> QED  BY <1>1, <2>1, LenFacts, Zenon
<1>6. Head(lines).kind \in Kinds
  BY <1>1, Zenon DEF Line
<1> DEFINE o == Outcome(call.at, Head(lines).kind)
<1>7. /\ o \in {"done", "failed", "pduwrite", call.at}
      /\ o = "pduwrite" <=> call.at = "prompt" /\ lines[1].kind = "prompt"
      /\ o \in {"done", "failed"} => lines[1].kind \in Closing \cup {"garbled"}
      /\ o \notin {"done", "failed", "pduwrite"} => o = call.at
  BY <1>0, <1>1, <1>6, OutcomeFacts
<1>8. \/ o \in {"done", "failed"} /\ Return(o)
      \/ /\ o \notin {"done", "failed"}
         /\ call' = [call EXCEPT !.at = o] /\ lines' = Tail(lines)
         /\ UNCHANGED <<pending, status>>
  BY Zenon DEF TakeLine
<1> HIDE DEF o
<1>9. CASE o \in {"done", "failed"} /\ Return(o)
  <2>1. NothingComing /\ o \in Results /\ o # "noprompt"
    BY <1>3, <1>7, <1>9, Zenon DEF Results
  <2> QED  BY <1>0, <1>4, <1>9, <2>1, ReturnInStep, Zenon
<1>10. CASE o = "pduwrite" /\ call' = [call EXCEPT !.at = o] /\ lines' = Tail(lines)
            /\ UNCHANGED <<pending, status>>
  <2>1. lines[1].kind \in Closing /\ call'.at = "pduwrite"
    BY <1>7, <1>10, Zenon DEF Closing, SerTypeOK
  <2>2. Clean'
    BY <1>0, <1>3, <1>5, <1>10, <2>1, Zenon DEF Clean, NothingComing, PortQuiet, Solicited
  <2> QED  BY <1>0, <1>4, <1>10, <2>1, <2>2, Zenon DEF InStep, Waiting, NoPromptIsTrue
<1>11. CASE o = call.at /\ o # "pduwrite" /\ call' = [call EXCEPT !.at = o]
            /\ lines' = Tail(lines) /\ UNCHANGED <<pending, status>>
  <2>1. call' = call
    BY <1>11, SMTT(30) DEF SerTypeOK
  <2>2. WrittenInOrder' /\ PortInOrder' /\ ReaderInOrder'
    BY <1>0, <1>2, <2>1, SMTT(30) DEF InOrder, WrittenInOrder, PortInOrder, ReaderInOrder,
       PortQuiet
  <2>3. LinesInOrder'
    <3> SUFFICES ASSUME NEW i \in 1 .. Len(lines')
                 PROVE  /\ lines'[i].of = call.id /\ lines'[i].kind # "garbled"
                        /\ toModem = <<>>
                        /\ call.at = "prompt" => lines'[i].kind \in Closing
                        /\ lines'[i].kind \in Closing => i = Len(lines') /\ NothingComing
      BY <1>0, <2>1, Zenon DEF LinesInOrder, NothingComing, PortQuiet, Solicited
    <3>1. i \in 1 .. Len(lines) - 1 /\ Len(lines') = Len(lines) - 1
          /\ lines'[i] = lines[i + 1] /\ i + 1 \in 1 .. Len(lines)
      BY <1>1, <1>11, Zenon
    <3>2. /\ lines[i + 1].of = call.id /\ lines[i + 1].kind # "garbled" /\ toModem = <<>>
          /\ call.at = "prompt" => lines[i + 1].kind \in Closing
          /\ lines[i + 1].kind \in Closing => i + 1 = Len(lines) /\ NothingComing
      BY <1>2, <3>1, SMTT(30) DEF InOrder, LinesInOrder
    <3>3. i + 1 = Len(lines) => i = Len(lines')
      <4>1. \A n \in Nat : i \in 1 .. n - 1 /\ i + 1 = n => i = n - 1
        OBVIOUS
      <4> QED  BY <1>1, <3>1, <4>1, Zenon
    <3> QED  BY <3>1, <3>2, <3>3, Zenon
  <2>4. ~(call.at = "prompt" /\ call.id \in prompted)
    <3> SUFFICES ASSUME call.at = "prompt", call.id \in prompted PROVE FALSE
      BY Zenon
    <3>1. PromptPresent /\ lines[1].kind # "prompt" /\ 1 = Len(lines) /\ NothingComing
      BY <1>3, <1>7, <1>11, Zenon DEF InStep
    <3>2. \A i \in 1 .. Len(lines) : i = 1
      <4>1. \A i \in 1 .. 1 : i = 1
        OBVIOUS
      <4> QED  BY <3>1, <4>1, Zenon
    <3> QED  BY <3>1, <3>2, Zenon DEF PromptPresent, NothingComing, PortQuiet, Solicited
  <2> QED  BY <1>0, <1>4, <1>11, <2>1, <2>2, <2>3, <2>4, Zenon DEF InStep, InOrder,
              NoPromptIsTrue, Waiting
<1> QED  BY <1>7, <1>8, <1>9, <1>10, <1>11, Zenon

(* A timeout closes the port, so that a late answer meets no other command. *)
LEMMA TimeoutInStep ==
  ASSUME SerTypeOK, SerBasics, InStep, Timeout
  PROVE  InStep'
<1> USE DEF modemVars, readerVars
<1>1. call.at # "idle" /\ Return(TimedOut) /\ UNCHANGED <<toModem, port, rdr, prompted,
      mixed>> /\ TimedOut \in Results
  BY Zenon DEF Timeout, TimedOut, Results
<1>2. portClosed'
  BY Zenon DEF Timeout
<1>3. ASSUME PromptEndsLine, TimedOut = "noprompt", call.id \in prompted PROVE FALSE
  <2>1. call.at = "prompt" /\ Quiet
    BY <1>3, Zenon DEF TimedOut
  <2>2. port = <<>> /\ lines = <<>> /\ rdr.at = "scan"
    BY <1>3, <2>1, Zenon DEF Quiet, LineArrived
  <2>3. Len(port) = 0 /\ Len(lines) = 0
    BY <2>2, Zenon
  <2>4. PromptPresent
    BY <1>3, <2>1, Zenon DEF InStep
  <2> QED  BY <2>2, <2>3, <2>4 DEF PromptPresent
<1> QED  BY <1>1, <1>2, <1>3, ReturnInStep, Zenon DEF InStep

(* Every step keeps the invariant. *)
LEMMA SerStep ==
  ASSUME SerInv, [SerNext]_sVars
  PROVE  SerInv'
<1>1. CASE UNCHANGED sVars
  <2>1. SerTypeOK' /\ SerBasics' /\ UrcInv'
    BY <1>1 DEF SerInv, SerTypeOK, SerBasics, CallInHand, LineInHand, UrcInv, sVars
  <2>2. UNCHANGED left
    BY <1>1, Zenon DEF sVars
  <2> QED  BY <1>1, <2>1, <2>2, AsideInStep, SMTT(30) DEF SerInv
<1>2. CASE SerNext
  <2>0. SerTypeOK /\ SerBasics /\ UrcInv
    BY Zenon DEF SerInv
  <2>1. SerTypeOK' /\ LineInHand' /\ CallInHand' /\ UrcInv'
    BY <1>2, <2>0, SerTypes, LineKept, CallKept, UrcKept, Zenon DEF SerBasics
  <2>2. /\ left["garbled"] \in Nat /\ left'["garbled"] \in Nat /\ MaxGarbled \in Nat
        /\ left'["garbled"] <= left["garbled"] /\ left["garbled"] <= MaxGarbled
    BY <1>2, <2>0, LeftKept, SerAssumption, Zenon DEF SerBasics, SerTypeOK, SerFaults
  <2>3. left'["garbled"] <= MaxGarbled
    BY <2>2
  <2>4. ASSUME left'["garbled"] = MaxGarbled PROVE InStep'
    <3>1. left["garbled"] = MaxGarbled
      BY <2>2, <2>4
    <3>2. InStep
      BY <3>1, Zenon DEF SerInv
    <3>3. CASE ModemAnswers
      BY <2>0, <2>4, <3>1, <3>2, <3>3, ModemInStep, Zenon
    <3>4. CASE ModemNotifies
      <4>1. [kind |-> "urc", of |-> urcsSent'] \in Line
        <5>1. urcsSent' \in 0 .. MaxUrcs
          BY <2>1, Zenon DEF SerTypeOK
        <5>2. urcsSent' \in 0 .. MaxCmds + MaxUrcs
          BY <5>1, SerAssumption
        <5>3. "urc" \in Kinds
          BY Zenon DEF Kinds
        <5> QED  BY <5>2, <5>3, Zenon DEF Line
      <4> QED  BY <2>0, <3>2, <3>4, <4>1, NotifyInStep, Zenon
    <3>5. CASE ReaderScan
      BY <2>0, <3>2, <3>5, ScanInStep, Zenon
    <3>6. CASE ReaderDeliver
      BY <2>0, <3>2, <3>6, DeliverInStep, Zenon
    <3>7. CASE Unplug \/ ReaderUrc \/ ReaderEnds \/ TakeUrc
      BY <2>0, <3>2, <3>7, AsideInStep, Zenon
    <3>8. CASE Begin
      BY <2>0, <3>2, <3>8, BeginInStep, Zenon
    <3>9. CASE WriteCommand
      BY <2>0, <3>2, <3>9, WriteInStep, Zenon
    <3>10. CASE TakeLine
      BY <2>0, <3>2, <3>10, TakeInStep, Zenon
    <3>11. CASE Timeout
      BY <2>0, <3>2, <3>11, TimeoutInStep, Zenon
    <3>12. CASE SeesClosed
      <4>1. /\ call.at # "idle" /\ Return("closed")
            /\ UNCHANGED <<toModem, port, rdr, prompted, mixed, portClosed>> /\ portClosed
        BY <2>0, <3>12, Zenon DEF SeesClosed, modemVars, readerVars, SerBasics, CallInHand
      <4> QED  BY <2>0, <3>2, <4>1, ReturnInStep, Zenon DEF Results, InStep
    <3> QED
      BY <1>2, <3>3, <3>4, <3>5, <3>6, <3>7, <3>8, <3>9, <3>10, <3>11, <3>12, Zenon
         DEF SerNext, Reader, Caller
  <2> QED  BY <2>1, <2>3, <2>4, Zenon DEF SerInv, SerBasics
<1> QED  BY <1>1, <1>2, Zenon

(* The invariant holds of a serializer that has just been made. *)
LEMMA SerStart == SerInit => SerInv
<1> SUFFICES ASSUME SerInit PROVE SerInv
  BY Zenon
<1>1. /\ MaxCmds \in Nat /\ MaxUrcs \in Nat /\ MaxSilent \in Nat /\ MaxSlow \in Nat
      /\ MaxIoErrors \in Nat /\ MaxGarbled \in Nat
      /\ LineCap \in Nat /\ UrcChCap \in Nat
  BY SerAssumption, Zenon
<1>2. NoLine \in Line
  BY <1>1 DEF NoLine, Line, Kinds
<1>3. left \in [SerFaults -> Nat] /\ left["garbled"] = MaxGarbled
  BY <1>1 DEF SerInit, SerFaults
<1>4. atPrompt \in BOOLEAN /\ portClosed \in BOOLEAN /\ closed \in BOOLEAN
      /\ mixed \in BOOLEAN /\ ~mixed /\ ~closed
  BY Zenon DEF SerInit
<1>5. Len(toModem) = 0 /\ Len(port) = 0 /\ Len(lines) = 0 /\ Len(urcs) = 0
  BY SMTT(30) DEF SerInit
<1>6. SerTypeOK
  BY <1>1, <1>2, <1>3, <1>4, <1>5, SMTT(30) DEF SerInit, SerTypeOK, Waits
<1>7. SerBasics
  BY <1>1, <1>3, <1>4, <1>5 DEF SerInit, SerBasics, CallInHand, LineInHand, NoLine
<1>8. UrcInv
  BY Zenon DEF SerInit, UrcInv, NoLine
<1>9. InStep
  BY <1>4, <1>5 DEF SerInit, InStep, Waiting, Clean, NothingComing, PortQuiet,
     NoPromptIsTrue
<1> QED  BY <1>6, <1>7, <1>8, <1>9, Zenon DEF SerInv

(* Worker and modem are in step in every behaviour in which no +CMGS line came without
   its number. *)
THEOREM SerInvHolds == SerSpec => []SerInv
  BY SerStart, SerStep, PTL DEF SerSpec

(* Drop-oldest never drops the newest notification. *)
THEOREM NewestUrcSurvives == SerSpec => []NewestUrcKept
<1>1. SerInv => NewestUrcKept
  <2> SUFFICES ASSUME SerInv, rdr.at = "scan", rdr.line.kind = "urc"
               PROVE  \E u \in taken \cup Range(urcs) : u >= rdr.line.of
    BY Zenon DEF NewestUrcKept
  <2>1. rdr.line.of \in taken \cup Range(urcs) /\ rdr.line.of \in 1 .. MaxUrcs
    BY Zenon DEF SerInv, UrcInv, SerBasics, LineInHand
  <2>2. rdr.line.of >= rdr.line.of
    BY <2>1, SerAssumption
  <2> QED  BY <2>1, <2>2, Zenon
<1> QED  BY <1>1, SerInvHolds, PTL

(* No command consumes a line the modem sent for another one, neither an answer that
   comes after its timeout nor one left over by an error return. *)
THEOREM AnswersAreOwn == SerSpec => []OwnAnswer
<1>1. SerInv => OwnAnswer
  BY Zenon DEF SerInv, InStep, OwnAnswer
<1> QED  BY <1>1, SerInvHolds, PTL

(* With a prompt that ends its line, what a call returns is true: built from lines of
   its own, and ErrSendPrompt only when the modem sent no prompt. *)
THEOREM ResultsAreTrue ==
  ASSUME PromptEndsLine PROVE SerSpec => [](left["garbled"] = MaxGarbled => ResultIsTrue)
<1>1. SerInv => (left["garbled"] = MaxGarbled => ResultIsTrue)
  BY Zenon DEF SerInv, InStep, OwnAnswer, ResultIsTrue
<1> QED  BY <1>1, SerInvHolds, PTL
=============================================================================
