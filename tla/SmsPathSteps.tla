---------------------------- MODULE SmsPathSteps ----------------------------
(* What a step of SmsPath may do to the database, the tunnel and the cloud, for every
   value of the constants. *)
EXTENDS SmsPath, TLAPS

(* What Append and Tail do to the elements of a queue. *)
LEMMA RangeAppend ==
  ASSUME NEW S, NEW s \in Seq(S), NEW x \in S
  PROVE  Append(s, x) \in Seq(S) /\ Range(Append(s, x)) = Range(s) \cup {x}
<1>1. Append(s, x) \in Seq(S) /\ Len(Append(s, x)) = Len(s) + 1
  OBVIOUS
<1>2. \A k \in 1 .. Len(s) : Append(s, x)[k] = s[k]
  OBVIOUS
<1>3. Append(s, x)[Len(s) + 1] = x
  OBVIOUS
<1>4. DOMAIN Append(s, x) = 1 .. Len(s) + 1 /\ DOMAIN s = 1 .. Len(s) /\ Len(s) \in Nat
  BY <1>1
<1>5. DOMAIN Append(s, x) = DOMAIN s \cup {Len(s) + 1}
  BY <1>4
<1> QED  BY <1>1, <1>2, <1>3, <1>4, <1>5 DEF Range

(* Receiving from a queue. *)
LEMMA RangeTail ==
  ASSUME NEW S, NEW s \in Seq(S), s # <<>>
  PROVE  /\ Head(s) \in S /\ Head(s) \in Range(s)
         /\ Tail(s) \in Seq(S) /\ Range(Tail(s)) \subseteq Range(s)
         /\ Len(Tail(s)) = Len(s) - 1
<1>1. Len(s) \in Nat /\ Len(s) > 0 /\ Head(s) = s[1] /\ DOMAIN s = 1 .. Len(s)
  OBVIOUS
<1>2. Tail(s) \in Seq(S) /\ Len(Tail(s)) = Len(s) - 1
  OBVIOUS
<1>3. \A k \in 1 .. Len(Tail(s)) : Tail(s)[k] = s[k + 1]
  OBVIOUS
<1>4. DOMAIN Tail(s) = 1 .. Len(Tail(s))
  BY <1>2
<1> QED  BY <1>1, <1>2, <1>3, <1>4 DEF Range

(* The elements of a queue have its type. *)
LEMMA RangeIn ==
  ASSUME NEW S, NEW s \in Seq(S)
  PROVE  Range(s) \subseteq S
  BY DEF Range

(* The empty queue has every type. *)
LEMMA EmptyQueue ==
  ASSUME NEW S
  PROVE  <<>> \in Seq(S) /\ Len(<<>>) = 0
  OBVIOUS

(* The empty queue has no elements. *)
LEMMA RangeEmpty == Range(<<>>) = {}
  BY DEF Range

(* What a step may do to the database and to the budgets of failures. *)
BufferStep ==
  \/ UNCHANGED bufferVars
  \/ \E old \in SUBSET Ids : Purge(old)
  \/ reader.pc = "mark" /\ MarkDelivered(reader.id)
  \/ rx.pc = "persist" /\ InsertNew(rx.pdu)

(* At most one failure is spent. *)
BudgetStep == UNCHANGED budget \/ \E kind \in Kinds : Spend(kind)

(* The cloud only receives. *)
CloudStep == UNCHANGED cloud \/ CloudReceives

(* Every step does one of these. *)
LEMMA StepKinds ==
  ASSUME [Next]_vars
  PROVE  BufferStep /\ BudgetStep /\ CloudStep
<1> USE DEF BufferStep, BudgetStep, CloudStep, Kinds, bufferVars, flushVars, netVars
<1>1. CASE Alone(DialFails) \/ Alone(BackOff) \/ Alone(LinkDown) \/ Alone(SessionEnd)
  BY <1>1, Zenon DEF Alone, DialFails, BackOff, LinkDown, SessionEnd
<1>2. ASSUME NEW old \in SUBSET Ids,
             Alone(Connect(old)) \/ Alone(HelloFails(old)) \/ Alone(PurgeTick(old))
      PROVE  BufferStep /\ BudgetStep /\ CloudStep
  BY <1>2, Zenon DEF Alone, Connect, HelloFails, PurgeTick, tunnelVars
<1>3. CASE \/ Alone(WriterSend) \/ Alone(WriterPing)
           \/ Alone(WriterHeartbeatFails) \/ Alone(WriterStop)
  BY <1>3, Zenon DEF Alone, WriterSend, WriterPing, WriterHeartbeatFails, WriterStop
<1>4. CASE Alone(ReaderAck) \/ Alone(ReaderMark) \/ Alone(ReaderFails)
  BY <1>4, Zenon DEF Alone, ReaderAck, ReaderMark, ReaderFails
<1>5. ASSUME NEW by \in {"connect", "periodic"}, Alone(FlushStart(by))
      PROVE  BufferStep /\ BudgetStep /\ CloudStep
  BY <1>5, Zenon DEF Alone, FlushStart
<1>6. CASE \/ Alone(FlushReturns) \/ Alone(FlushWrite) \/ Alone(FlushRegister)
           \/ Alone(FlushAcked) \/ Alone(FlushTimeout) \/ Alone(WritesOverlap)
  BY <1>6, Zenon DEF Alone, FlushReturns, FlushWrite, FlushRegister, FlushAcked,
              FlushTimeout, WritesOverlap
<1>7. CASE Alone(CloudReceives)
  BY <1>7, Zenon DEF Alone, CloudReceives
<1>8. ASSUME NEW s \in Slots, NEW p \in Pdus, SmsArrives(s, p)
      PROVE  BufferStep /\ BudgetStep /\ CloudStep
  BY <1>8, Zenon DEF SmsArrives, tunnelVars
<1>9. CASE ReadSMS \/ DiscardMalformed \/ DeleteFromSim \/ PushReceived
  BY <1>9, Zenon DEF ReadSMS, DiscardMalformed, DeleteFromSim, PushReceived, DeleteSMS,
     tunnelVars
<1>10. CASE Persist
  BY <1>10, Zenon DEF Persist, InsertIgnored, tunnelVars
<1>11. CASE CheckCapacity \/ DoDeleteAllSMS
  BY <1>11, Zenon DEF CheckCapacity, DoDeleteAllSMS, DeleteSMS
<1>12. CASE WorkerFails \/ WorkerRestarts \/ Crash
  BY <1>12, Zenon DEF WorkerFails, WorkerRestarts, Crash, tunnelVars
<1>13. CASE UNCHANGED vars
  BY <1>13, Zenon DEF vars, tunnelVars
<1> QED
  BY <1>1, <1>2, <1>3, <1>4, <1>5, <1>6, <1>7, <1>8, <1>9, <1>10, <1>11, <1>12, <1>13, Zenon
  DEF Next

(* A step keeps what ids mean, what the cloud has, and every PDU that is pending
   or at the cloud. *)
Stable ==
  /\ \A i \in Ids : status[i] # "ABSENT" => status'[i] # "ABSENT" /\ pduOf'[i] = pduOf[i]
  /\ cloud \subseteq cloud'
  /\ PendingPdus \cup cloud \subseteq PendingPdus' \cup cloud'

(* Every step is stable, and keeps the types of the database and that ids are handed
   out in order. *)
LEMMA StableStep ==
  ASSUME IInv, [Next]_vars
  PROVE  BufferTypeOK' /\ Allocated' /\ Stable
<1> USE DEF IInv, TypeOK, BufferTypeOK, Allocated
<1>1. BufferStep /\ BudgetStep /\ CloudStep
  BY StepKinds, Zenon
<1>2. cloud \subseteq cloud'
  BY <1>1, Zenon DEF CloudStep, CloudReceives
<1>3. budget' \in [Kinds -> Nat]
  <2>1. CASE UNCHANGED budget
    BY <2>1, Zenon
  <2>2. ASSUME NEW kind \in Kinds, Spend(kind) PROVE budget' \in [Kinds -> Nat]
    BY <2>2 DEF Spend
  <2> QED  BY <1>1, <2>1, <2>2, Zenon DEF BudgetStep
<1>4. CASE UNCHANGED bufferVars
  BY <1>2, <1>3, <1>4, Zenon DEF Stable, bufferVars, PendingPdus
<1>5. ASSUME NEW old \in SUBSET Ids, Purge(old)
      PROVE  BufferTypeOK' /\ Allocated' /\ Stable
  <2>1. status' \in [Ids -> Statuses] /\ UNCHANGED <<seq, pduOf>>
    BY <1>5, Zenon DEF Purge, Statuses
  <2>2. \A i \in Ids : /\ status[i] = "ABSENT" <=> status'[i] = "ABSENT"
                       /\ status[i] = "PENDING" <=> status'[i] = "PENDING"
    BY <1>5, Zenon DEF Purge
  <2> QED  BY <1>2, <1>3, <2>1, <2>2, Zenon DEF Stable, PendingPdus
<1>6. CASE reader.pc = "mark" /\ MarkDelivered(reader.id)
  <2>1. status' \in [Ids -> Statuses] /\ UNCHANGED <<seq, pduOf>>
    BY <1>6, Zenon DEF MarkDelivered, Statuses
  <2>2. \A i \in Ids : /\ status[i] = "ABSENT" <=> status'[i] = "ABSENT"
                       /\ i # reader.id => status'[i] = status[i]
    BY <1>6, Zenon DEF MarkDelivered, Live
  <2>3. pduOf[reader.id] \in cloud
    BY <1>6, Zenon DEF AcksFromCloud
  <2> QED  BY <1>2, <1>3, <2>1, <2>2, <2>3, Zenon DEF Stable, PendingPdus
<1>7. CASE rx.pc = "persist" /\ InsertNew(rx.pdu)
  <2>1. NextId \in Ids /\ rx.pdu \in Pdus /\ status[NextId] = "ABSENT"
    <3>1. NextId \in Ids
      BY <1>7, Zenon DEF InsertNew
    <3>2. rx.pdu \in Pdus
      BY <1>7, Zenon DEF ReceiveInv
    <3>3. seq \in Nat /\ Allocated
      BY BoundAssumption DEF Ids
    <3>4. NextId > seq
      BY <3>3 DEF NextId
    <3> QED  BY <3>1, <3>2, <3>3, <3>4, Zenon DEF Allocated
  <2>2. /\ seq' = NextId
        /\ pduOf' = [pduOf EXCEPT ![NextId] = rx.pdu]
        /\ status' = [status EXCEPT ![NextId] = "PENDING"]
    BY <1>7, Zenon DEF InsertNew
  <2>3. BufferTypeOK' /\ Allocated'
    <3>1. seq \in 0 .. MaxRows /\ seq + 1 \in 1 .. MaxRows /\ MaxRows \in Nat
      BY <2>1, BoundAssumption DEF NextId, Ids
    <3>2. seq' \in 0 .. MaxRows
      BY <2>2, <3>1 DEF NextId
    <3>3. /\ \A i \in Ids : i # NextId => status'[i] = status[i] /\ pduOf'[i] = pduOf[i]
          /\ status'[NextId] = "PENDING" /\ pduOf'[NextId] = rx.pdu
      BY <2>1, <2>2, Zenon
    <3>4. \A i \in Ids : i > seq' <=> i > seq /\ i # NextId
      BY <2>2, <3>1 DEF NextId, Ids
    <3>5. Allocated'
      BY <2>1, <3>3, <3>4, Zenon
    <3>6. pduOf' \in [Ids -> Pdus \cup {NoPdu}] /\ status' \in [Ids -> Statuses]
      BY <2>1, <2>2, Zenon DEF Statuses
    <3> QED  BY <1>3, <3>2, <3>5, <3>6, Zenon
  <2>4. \A i \in Ids : status[i] # "ABSENT" => status'[i] = status[i]
        /\ pduOf'[i] = pduOf[i]
    BY <2>1, <2>2, Zenon
  <2> QED  BY <1>2, <2>3, <2>4, Zenon DEF Stable, PendingPdus
<1> QED  BY <1>1, <1>4, <1>5, <1>6, <1>7, Zenon DEF BufferStep

(* What a step may do to the queues, to the reader and to the flush. *)
OutboxStep ==
  \/ UNCHANGED outbox
  \/ outbox' = <<>>
  \/ outbox # <<>> /\ outbox' = Tail(outbox)
  \/ Push(Other)
  \/ rx.pc = "push" /\ Push([id |-> rx.id, pdu |-> rx.pdu])

(* What a step may do to the messages on the connection. *)
WireStep ==
  \/ UNCHANGED wire
  \/ wire' = <<>>
  \/ wire # <<>> /\ wire' = Tail(wire)
  \/ outbox # <<>> /\ wire' = Append(wire, Head(outbox))
  \/ \E r \in flush.todo : wire' = Append(wire, r)

(* What a step may do to the acknowledgements under way: one is sent for a message the
   cloud stores in the same step. *)
AcksStep ==
  \/ UNCHANGED acks
  \/ acks' = <<>>
  \/ acks # <<>> /\ acks' = Tail(acks)
  \/ /\ wire # <<>> /\ Head(wire) # Other
     /\ acks' = Append(acks, Head(wire).id)
     /\ cloud' = cloud \cup {Head(wire).pdu}

(* What a step may do to readLoop. *)
ReaderStep ==
  \/ UNCHANGED reader
  \/ \E pc \in {"read", "done"} : reader' = [pc |-> pc, id |-> 0]
  \/ acks # <<>> /\ reader' = [pc |-> "mark", id |-> Head(acks)]

(* What a step may do to flushBuffer. *)
FlushStep ==
  \/ UNCHANGED flush
  \/ flush' = NoFlush
  \/ \E by \in {"connect", "periodic"}, b \in BOOLEAN :
       flush' = [pc |-> "write", by |-> by, todo |-> PendingRows, cur |-> 0,
                 stale |-> b, closed |-> FALSE]
  \/ \E r \in flush.todo :
       flush' = [flush EXCEPT !.pc = "register", !.cur = r.id, !.todo = @ \ {r}]
  \/ flush.pc = "register" /\ flush' = [flush EXCEPT !.pc = "wait", !.closed = FALSE]
  \/ flush' = [flush EXCEPT !.pc = "write", !.cur = 0]
  \/ flush' = [flush EXCEPT !.pc = "write", !.cur = 0, !.closed = FALSE]
  \/ /\ acks # <<>> /\ flush.cur = Head(acks)
     /\ flush' = [flush EXCEPT !.closed = TRUE]
  \/ \E b \in BOOLEAN : flush' = [flush EXCEPT !.stale = TRUE, !.closed = @ \/ b]

(* All of them. *)
TunnelStep == OutboxStep /\ WireStep /\ AcksStep /\ ReaderStep /\ FlushStep

(* Every step does one of these to each. *)
LEMMA TunnelStepKinds ==
  ASSUME [Next]_vars
  PROVE  TunnelStep
<1> USE DEF TunnelStep, OutboxStep, WireStep, AcksStep, ReaderStep, FlushStep,
            flushVars, netVars, sessionVars
<1>1. CASE Alone(DialFails) \/ Alone(BackOff) \/ Alone(LinkDown)
  BY <1>1, Zenon DEF Alone, DialFails, BackOff, LinkDown
<1>2. CASE Alone(SessionEnd)
  BY <1>2, Zenon DEF Alone, SessionEnd
<1>3. ASSUME NEW old \in SUBSET Ids,
             Alone(Connect(old)) \/ Alone(HelloFails(old)) \/ Alone(PurgeTick(old))
      PROVE  TunnelStep
  BY <1>3, Zenon DEF Alone, Connect, HelloFails, PurgeTick, tunnelVars
<1>4. CASE Alone(WriterSend)
  BY <1>4, Zenon DEF Alone, WriterSend, Written
<1>5. CASE Alone(WriterPing) \/ Alone(WriterHeartbeatFails) \/ Alone(WriterStop)
  BY <1>5, Zenon DEF Alone, WriterPing, WriterHeartbeatFails, WriterStop
<1>6. CASE Alone(ReaderAck) \/ Alone(ReaderMark) \/ Alone(ReaderFails)
  BY <1>6, Zenon DEF Alone, ReaderAck, ReaderMark, ReaderFails
<1>7. ASSUME NEW by \in {"connect", "periodic"}, Alone(FlushStart(by))
      PROVE  TunnelStep
  BY <1>7, Zenon DEF Alone, FlushStart
<1>8. CASE Alone(FlushWrite)
  BY <1>8, Zenon DEF Alone, FlushWrite, Written
<1>9. CASE \/ Alone(FlushReturns) \/ Alone(FlushRegister)
           \/ Alone(FlushAcked) \/ Alone(FlushTimeout)
  BY <1>9, Zenon DEF Alone, FlushReturns, FlushRegister, FlushAcked, FlushTimeout
<1>10. CASE Alone(WritesOverlap)
  BY <1>10, Zenon DEF Alone, WritesOverlap
<1>11. CASE Alone(CloudReceives)
  BY <1>11, Zenon DEF Alone, CloudReceives
<1>12. ASSUME NEW s \in Slots, NEW p \in Pdus, SmsArrives(s, p)
      PROVE  TunnelStep
  BY <1>12, Zenon DEF SmsArrives, tunnelVars
<1>13. CASE ReadSMS \/ DiscardMalformed \/ Persist \/ DeleteFromSim \/ PushReceived
  BY <1>13, Zenon DEF ReadSMS, DiscardMalformed, Persist, DeleteFromSim, PushReceived,
     tunnelVars
<1>14. CASE CheckCapacity \/ DoDeleteAllSMS
  BY <1>14, Zenon DEF CheckCapacity, DoDeleteAllSMS
<1>15. CASE WorkerFails \/ WorkerRestarts \/ Crash
  BY <1>15, Zenon DEF WorkerFails, WorkerRestarts, Crash, TunnelStart, tunnelVars
<1>16. CASE UNCHANGED vars
  BY <1>16, Zenon DEF vars, tunnelVars
<1> QED
  BY <1>1, <1>2, <1>3, <1>4, <1>5, <1>6, <1>7, <1>8, <1>9, <1>10, <1>11, <1>12,
     <1>13, <1>14, <1>15, <1>16, Zenon
  DEF Next

(* An event that says what the database says. *)
Faithful(e) == e # Other => status[e.id] # "ABSENT" /\ pduOf[e.id] = e.pdu

(* An event that says what the database says goes on doing so. *)
LEMMA FaithfulStable ==
  ASSUME Stable, NEW e \in Event, Faithful(e)
  PROVE  Faithful(e)'
  BY Zenon DEF Stable, Faithful, Event, Row, Other

(* What a flush reads from the database. *)
LEMMA RowsFaithful ==
  ASSUME IInv, NEW e \in PendingRows
  PROVE  e \in Row /\ Faithful(e)
  BY DEF IInv, TypeOK, BufferTypeOK, Allocated, PendingRows, Row, Faithful

(* What the worker pushes after Insert has returned the id. *)
LEMMA PushedFaithful ==
  ASSUME IInv, rx.pc = "push"
  PROVE  [id |-> rx.id, pdu |-> rx.pdu] \in Event
         /\ Faithful([id |-> rx.id, pdu |-> rx.pdu])
  BY Zenon DEF IInv, TypeOK, ReceiverTypeOK, ReceiveInv, Event, Row, Faithful

(* The events in the outbox say what the database says. *)
LEMMA OutboxInv ==
  ASSUME IInv, [Next]_vars
  PROVE  /\ outbox' \in Seq(Event) /\ Len(outbox') <= OutboxCap
         /\ \A e \in Range(outbox') : Faithful(e)'
<1>1. Stable /\ OutboxStep
  BY StableStep, TunnelStepKinds, Zenon DEF TunnelStep
<1>2. /\ outbox \in Seq(Event) /\ Len(outbox) <= OutboxCap /\ OutboxCap \in Nat
      /\ \A e \in Range(outbox) : e \in Event /\ Faithful(e)
  <2>1. outbox \in Seq(Event) /\ Len(outbox) <= OutboxCap /\ OutboxCap \in Nat
    BY TunnelAssumption, Zenon DEF IInv, TypeOK, TunnelTypeOK
  <2> QED  BY <2>1, RangeIn, Zenon DEF IInv, CopiesMatch, Faithful
<1>3. \A e \in Range(outbox) : Faithful(e)'
  BY <1>1, <1>2, FaithfulStable, Zenon
<1>4. CASE UNCHANGED outbox
  BY <1>2, <1>3, <1>4, Zenon
<1>5. CASE outbox' = <<>>
  BY <1>2, <1>5, RangeEmpty
<1>6. CASE outbox # <<>> /\ outbox' = Tail(outbox)
  <2>1. /\ Tail(outbox) \in Seq(Event) /\ Range(Tail(outbox)) \subseteq Range(outbox)
        /\ Len(Tail(outbox)) = Len(outbox) - 1
    BY <1>2, <1>6, RangeTail, Zenon
  <2>2. Len(outbox) \in Nat
    BY <1>2
  <2> QED  BY <1>2, <1>3, <1>6, <2>1, <2>2
<1>7. ASSUME NEW e \in Event, Faithful(e), Push(e)
      PROVE  /\ outbox' \in Seq(Event) /\ Len(outbox') <= OutboxCap
             /\ \A x \in Range(outbox') : Faithful(x)'
  <2>1. CASE outbox' = outbox
    BY <1>2, <1>3, <2>1, Zenon
  <2>2. CASE Len(outbox) < OutboxCap /\ outbox' = Append(outbox, e)
    <3>1. outbox' \in Seq(Event) /\ Range(outbox') = Range(outbox) \cup {e}
      BY <1>2, <2>2, RangeAppend
    <3>2. Len(outbox') = Len(outbox) + 1 /\ Len(outbox) \in Nat
      BY <1>2, <2>2
    <3>3. Faithful(e)'
      BY <1>1, <1>7, FaithfulStable, Zenon
    <3> QED  BY <1>2, <1>3, <2>2, <3>1, <3>2, <3>3
  <2> QED  BY <1>7, <2>1, <2>2, Zenon DEF Push
<1>8. CASE Push(Other)
  BY <1>7, <1>8, Zenon DEF Event, Faithful
<1>9. CASE rx.pc = "push" /\ Push([id |-> rx.id, pdu |-> rx.pdu])
  BY <1>7, <1>9, PushedFaithful, Zenon
<1> QED  BY <1>1, <1>4, <1>5, <1>6, <1>8, <1>9, Zenon DEF OutboxStep

(* So do the messages on the connection. *)
LEMMA WireInv ==
  ASSUME IInv, [Next]_vars
  PROVE  wire' \in Seq(Event) /\ \A e \in Range(wire') : Faithful(e)'
<1>1. Stable /\ WireStep
  BY StableStep, TunnelStepKinds, Zenon DEF TunnelStep
<1>2. /\ wire \in Seq(Event) /\ outbox \in Seq(Event) /\ flush.todo \subseteq Event
      /\ \A e \in Range(wire) \cup Range(outbox) \cup flush.todo : e \in Event
           /\ Faithful(e)
  BY DEF IInv, TypeOK, TunnelTypeOK, CopiesMatch, Faithful, Range, Event
<1>3. \A e \in Range(wire) \cup Range(outbox) \cup flush.todo : Faithful(e)'
  BY <1>1, <1>2, FaithfulStable, Zenon
<1>4. CASE UNCHANGED wire
  BY <1>2, <1>3, <1>4, Zenon
<1>5. CASE wire' = <<>>
  BY <1>5, RangeEmpty
<1>6. CASE wire # <<>> /\ wire' = Tail(wire)
  BY <1>2, <1>3, <1>6, RangeTail, Zenon
<1>7. ASSUME NEW e \in Range(outbox) \cup flush.todo, wire' = Append(wire, e)
      PROVE  wire' \in Seq(Event) /\ \A x \in Range(wire') : Faithful(x)'
  BY <1>2, <1>3, <1>7, RangeAppend
<1>8. CASE outbox # <<>> /\ wire' = Append(wire, Head(outbox))
  BY <1>2, <1>7, <1>8, RangeTail, Zenon
<1> QED  BY <1>1, <1>4, <1>5, <1>6, <1>7, <1>8, Zenon DEF WireStep

(* What is acknowledged is at the cloud, also while readLoop marks it. *)
LEMMA AcksInv ==
  ASSUME IInv, [Next]_vars
  PROVE  /\ acks' \in Seq(Ids)
         /\ reader' \in [pc : {"read", "mark", "done"}, id : Ids \cup {0}]
         /\ AcksFromCloud'
<1>1. Stable /\ AcksStep /\ ReaderStep
  BY StableStep, TunnelStepKinds, Zenon DEF TunnelStep
<1>2. /\ acks \in Seq(Ids) /\ Range(acks) \subseteq Ids
      /\ \A i \in Range(acks) : status[i] # "ABSENT" /\ pduOf[i] \in cloud
  BY RangeIn, Zenon DEF IInv, TypeOK, TunnelTypeOK, AcksFromCloud
<1>3. \A i \in Range(acks) : status'[i] # "ABSENT" /\ pduOf'[i] \in cloud'
  BY <1>1, <1>2, Zenon DEF Stable
<1>4. acks' \in Seq(Ids) /\ \A i \in Range(acks') : status'[i] # "ABSENT"
      /\ pduOf'[i] \in cloud'
  <2>1. CASE UNCHANGED acks
    BY <1>2, <1>3, <2>1, Zenon
  <2>2. CASE acks' = <<>>
    BY <2>2, RangeEmpty
  <2>3. CASE acks # <<>> /\ acks' = Tail(acks)
    BY <1>2, <1>3, <2>3, RangeTail, Zenon
  <2>4. CASE /\ wire # <<>> /\ Head(wire) # Other
             /\ acks' = Append(acks, Head(wire).id)
             /\ cloud' = cloud \cup {Head(wire).pdu}
    <3>1. Head(wire) \in Event /\ Head(wire) \in Range(wire)
      BY <2>4, RangeTail, Zenon DEF IInv, TypeOK, TunnelTypeOK
    <3>2. Head(wire) \in Row
      BY <2>4, <3>1, Zenon DEF Event
    <3>3. /\ Head(wire).id \in Ids /\ status[Head(wire).id] # "ABSENT"
          /\ pduOf[Head(wire).id] = Head(wire).pdu
      BY <2>4, <3>1, <3>2, Zenon DEF IInv, CopiesMatch, Row
    <3>4. acks' \in Seq(Ids) /\ Range(acks') = Range(acks) \cup {Head(wire).id}
      BY <1>2, <2>4, <3>3, RangeAppend
    <3> QED  BY <1>1, <1>3, <2>4, <3>3, <3>4, Zenon DEF Stable
  <2> QED  BY <1>1, <2>1, <2>2, <2>3, <2>4, Zenon DEF AcksStep
<1>5. /\ reader' \in [pc : {"read", "mark", "done"}, id : Ids \cup {0}]
      /\ reader'.pc = "mark" =>
           reader'.id \in Ids /\ status'[reader'.id] # "ABSENT"
           /\ pduOf'[reader'.id] \in cloud'
  <2>1. CASE UNCHANGED reader
    BY <1>1, <2>1, Zenon DEF IInv, TypeOK, TunnelTypeOK, AcksFromCloud, Stable
  <2>2. CASE \E pc \in {"read", "done"} : reader' = [pc |-> pc, id |-> 0]
    BY <2>2
  <2>3. CASE acks # <<>> /\ reader' = [pc |-> "mark", id |-> Head(acks)]
    <3>1. Head(acks) \in Range(acks)
      BY <1>2, <2>3, RangeTail, Zenon
    <3> QED  BY <1>2, <1>3, <2>3, <3>1, Zenon
  <2> QED  BY <1>1, <2>1, <2>2, <2>3, Zenon DEF ReaderStep
<1> QED  BY <1>4, <1>5, Zenon DEF AcksFromCloud

(* The rows a flush still has to send say what the database says. *)
LEMMA FlushStepInv ==
  ASSUME IInv, [Next]_vars
  PROVE  /\ flush' \in [pc : {"off", "write", "register", "wait"},
                        by : {"connect", "periodic"}, todo : SUBSET Row,
                        cur : Ids \cup {0}, stale : BOOLEAN, closed : BOOLEAN]
         /\ FlushInv'
         /\ \A e \in flush'.todo : Faithful(e)'
<1> DEFINE Flushes == [pc : {"off", "write", "register", "wait"},
                       by : {"connect", "periodic"}, todo : SUBSET Row,
                       cur : Ids \cup {0}, stale : BOOLEAN, closed : BOOLEAN]
<1>1. Stable /\ FlushStep
  BY StableStep, TunnelStepKinds, Zenon DEF TunnelStep
<1>2. flush \in Flushes /\ FlushInv
  BY Zenon DEF IInv, TypeOK, TunnelTypeOK
<1>3. PendingRows \subseteq Row
  BY RowsFaithful, Zenon
<1>4. flush' \in Flushes /\ FlushInv' /\ flush'.todo \subseteq flush.todo \cup PendingRows
  <2>1. CASE UNCHANGED flush
    BY <1>2, <2>1, Zenon DEF FlushInv
  <2>2. CASE flush' = NoFlush
    BY <1>2, <2>2, Zenon DEF FlushInv, NoFlush
  <2>3. CASE \E by \in {"connect", "periodic"}, b \in BOOLEAN :
               flush' = [pc |-> "write", by |-> by, todo |-> PendingRows, cur |-> 0,
                         stale |-> b, closed |-> FALSE]
    BY <1>3, <2>3 DEF FlushInv
  <2>4. ASSUME NEW r \in flush.todo,
               flush' = [flush EXCEPT !.pc = "register", !.cur = r.id, !.todo = @ \ {r}]
        PROVE  flush' \in Flushes /\ FlushInv'
               /\ flush'.todo \subseteq flush.todo \cup PendingRows
    <3>1. r \in Row /\ r.id \in Ids
      BY <1>2, Zenon DEF Row
    <3> QED  BY <1>2, <2>4, <3>1, Zenon DEF FlushInv
  <2>5. CASE flush.pc = "register" /\ flush' = [flush EXCEPT !.pc = "wait",
             !.closed = FALSE]
    BY <1>2, <2>5, Zenon DEF FlushInv
  <2>6. CASE \/ flush' = [flush EXCEPT !.pc = "write", !.cur = 0]
             \/ flush' = [flush EXCEPT !.pc = "write", !.cur = 0, !.closed = FALSE]
    BY <1>2, <2>6, Zenon DEF FlushInv
  <2>7. CASE flush' = [flush EXCEPT !.closed = TRUE]
    BY <1>2, <2>7, Zenon DEF FlushInv
  <2>8. ASSUME NEW b \in BOOLEAN, flush' = [flush EXCEPT !.stale = TRUE, !.closed = @ \/ b]
        PROVE  flush' \in Flushes /\ FlushInv'
               /\ flush'.todo \subseteq flush.todo \cup PendingRows
    BY <1>2, <2>8, Zenon DEF FlushInv
  <2> QED  BY <1>1, <2>1, <2>2, <2>3, <2>4, <2>5, <2>6, <2>7, <2>8, Zenon DEF FlushStep
<1>5. \A e \in flush.todo \cup PendingRows : e \in Event /\ Faithful(e)
  BY <1>2, RowsFaithful, Zenon DEF IInv, CopiesMatch, Faithful, Event
<1>6. \A e \in flush'.todo : Faithful(e)'
  BY <1>1, <1>4, <1>5, FaithfulStable, Zenon
<1> QED  BY <1>4, <1>6, Zenon

(* Only what is acknowledged is marked DELIVERED. *)
LEMMA DeliveredStep ==
  ASSUME IInv, [Next]_vars
  PROVE  DeliveredAtCloud'
<1> USE DEF IInv, TypeOK, BufferTypeOK, DeliveredAtCloud
<1>1. BufferStep /\ Stable
  BY StepKinds, StableStep, Zenon
<1>2. \A i \in Ids : status[i] \in {"DELIVERED", "PURGED"} => pduOf'[i] \in cloud'
  BY <1>1, Zenon DEF Stable
<1>3. \A i \in Ids : status'[i] \in {"DELIVERED", "PURGED"} =>
        status[i] \in {"DELIVERED", "PURGED"} \/ (reader.pc = "mark" /\ i = reader.id)
  <2>1. CASE UNCHANGED bufferVars
    BY <2>1, Zenon DEF bufferVars
  <2>2. ASSUME NEW old \in SUBSET Ids, Purge(old), NEW i \in Ids
        PROVE  status'[i] \in {"DELIVERED", "PURGED"}
               => status[i] \in {"DELIVERED", "PURGED"}
    BY <2>2, Zenon DEF Purge
  <2>3. CASE reader.pc = "mark" /\ MarkDelivered(reader.id)
    BY <2>3, Zenon DEF MarkDelivered
  <2>4. CASE InsertNew(rx.pdu)
    BY <2>4, Zenon DEF InsertNew
  <2> QED  BY <1>1, <2>1, <2>2, <2>3, <2>4, Zenon DEF BufferStep
<1>4. reader.pc = "mark" => pduOf'[reader.id] \in cloud'
  BY <1>1, SMTT(30) DEF Stable, AcksFromCloud
<1> QED  BY <1>2, <1>3, <1>4, Zenon

(* The parts of TunnelTypeOK that no other lemma covers. *)
SessionTypeOK ==
  /\ tstate \in {"CONNECTING", "CONNECTED", "BACKING_OFF"}
  /\ link \in BOOLEAN /\ cancelled \in BOOLEAN /\ armed \in BOOLEAN
  /\ onConnect \in BOOLEAN /\ periodic \in BOOLEAN
  /\ writer \in {"run", "done", "lost"}
  /\ pending \subseteq Ids

(* The flags of the session keep their types. *)
LEMMA SessionType ==
  ASSUME IInv, [Next]_vars
  PROVE  SessionTypeOK'
<1>0. SessionTypeOK /\ FlushInv
  BY Zenon DEF IInv, TypeOK, TunnelTypeOK, SessionTypeOK
<1> USE <1>0 DEF SessionTypeOK, flushVars, sessionVars
<1>1. CASE Alone(DialFails) \/ Alone(BackOff) \/ Alone(LinkDown)
  BY <1>1, Zenon DEF Alone, DialFails, BackOff, LinkDown
<1>2. CASE Alone(SessionEnd)
  BY <1>2, Zenon DEF Alone, SessionEnd
<1>3. ASSUME NEW old \in SUBSET Ids,
             Alone(Connect(old)) \/ Alone(HelloFails(old)) \/ Alone(PurgeTick(old))
      PROVE  SessionTypeOK'
  BY <1>3, Zenon DEF Alone, Connect, HelloFails, PurgeTick, tunnelVars
<1>4. CASE Alone(WriterSend)
  BY <1>4, Zenon DEF Alone, WriterSend
<1>5. CASE Alone(WriterPing) \/ Alone(WriterHeartbeatFails) \/ Alone(WriterStop)
  BY <1>5, Zenon DEF Alone, WriterPing, WriterHeartbeatFails, WriterStop
<1>6. CASE Alone(ReaderAck) \/ Alone(ReaderMark) \/ Alone(ReaderFails)
  BY <1>6, Zenon DEF Alone, ReaderAck, ReaderMark, ReaderFails
<1>7. ASSUME NEW by \in {"connect", "periodic"}, Alone(FlushStart(by))
      PROVE  SessionTypeOK'
  BY <1>7, Zenon DEF Alone, FlushStart
<1>8. CASE Alone(FlushWrite) \/ Alone(FlushReturns)
  BY <1>8, Zenon DEF Alone, FlushWrite, FlushReturns
<1>9. CASE Alone(FlushRegister) \/ Alone(FlushAcked) \/ Alone(FlushTimeout)
  BY <1>9 DEF Alone, FlushRegister, FlushAcked, FlushTimeout, FlushInv
<1>10. CASE Alone(WritesOverlap)
  BY <1>10, Zenon DEF Alone, WritesOverlap
<1>11. CASE Alone(CloudReceives)
  BY <1>11, Zenon DEF Alone, CloudReceives
<1>12. ASSUME NEW s \in Slots, NEW p \in Pdus, SmsArrives(s, p)
      PROVE  SessionTypeOK'
  BY <1>12, Zenon DEF SmsArrives, tunnelVars
<1>13. CASE ReadSMS \/ DiscardMalformed \/ Persist \/ DeleteFromSim \/ PushReceived
  BY <1>13 DEF ReadSMS, DiscardMalformed, Persist, DeleteFromSim, PushReceived, tunnelVars
<1>14. CASE CheckCapacity \/ DoDeleteAllSMS
  BY <1>14 DEF CheckCapacity, DoDeleteAllSMS
<1>15. CASE WorkerFails \/ WorkerRestarts \/ Crash
  BY <1>15, Zenon DEF WorkerFails, WorkerRestarts, Crash, TunnelStart, tunnelVars
<1>16. CASE UNCHANGED vars
  BY <1>16, Zenon DEF vars, tunnelVars
<1> QED
  BY <1>1, <1>2, <1>3, <1>4, <1>5, <1>6, <1>7, <1>8, <1>9, <1>10, <1>11, <1>12,
     <1>13, <1>14, <1>15, <1>16, Zenon
  DEF Next

(* Every step keeps the types and the invariants of the tunnel. *)
LEMMA TunnelTypeStep ==
  ASSUME IInv, [Next]_vars
  PROVE  TunnelTypeOK' /\ CopiesMatch' /\ AcksFromCloud' /\ FlushInv'
<1>1. cloud' \subseteq Pdus
  <2>1. UNCHANGED cloud \/ CloudReceives
    BY StepKinds, Zenon DEF CloudStep
  <2>2. CASE CloudReceives /\ Head(wire) # Other
    <3>1. Head(wire) \in Event
      BY <2>2, RangeTail, Zenon DEF CloudReceives, IInv, TypeOK, TunnelTypeOK
    <3> QED  BY <2>2, <3>1 DEF CloudReceives, Event, Row, IInv, TypeOK, TunnelTypeOK
  <2> QED  BY <2>1, <2>2, Zenon DEF CloudReceives, IInv, TypeOK, TunnelTypeOK
<1>2. TunnelTypeOK'
  BY <1>1, SessionType, OutboxInv, WireInv, AcksInv, FlushStepInv, Zenon
  DEF TunnelTypeOK, SessionTypeOK
<1>3. CopiesMatch'
  BY OutboxInv, WireInv, FlushStepInv, Zenon DEF CopiesMatch, Faithful
<1> QED  BY <1>2, <1>3, AcksInv, FlushStepInv, Zenon
=============================================================================
