--------------------------- MODULE SmsPathProofs ----------------------------
(* The invariant of SmsPath, what follows from it, and that SmsPath implements
   StoreForward, for every value of the constants. *)
EXTENDS SmsPathSteps, FiniteSetTheorems

(* What a step may do to the worker. *)
LEMMA ReceiverStepKinds ==
  ASSUME [Next]_vars
  PROVE  \/ UNCHANGED receiverVars
         \/ \E s \in Slots, p \in Pdus : SmsArrives(s, p)
         \/ ReadSMS \/ DiscardMalformed \/ Persist \/ DeleteFromSim \/ PushReceived
         \/ CheckCapacity \/ DoDeleteAllSMS \/ WorkerFails \/ WorkerRestarts \/ Crash
  BY Zenon DEF Next, Alone, vars

(* A discard on the record, or none at all, keeps NoLoss. *)
LEMMA DiscardKeepsNoLoss ==
  ASSUME NoLoss, Stable, arrived' = arrived,
         \/ NoteDiscarded
         \/ /\ discarded \subseteq discarded'
            /\ SimPdus \subseteq SimPdus' \cup PendingPdus \cup cloud
  PROVE  NoLoss'
<1>1. CASE NoteDiscarded
  BY <1>1, Zenon DEF NoteDiscarded, NoLoss, Held, Stable, SimPdus
<1>2. CASE /\ discarded \subseteq discarded'
           /\ SimPdus \subseteq SimPdus' \cup PendingPdus \cup cloud
  BY <1>2, Zenon DEF NoLoss, Held, Stable
<1> QED  BY <1>1, <1>2, Zenon

(* A worker at rest. *)
LEMMA IdleOK ==
  /\ Idle \in [pc : {"idle", "persist", "delete", "push"}, slot : Slots,
               pdu : Pdus \cup {NoPdu}, id : Ids \cup {0}]
  /\ Idle.pc = "idle" /\ Idle.id = 0
<1>1. (CHOOSE s \in Slots : TRUE) \in Slots
  BY ReceiverAssumption, Zenon
<1> QED  BY <1>1, Zenon DEF Idle

(* A step that leaves rx and sim alone, or puts rx to rest, keeps ReceiveInv. *)
LEMMA RestKeepsReceiveInv ==
  ASSUME IInv, Stable, rx' = Idle \/ (rx' = rx /\ (sim' = sim \/ rx.pc = "idle"))
  PROVE  ReceiveInv'
<1>1. CASE rx' = Idle
  BY <1>1, IdleOK, Zenon DEF ReceiveInv
<1>2. CASE rx' = rx /\ (sim' = sim \/ rx.pc = "idle")
  BY <1>2, Zenon DEF ReceiveInv, Stable, IInv, TypeOK, ReceiverTypeOK
<1> QED  BY <1>1, <1>2, Zenon

(* Deleting from the SIM empties slots. *)
LEMMA DeleteType ==
  ASSUME IInv, NEW S, DeleteSMS(S)
  PROVE  sim' \in [Slots -> Pdus \cup {NoPdu}]
  BY Zenon DEF DeleteSMS, IInv, TypeOK, ReceiverTypeOK

(* What is on record as discarded are PDUs. *)
LEMMA NoteType ==
  ASSUME IInv, NoteDiscarded
  PROVE  discarded' \subseteq Pdus
  BY DEF NoteDiscarded, SimPdus, IInv, TypeOK, ReceiverTypeOK

(* What the receiving side has to keep. *)
ReceiverOK == ReceiverTypeOK /\ ReceiveInv /\ NoLoss

(* Every step keeps it. *)
LEMMA ReceiverStep ==
  ASSUME IInv, [Next]_vars
  PROVE  ReceiverOK'
<1>0. Stable /\ ReceiverTypeOK /\ ReceiveInv /\ NoLoss /\ BufferTypeOK'
  BY StableStep, Zenon DEF IInv, TypeOK
<1>1. CASE UNCHANGED receiverVars
  <2>1. ReceiverTypeOK'
    BY <1>0, <1>1, Zenon DEF receiverVars, ReceiverTypeOK
  <2>2. NoLoss' /\ ReceiveInv'
    BY <1>0, <1>1, DiscardKeepsNoLoss, RestKeepsReceiveInv, Zenon DEF receiverVars, SimPdus
  <2> QED  BY <2>1, <2>2, Zenon DEF ReceiverOK
<1>2. ASSUME NEW s \in Slots, NEW p \in Pdus, SmsArrives(s, p)
      PROVE  ReceiverOK'
  <2>1. urcs' \in Seq(Slots) /\ Len(urcs') <= UrcCap
    <3>1. urcs \in Seq(Slots) /\ Len(urcs) \in Nat /\ Len(urcs) <= UrcCap
          /\ UrcCap \in Nat \ {0}
      BY <1>0, ReceiverAssumption DEF ReceiverTypeOK
    <3>2. CASE ~running
      BY <1>2, <3>1, <3>2, Zenon DEF SmsArrives
    <3>3. CASE running /\ Len(urcs) < UrcCap
      BY <1>2, <3>1, <3>3 DEF SmsArrives
    <3>4. CASE running /\ Len(urcs) = UrcCap
      <4>1. Tail(urcs) \in Seq(Slots) /\ Len(Tail(urcs)) = Len(urcs) - 1
        BY <3>1, <3>4, RangeTail
      <4> QED  BY <1>2, <3>1, <3>4, <4>1 DEF SmsArrives
    <3> QED  BY <3>1, <3>2, <3>3, <3>4
  <2>2. ReceiverTypeOK'
    BY <1>0, <1>2, <2>1, SMTT(30) DEF SmsArrives, ReceiverTypeOK
  <2>3. ReceiveInv'
    BY <1>0, <1>2, PduAssumption, Zenon DEF SmsArrives, ReceiverTypeOK, ReceiveInv, Stable
  <2>4. SimPdus \subseteq SimPdus' /\ p \in SimPdus'
    BY <1>0, <1>2, PduAssumption, Zenon DEF SmsArrives, SimPdus, ReceiverTypeOK
  <2>5. NoLoss'
    BY <1>0, <1>2, <2>4, Zenon DEF SmsArrives, NoLoss, Held, Stable
  <2> QED  BY <2>2, <2>3, <2>5, Zenon DEF ReceiverOK
<1>3. CASE ReadSMS
  <2>1. Head(urcs) \in Slots /\ Tail(urcs) \in Seq(Slots) /\ Len(Tail(urcs)) = Len(urcs) - 1
    BY <1>0, <1>3, RangeTail, Zenon DEF ReadSMS, ReceiverTypeOK
  <2>2. urcs' \in Seq(Slots) /\ Len(urcs') <= UrcCap
    BY <1>0, <1>3, <2>1, ReceiverAssumption DEF ReadSMS, ReceiverTypeOK
  <2>3. ReceiverTypeOK'
    BY <1>0, <1>3, <2>1, <2>2 DEF ReadSMS, ReceiverTypeOK
  <2>4. ReceiveInv'
    <3>1. CASE rx' = rx
      BY <1>0, <1>3, <3>1, RestKeepsReceiveInv, SMTT(30) DEF ReadSMS
    <3>2. CASE /\ sim[Head(urcs)] # NoPdu
               /\ rx' = [pc |-> "persist", slot |-> Head(urcs),
                         pdu |-> sim[Head(urcs)], id |-> 0]
      BY <1>0, <1>3, <2>1, <3>2, Zenon DEF ReadSMS, ReceiveInv, ReceiverTypeOK
    <3> QED  BY <1>3, <3>1, <3>2, Zenon DEF ReadSMS
  <2>5. NoLoss'
    BY <1>0, <1>3, DiscardKeepsNoLoss, Zenon DEF ReadSMS, SimPdus
  <2> QED  BY <2>3, <2>4, <2>5, Zenon DEF ReceiverOK
<1>4. CASE DiscardMalformed
  <2>1. ReceiverTypeOK'
    BY <1>0, <1>4, DeleteType, NoteType, IdleOK, Zenon DEF DiscardMalformed, ReceiverTypeOK
  <2> QED  BY <1>0, <1>4, <2>1, DiscardKeepsNoLoss, RestKeepsReceiveInv, Zenon
           DEF DiscardMalformed, ReceiverOK
<1>5. CASE Persist
  <2>1. rx.pdu \in Pdus /\ sim[rx.slot] = rx.pdu /\ rx.id \in Ids \cup {0}
    BY <1>0, <1>5, Zenon DEF Persist, ReceiveInv, ReceiverTypeOK
  <2>2. NoLoss'
    BY <1>0, <1>5, DiscardKeepsNoLoss, Zenon DEF Persist, SimPdus
  <2>3. CASE InsertNew(rx.pdu) /\ rx' = [rx EXCEPT !.pc = "delete", !.id = NextId]
    <3>1. /\ NextId \in Ids /\ NextId # 0
          /\ pduOf' = [pduOf EXCEPT ![NextId] = rx.pdu]
          /\ status' = [status EXCEPT ![NextId] = "PENDING"]
      BY <2>3, BoundAssumption DEF InsertNew, Ids
    <3>2. status'[NextId] = "PENDING" /\ pduOf'[NextId] = rx.pdu
      BY <3>1, Zenon DEF IInv, TypeOK, BufferTypeOK
    <3>3. rx.pdu \in PendingPdus'
      BY <3>1, <3>2, Zenon DEF PendingPdus
    <3>4. /\ rx' \in [pc : {"idle", "persist", "delete", "push"}, slot : Slots,
                      pdu : Pdus \cup {NoPdu}, id : Ids \cup {0}]
          /\ rx'.pc = "delete" /\ rx'.pdu = rx.pdu /\ rx'.slot = rx.slot /\ rx'.id = NextId
      BY <1>0, <2>3, <3>1, Zenon DEF ReceiverTypeOK
    <3> QED  BY <1>0, <1>5, <2>1, <2>2, <3>1, <3>2, <3>3, <3>4, Zenon
             DEF Persist, ReceiverTypeOK, ReceiveInv, ReceiverOK
  <2>4. CASE InsertIgnored(rx.pdu) /\ rx' = [rx EXCEPT !.pc = "delete"]
    <3>1. rx.pdu \in PendingPdus \cup cloud
      BY <2>4, Zenon DEF InsertIgnored, HasRow, Live, PendingPdus, IInv, DeliveredAtCloud
    <3>2. /\ rx' \in [pc : {"idle", "persist", "delete", "push"}, slot : Slots,
                      pdu : Pdus \cup {NoPdu}, id : Ids \cup {0}]
          /\ rx'.pc = "delete" /\ rx'.pdu = rx.pdu /\ rx'.slot = rx.slot /\ rx'.id = rx.id
      BY <1>0, <2>4, Zenon DEF ReceiverTypeOK
    <3> QED  BY <1>0, <1>5, <2>1, <2>2, <3>1, <3>2, Zenon
             DEF Persist, ReceiverTypeOK, ReceiveInv, ReceiverOK, Stable
  <2>5. CASE rx' = Idle
    <3>1. ReceiverTypeOK'
      BY <1>0, <1>5, <2>5, IdleOK, Zenon DEF Persist, ReceiverTypeOK
    <3> QED  BY <1>0, <2>2, <2>5, <3>1, RestKeepsReceiveInv, Zenon DEF ReceiverOK
  <2> QED  BY <1>5, <2>3, <2>4, <2>5, Zenon DEF Persist
<1>6. CASE DeleteFromSim
  <2>1. /\ rx.pdu \in Pdus /\ sim[rx.slot] = rx.pdu /\ rx.pdu \in PendingPdus \cup cloud
        /\ rx.slot \in Slots
    BY <1>0, <1>6, Zenon DEF DeleteFromSim, ReceiveInv, ReceiverTypeOK
  <2>2. SimPdus \subseteq SimPdus' \cup PendingPdus \cup cloud
    BY <1>0, <1>6, <2>1 DEF DeleteFromSim, DeleteSMS, SimPdus, ReceiverTypeOK
  <2>3. NoLoss'
    BY <1>0, <1>6, <2>2, DiscardKeepsNoLoss, Zenon DEF DeleteFromSim
  <2>4. ReceiverTypeOK'
    BY <1>0, <1>6, DeleteType, IdleOK, Zenon DEF DeleteFromSim, ReceiverTypeOK
  <2>5. CASE rx' = Idle
    BY <1>0, <2>3, <2>4, <2>5, RestKeepsReceiveInv, Zenon DEF ReceiverOK
  <2>6. CASE rx.id # 0 /\ rx' = [rx EXCEPT !.pc = "push"]
    <3>1. rx'.pc = "push" /\ rx'.id = rx.id /\ rx'.pdu = rx.pdu /\ rx.id \in Ids
      BY <1>0, <2>6, Zenon DEF ReceiverTypeOK
    <3>2. ReceiveInv'
      BY <1>0, <2>6, <3>1, Zenon DEF ReceiveInv, Stable
    <3> QED  BY <2>3, <2>4, <3>2, Zenon DEF ReceiverOK
  <2> QED  BY <1>6, <2>5, <2>6, Zenon DEF DeleteFromSim
<1>7. CASE PushReceived
  <2>1. ReceiverTypeOK'
    BY <1>0, <1>7, IdleOK, Zenon DEF PushReceived, ReceiverTypeOK
  <2> QED  BY <1>0, <1>7, <2>1, DiscardKeepsNoLoss, RestKeepsReceiveInv, Zenon
           DEF PushReceived, ReceiverOK, SimPdus
<1>8. CASE CheckCapacity \/ DoDeleteAllSMS
  <2>1. sim' \in [Slots -> Pdus \cup {NoPdu}] /\ discarded' \subseteq Pdus
    BY <1>0, <1>8, DeleteType, NoteType, Zenon DEF CheckCapacity, DoDeleteAllSMS,
       ReceiverTypeOK
  <2>2. checks' \in 0 .. MaxChecks
    BY <1>0, <1>8, ReceiverAssumption DEF CheckCapacity, DoDeleteAllSMS, ReceiverTypeOK
  <2>3. ReceiverTypeOK'
    BY <1>0, <1>8, <2>1, <2>2, Zenon DEF CheckCapacity, DoDeleteAllSMS, ReceiverTypeOK
  <2> QED  BY <1>0, <1>8, <2>3, DiscardKeepsNoLoss, RestKeepsReceiveInv, Zenon
           DEF CheckCapacity, DoDeleteAllSMS, ReceiverOK
<1>9. CASE WorkerFails \/ WorkerRestarts \/ Crash
  <2>1. urcs' \in Seq(Slots) /\ Len(urcs') <= UrcCap
    <3>1. urcs' = urcs \/ urcs' = <<>>
      BY <1>9, Zenon DEF WorkerFails, WorkerRestarts, Crash
    <3>2. <<>> \in Seq(Slots) /\ Len(<<>>) <= UrcCap
      BY EmptyQueue, ReceiverAssumption
    <3> QED  BY <1>0, <3>1, <3>2, Zenon DEF ReceiverTypeOK
  <2>2. rx' = rx \/ rx' = Idle
    BY <1>9, Zenon DEF WorkerFails, WorkerRestarts, Crash
  <2>3. running' \in BOOLEAN /\ UNCHANGED <<sim, arrived, discarded, checks>>
    BY <1>9, Zenon DEF WorkerFails, WorkerRestarts, Crash
  <2>4. ReceiverTypeOK'
    BY <1>0, <2>1, <2>2, <2>3, IdleOK, Zenon DEF ReceiverTypeOK
  <2> QED  BY <1>0, <2>2, <2>3, <2>4, DiscardKeepsNoLoss, RestKeepsReceiveInv, Zenon
           DEF ReceiverOK, SimPdus
<1> QED
  BY ReceiverStepKinds, <1>1, <1>2, <1>3, <1>4, <1>5, <1>6, <1>7, <1>8, <1>9, Zenon

(* The invariant holds at the start. *)
LEMMA InitInv == Init => IInv
<1> SUFFICES ASSUME Init PROVE IInv
  BY Zenon
<1> USE DEF Init, BufferInit, TunnelInit, ReceiverInit
<1>1. BufferTypeOK /\ Allocated
  BY BoundAssumption DEF BufferTypeOK, Allocated, Kinds, Statuses, Ids
<1>2. TunnelTypeOK
  <2>1. outbox \in Seq(Event) /\ Len(outbox) <= OutboxCap /\ wire \in Seq(Event)
        /\ acks \in Seq(Ids)
    BY EmptyQueue, TunnelAssumption
  <2>2. flush \in [pc : {"off", "write", "register", "wait"},
                   by : {"connect", "periodic"}, todo : SUBSET Row,
                   cur : Ids \cup {0}, stale : BOOLEAN, closed : BOOLEAN]
    BY Zenon DEF NoFlush
  <2> QED  BY <2>1, <2>2, Zenon DEF TunnelTypeOK
<1>3. ReceiverTypeOK
  BY IdleOK, EmptyQueue, ReceiverAssumption DEF ReceiverTypeOK
<1>4. CopiesMatch /\ AcksFromCloud
  BY RangeEmpty, Zenon DEF CopiesMatch, AcksFromCloud, NoFlush
<1>5. DeliveredAtCloud /\ FlushInv /\ NoLoss
  BY Zenon DEF DeliveredAtCloud, FlushInv, NoLoss, NoFlush
<1>6. ReceiveInv
  BY IdleOK, Zenon DEF ReceiveInv
<1> QED  BY <1>1, <1>2, <1>3, <1>4, <1>5, <1>6, Zenon DEF IInv, TypeOK

(* Every step keeps the invariant. *)
LEMMA StepInv == IInv /\ [Next]_vars => IInv'
<1> SUFFICES ASSUME IInv, [Next]_vars PROVE IInv'
  BY Zenon
<1> QED  BY StableStep, TunnelTypeStep, DeliveredStep, ReceiverStep, Zenon
         DEF IInv, TypeOK, ReceiverOK

(* The inductive invariant holds in every reachable state of the gateway, crashes,
   lost connections and failed statements included. *)
THEOREM InvHolds == Spec => []IInv
  BY InitInv, StepInv, PTL DEF Spec

(* Every variable of the gateway keeps its type. *)
THEOREM TypeCorrect == Spec => []TypeOK
<1>1. IInv => TypeOK
  BY Zenon DEF IInv
<1> QED  BY <1>1, InvHolds, PTL

(* No message is lost between the network and the cloud. *)
THEOREM NothingLost == Spec => []NoLoss
<1>1. IInv => NoLoss
  BY Zenon DEF IInv
<1> QED  BY <1>1, InvHolds, PTL

(* Only what the cloud has is marked DELIVERED, and so only that is purged. *)
THEOREM DeliveredIsAtCloud == Spec => []DeliveredAtCloud
<1>1. IInv => DeliveredAtCloud
  BY Zenon DEF IInv
<1> QED  BY <1>1, InvHolds, PTL

(* INSERT OR IGNORE keeps a PDU to one live row. *)
LEMMA UniqueStep == IInv /\ OneRowPerPdu /\ [Next]_vars => OneRowPerPdu'
<1> SUFFICES ASSUME IInv, OneRowPerPdu, [Next]_vars PROVE OneRowPerPdu'
  BY Zenon
<1> USE DEF IInv, TypeOK, BufferTypeOK, OneRowPerPdu, Live
<1>1. BufferStep
  BY StepKinds, Zenon
<1>2. CASE UNCHANGED bufferVars
  BY <1>2, Zenon DEF bufferVars
<1>3. CASE \E old \in SUBSET Ids : Purge(old)
  BY <1>3, Zenon DEF Purge
<1>4. CASE MarkDelivered(reader.id)
  BY <1>4, Zenon DEF MarkDelivered
<1>5. CASE InsertNew(rx.pdu)
  BY <1>5 DEF InsertNew, HasRow
<1> QED  BY <1>1, <1>2, <1>3, <1>4, <1>5, Zenon DEF BufferStep

(* Insert stores no PDU in two live rows (INSERT OR IGNORE on pdu_hash). *)
THEOREM OneLiveRow == Spec => []OneRowPerPdu
<1>1. Init => OneRowPerPdu
  BY Zenon DEF Init, BufferInit, OneRowPerPdu, Live
<1> QED  BY <1>1, UniqueStep, InvHolds, PTL DEF Spec

(* An id handed out by Insert never comes to mean another PDU (AUTOINCREMENT). *)
THEOREM IdsKeepMeaning == Spec => IdNamesOnePdu
<1>1. IInv /\ [Next]_vars =>
        [\A i \in Ids : status[i] # "ABSENT" => pduOf'[i] = pduOf[i]]_bufferVars
  BY StableStep, Zenon DEF Stable
<1> QED  BY <1>1, InvHolds, PTL DEF Spec, IdNamesOnePdu

(* MarkDelivered and Purge only move a row forward: PENDING, DELIVERED, gone. *)
THEOREM RowsMoveForward == Spec => RowLifecycle
<1> DEFINE Forward == \A i \in Ids :
             \/ status'[i] = status[i]
             \/ <<status[i], status'[i]>> \in
                  {<<"ABSENT", "PENDING">>, <<"PENDING", "DELIVERED">>,
                   <<"DELIVERED", "PURGED">>}
<1>1. IInv /\ [Next]_vars => [Forward]_bufferVars
  <2> SUFFICES ASSUME IInv, [Next]_vars PROVE Forward \/ UNCHANGED bufferVars
    BY Zenon
  <2> USE DEF IInv, TypeOK, BufferTypeOK
  <2>1. CASE \E old \in SUBSET Ids : Purge(old)
    BY <2>1, Zenon DEF Purge
  <2>2. CASE MarkDelivered(reader.id)
    BY <2>2, Zenon DEF MarkDelivered, Live
  <2>3. CASE rx.pc = "persist" /\ InsertNew(rx.pdu)
    <3>1. status[NextId] = "ABSENT" /\ status' = [status EXCEPT ![NextId] = "PENDING"]
      BY <2>3, BoundAssumption DEF InsertNew, NextId, Allocated, Ids
    <3> QED  BY <3>1, Zenon
  <2> QED  BY StepKinds, <2>1, <2>2, <2>3, Zenon DEF BufferStep
<1> QED  BY <1>1, InvHolds, PTL DEF Spec, RowLifecycle

(* CountsOnlyAcked alone is not inductive: nothing says that the row the flush waits
   for keeps its PDU. An acknowledged row is not ABSENT, so its id is not given away. *)
AckedInv ==
  flush.pc = "wait" /\ flush.closed /\ ~flush.stale =>
    flush.cur \in Ids /\ status[flush.cur] # "ABSENT" /\ pduOf[flush.cur] \in cloud

(* Every step keeps it: a channel is closed by the acknowledgement of its own row. *)
LEMMA AckedStep == IInv /\ AckedInv /\ [Next]_vars => AckedInv'
<1> SUFFICES ASSUME IInv, AckedInv, [Next]_vars  PROVE AckedInv'
  BY Zenon
<1> DEFINE AtCloud(i) == i \in Ids /\ status[i] # "ABSENT" /\ pduOf[i] \in cloud
<1>1. Stable /\ FlushStep
  BY StableStep, TunnelStepKinds, Zenon DEF TunnelStep
<1>2. \A i : AtCloud(i) => AtCloud(i)'
  BY <1>1, Zenon DEF Stable
<1>3. flush \in [pc : {"off", "write", "register", "wait"},
                 by : {"connect", "periodic"}, todo : SUBSET Row,
                 cur : Ids \cup {0}, stale : BOOLEAN, closed : BOOLEAN]
  BY Zenon DEF IInv, TypeOK, TunnelTypeOK
<1>4. CASE UNCHANGED flush
  BY <1>2, <1>4, Zenon DEF AckedInv
<1>5. CASE acks # <<>> /\ flush.cur = Head(acks) /\ flush' = [flush EXCEPT !.closed = TRUE]
  <2>1. Head(acks) \in Range(acks) /\ Head(acks) \in Ids
    BY <1>5, RangeTail, Zenon DEF IInv, TypeOK, TunnelTypeOK
  <2>2. AtCloud(flush.cur)
    BY <1>5, <2>1, Zenon DEF IInv, AcksFromCloud
  <2>3. flush'.cur = flush.cur
    BY <1>3, <1>5, Zenon
  <2> HIDE DEF AtCloud
  <2>4. AtCloud(flush.cur)'
    BY <1>2, <2>2, <2>3, Zenon
  <2> QED  BY <2>4, Zenon DEF AckedInv, AtCloud
<1>6. CASE ~(flush'.pc = "wait" /\ flush'.closed /\ ~flush'.stale)
  BY <1>6, Zenon DEF AckedInv
<1>7. CASE flush' = NoFlush
  BY <1>6, <1>7, Zenon DEF NoFlush
<1>8. CASE \E by \in {"connect", "periodic"}, b \in BOOLEAN :
             flush' = [pc |-> "write", by |-> by, todo |-> PendingRows, cur |-> 0,
                       stale |-> b, closed |-> FALSE]
  <2>1. flush'.pc = "write"
    BY <1>8
  <2> QED  BY <1>6, <2>1, Zenon
<1>9. CASE \/ \E r \in flush.todo :
                flush' = [flush EXCEPT !.pc = "register", !.cur = r.id, !.todo = @ \ {r}]
           \/ flush' = [flush EXCEPT !.pc = "wait", !.closed = FALSE]
           \/ flush' = [flush EXCEPT !.pc = "write", !.cur = 0]
           \/ flush' = [flush EXCEPT !.pc = "write", !.cur = 0, !.closed = FALSE]
  <2>1. ASSUME NEW r \in flush.todo,
               flush' = [flush EXCEPT !.pc = "register", !.cur = r.id, !.todo = @ \ {r}]
        PROVE  flush'.pc = "register"
    BY <1>3, <2>1, Zenon
  <2>2. CASE flush' = [flush EXCEPT !.pc = "wait", !.closed = FALSE]
    <3>1. flush'.closed = FALSE
      BY <1>3, <2>2, Zenon
    <3> QED  BY <1>6, <3>1, Zenon
  <2>3. CASE \/ flush' = [flush EXCEPT !.pc = "write", !.cur = 0]
             \/ flush' = [flush EXCEPT !.pc = "write", !.cur = 0, !.closed = FALSE]
    <3>1. flush'.pc = "write"
      BY <1>3, <2>3, Zenon
    <3> QED  BY <1>6, <3>1, Zenon
  <2> QED  BY <1>6, <1>9, <2>1, <2>2, <2>3, Zenon
<1>10. CASE \E b \in BOOLEAN : flush' = [flush EXCEPT !.stale = TRUE, !.closed = @ \/ b]
  <2>1. flush'.stale
    BY <1>3, <1>10, Zenon
  <2> QED  BY <1>6, <2>1, Zenon
<1> QED  BY <1>1, <1>4, <1>5, <1>7, <1>8, <1>9, <1>10, Zenon DEF FlushStep

(* What a flush counts as delivered while its session lasts has reached the cloud:
   AckDelivered closes only the channel of the row it is called for. *)
THEOREM CountsAreTrue == Spec => []CountsOnlyAcked
<1>1. Init => AckedInv
  BY DEF Init, TunnelInit, NoFlush, AckedInv
<1>2. AckedInv => CountsOnlyAcked
  BY Zenon DEF AckedInv, CountsOnlyAcked
<1> QED  BY <1>1, <1>2, AckedStep, InvHolds, PTL DEF Spec

(* Only flushBuffer adds to the map of pending acknowledgements. *)
LEMMA PendingStep ==
  ASSUME [Next]_vars
  PROVE  pending' \subseteq pending \/ FlushRegister
<1> USE DEF flushVars
<1>1. CASE \/ Alone(DialFails) \/ Alone(BackOff) \/ Alone(LinkDown) \/ Alone(SessionEnd)
           \/ Alone(WriterSend) \/ Alone(WriterPing)
           \/ Alone(WriterHeartbeatFails) \/ Alone(WriterStop)
  BY <1>1, Zenon DEF Alone, DialFails, BackOff, LinkDown, SessionEnd, WriterSend,
     WriterPing,
                     WriterHeartbeatFails, WriterStop
<1>2. ASSUME NEW old \in SUBSET Ids,
             Alone(Connect(old)) \/ Alone(HelloFails(old)) \/ Alone(PurgeTick(old))
      PROVE  pending' \subseteq pending
  BY <1>2, Zenon DEF Alone, Connect, HelloFails, PurgeTick, tunnelVars
<1>3. CASE Alone(ReaderAck) \/ Alone(ReaderMark) \/ Alone(ReaderFails)
  BY <1>3, Zenon DEF Alone, ReaderAck, ReaderMark, ReaderFails
<1>4. ASSUME NEW by \in {"connect", "periodic"}, Alone(FlushStart(by))
      PROVE  pending' \subseteq pending
  BY <1>4, Zenon DEF Alone, FlushStart
<1>5. CASE \/ Alone(FlushReturns) \/ Alone(FlushWrite) \/ Alone(FlushRegister)
           \/ Alone(FlushAcked) \/ Alone(FlushTimeout) \/ Alone(WritesOverlap)
  BY <1>5, Zenon DEF Alone, FlushReturns, FlushWrite, FlushAcked, FlushTimeout,
     WritesOverlap
<1>6. CASE Alone(CloudReceives)
  BY <1>6, Zenon DEF Alone, CloudReceives
<1>7. ASSUME NEW s \in Slots, NEW p \in Pdus, SmsArrives(s, p)
      PROVE  pending' \subseteq pending
  BY <1>7, Zenon DEF SmsArrives, tunnelVars
<1>8. CASE \/ ReadSMS \/ DiscardMalformed \/ Persist \/ DeleteFromSim \/ PushReceived
           \/ CheckCapacity \/ DoDeleteAllSMS
  BY <1>8, Zenon DEF ReadSMS, DiscardMalformed, Persist, DeleteFromSim, PushReceived,
                     CheckCapacity, DoDeleteAllSMS, tunnelVars
<1>9. CASE WorkerFails \/ WorkerRestarts \/ Crash
  BY <1>9, Zenon DEF WorkerFails, WorkerRestarts, Crash, TunnelStart, tunnelVars
<1>10. CASE UNCHANGED vars
  BY <1>10, Zenon DEF vars, tunnelVars
<1> QED
  BY <1>1, <1>2, <1>3, <1>4, <1>5, <1>6, <1>7, <1>8, <1>9, <1>10, ZenonT(30) DEF Next

(* The map of pending acknowledgements never has more than MaxPendingACKs entries,
   although a flush that is cut off leaves its entry behind. *)
THEOREM PendingStaysBounded == Spec => []PendingBounded
<1>1. Init => PendingBounded
  <2> SUFFICES ASSUME Init  PROVE PendingBounded
    BY Zenon
  <2>1. pending = {} /\ MaxPendingACKs \in Nat
    BY TunnelAssumption, Zenon DEF Init, TunnelInit
  <2> QED  BY <2>1, FS_EmptySet DEF PendingBounded
<1>2. IInv /\ PendingBounded /\ [Next]_vars => PendingBounded'
  <2> SUFFICES ASSUME IInv, PendingBounded, [Next]_vars  PROVE PendingBounded'
    BY Zenon
  <2>1. pending \subseteq Ids /\ IsFiniteSet(Ids)
    BY BoundAssumption, FS_Interval DEF IInv, TypeOK, TunnelTypeOK, Ids
  <2>2. IsFiniteSet(pending) /\ Cardinality(pending) \in Nat /\ MaxPendingACKs \in Nat
    BY <2>1, FS_Subset, FS_CardinalityType, TunnelAssumption, Zenon
  <2>3. CASE pending' \subseteq pending
    <3>1. IsFiniteSet(pending') /\ Cardinality(pending') <= Cardinality(pending)
      BY <2>2, <2>3, FS_Subset, Zenon
    <3>2. Cardinality(pending') \in Nat
      BY <3>1, FS_CardinalityType, Zenon
    <3> QED  BY <2>2, <3>1, <3>2 DEF PendingBounded
  <2>4. CASE FlushRegister
    <3>1. CASE pending' = pending
      BY <2>3, <3>1, Zenon
    <3>2. CASE pending' = pending \cup {flush.cur}
               /\ ~(Cardinality(pending) >= MaxPendingACKs)
      <4>1. Cardinality(pending \cup {flush.cur}) = IF flush.cur \in pending
              THEN Cardinality(pending) ELSE Cardinality(pending) + 1
        BY <2>2, FS_AddElement, Zenon
      <4> QED  BY <2>2, <3>2, <4>1 DEF PendingBounded
    <3> QED  BY <2>4, <3>1, <3>2, Zenon DEF FlushRegister
  <2> QED  BY <2>3, <2>4, PendingStep, Zenon
<1> QED  BY <1>1, <1>2, InvHolds, PTL DEF Spec

-----------------------------------------------------------------------------
(* How a step looks from outside: what changes among the PDUs the gateway holds,
   those the cloud has and those given up. *)
LEMMA SFInsert ==
  ASSUME IInv, UNCHANGED sim, UNCHANGED bufferVars
         \/ (rx.pc = "persist" /\ InsertNew(rx.pdu))
  PROVE  Held' = Held
<1>1. CASE UNCHANGED bufferVars
  BY <1>1, Zenon DEF Held, SimPdus, PendingPdus, bufferVars
<1>2. CASE rx.pc = "persist" /\ InsertNew(rx.pdu)
  <2>1. rx.pdu \in SimPdus
    BY <1>2, PduAssumption, Zenon DEF IInv, TypeOK, ReceiverTypeOK, ReceiveInv, SimPdus
  <2>2. /\ NextId \in Ids /\ status[NextId] = "ABSENT"
        /\ pduOf' = [pduOf EXCEPT ![NextId] = rx.pdu]
        /\ status' = [status EXCEPT ![NextId] = "PENDING"]
    BY <1>2, BoundAssumption
    DEF InsertNew, NextId, IInv, TypeOK, BufferTypeOK, Allocated, Ids
  <2>3. PendingPdus' = PendingPdus \cup {rx.pdu}
    BY <2>2, Zenon DEF PendingPdus, IInv, TypeOK, BufferTypeOK
  <2> QED  BY <2>1, <2>3, Zenon DEF Held, SimPdus
<1> QED  BY <1>1, <1>2, Zenon

(* A purge removes only rows that are DELIVERED. *)
LEMMA SFPurge ==
  ASSUME IInv, UNCHANGED sim, NEW old, Purge(old)
  PROVE  Held' = Held
<1>1. pduOf' = pduOf /\ \A i \in Ids : status'[i] = "PENDING" <=> status[i] = "PENDING"
  BY Zenon DEF Purge, IInv, TypeOK, BufferTypeOK
<1> QED  BY <1>1, Zenon DEF Held, SimPdus, PendingPdus

(* A row that is marked DELIVERED is at the cloud. *)
LEMMA SFMark ==
  ASSUME IInv, UNCHANGED sim, reader.pc = "mark", MarkDelivered(reader.id)
  PROVE  Held' \subseteq Held /\ Held \ Held' \subseteq cloud
<1>1. reader.id \in Ids /\ pduOf[reader.id] \in cloud
  BY Zenon DEF IInv, AcksFromCloud
<1>2. /\ pduOf' = pduOf
      /\ \A i \in Ids : status'[i] = "PENDING" => status[i] = "PENDING"
      /\ \A i \in Ids : i # reader.id => status'[i] = status[i]
  BY Zenon DEF MarkDelivered, Live, IInv, TypeOK, BufferTypeOK
<1> QED  BY <1>1, <1>2 DEF Held, SimPdus, PendingPdus

(* The gateway holds PDUs. *)
LEMMA HeldArePdus ==
  ASSUME IInv
  PROVE  Held \subseteq Pdus
  BY DEF Held, SimPdus, PendingPdus, IInv, TypeOK, BufferTypeOK, ReceiverTypeOK, Allocated

(* The cases of SFNext, without the quantifiers. *)
LEMMA SFRelease ==
  ASSUME IInv, Held' \subseteq Held, Held \ Held' \subseteq cloud,
         UNCHANGED <<cloud, discarded>>
  PROVE  SF!SFNext
<1>1. Held \ Held' \in SUBSET Pdus
  BY HeldArePdus, Zenon
<1>2. SF!Release(Held \ Held')
  BY Zenon DEF SF!Release
<1> QED  BY <1>1, <1>2, Zenon DEF SF!SFNext

(* A discard that is on record. *)
LEMMA SFDiscard ==
  ASSUME IInv, NoteDiscarded, UNCHANGED <<cloud, bufferVars>>, SimPdus' \subseteq SimPdus
  PROVE  SF!SFNext
<1>1. Held \ Held' \in SUBSET Pdus
  BY HeldArePdus, Zenon
<1>2. PendingPdus' = PendingPdus
  BY Zenon DEF PendingPdus, bufferVars
<1>3. NoPdu \notin SimPdus /\ SimPdus \ {sim'[s] : s \in Slots} = SimPdus \ SimPdus'
  BY Zenon DEF SimPdus
<1>4. Held' = Held \ (Held \ Held')
  BY <1>2, Zenon DEF Held
<1>5. (Held \ Held') \ cloud
      = SimPdus \ ({sim'[s] : s \in Slots} \cup PendingPdus \cup cloud)
  BY <1>2, <1>3, Zenon DEF Held
<1>6. SF!Discard(Held \ Held')
  BY <1>4, <1>5, Zenon DEF SF!Discard, NoteDiscarded
<1> QED  BY <1>1, <1>6, Zenon DEF SF!SFNext

(* Every step of the gateway is a step of StoreForward, or none. *)
LEMMA SFStep == IInv /\ [Next]_vars => [SF!SFNext]_(SF!sfVars)
<1> SUFFICES ASSUME IInv, [Next]_vars
             PROVE  SF!SFNext \/ UNCHANGED <<Held, cloud, discarded>>
  BY Zenon DEF SF!sfVars
<1>1. CASE UNCHANGED <<sim, discarded, cloud>>
  BY <1>1, StepKinds, SFInsert, SFPurge, SFMark, SFRelease, Zenon DEF BufferStep
<1>2. CASE CloudReceives /\ UNCHANGED receiverVars
  <2>1. UNCHANGED <<Held, discarded>>
    BY <1>2, Zenon DEF CloudReceives, receiverVars, bufferVars, Held, SimPdus, PendingPdus
  <2>2. CASE Head(wire) = Other
    BY <1>2, <2>1, <2>2, Zenon DEF CloudReceives
  <2>3. CASE Head(wire) # Other
    <3>1. Head(wire) \in Event /\ Head(wire) \in Range(wire)
      BY <1>2, RangeTail, Zenon DEF CloudReceives, IInv, TypeOK, TunnelTypeOK
    <3>2. /\ Head(wire) \in Row
          /\ status[Head(wire).id] # "ABSENT" /\ pduOf[Head(wire).id] = Head(wire).pdu
      BY <2>3, <3>1, Zenon DEF Event, IInv, CopiesMatch
    <3>3. Head(wire).pdu \in PendingPdus \cup cloud
      BY <3>2, Zenon DEF Row, PendingPdus, IInv, TypeOK, BufferTypeOK, Statuses,
         DeliveredAtCloud
    <3>4. CASE Head(wire).pdu \in cloud
      BY <1>2, <2>1, <2>3, <3>4, Zenon DEF CloudReceives
    <3>5. CASE Head(wire).pdu \in PendingPdus
      <4>1. SF!Deliver(Head(wire).pdu)
        BY <1>2, <2>1, <2>3, <3>5, Zenon DEF SF!Deliver, CloudReceives, Held
      <4> QED  BY <3>2, <4>1, Zenon DEF SF!SFNext, Row
    <3> QED  BY <3>3, <3>4, <3>5, Zenon
  <2> QED  BY <2>2, <2>3, Zenon
<1>3. ASSUME NEW s \in Slots, NEW p \in Pdus, SmsArrives(s, p)
      PROVE  SF!SFNext
  <2>1. UNCHANGED <<cloud, bufferVars>> /\ discarded' = discarded \ {p}
    BY <1>3, Zenon DEF SmsArrives, tunnelVars, netVars
  <2>2. SimPdus' = SimPdus \cup {p}
    BY <1>3, PduAssumption, Zenon DEF SmsArrives, SimPdus, IInv, TypeOK, ReceiverTypeOK
  <2>3. Held' = Held \cup {p}
    BY <2>1, <2>2, Zenon DEF Held, PendingPdus, bufferVars
  <2>4. SF!Arrive(p)
    BY <2>1, <2>3, Zenon DEF SF!Arrive
  <2> QED  BY <2>4, Zenon DEF SF!SFNext
<1>4. CASE DiscardMalformed \/ CheckCapacity \/ DoDeleteAllSMS
  <2>1. NoteDiscarded /\ UNCHANGED <<cloud, bufferVars>>
    BY <1>4, Zenon DEF DiscardMalformed, CheckCapacity, DoDeleteAllSMS, tunnelVars, netVars
  <2>2. sim' = sim \/ \E S : DeleteSMS(S)
    BY <1>4, Zenon DEF DiscardMalformed, CheckCapacity, DoDeleteAllSMS
  <2>3. SimPdus' \subseteq SimPdus
    BY <2>2, Zenon DEF SimPdus, DeleteSMS
  <2> QED  BY <2>1, <2>3, SFDiscard, Zenon
<1>5. CASE DeleteFromSim
  <2>1. UNCHANGED <<cloud, discarded, bufferVars>>
    BY <1>5, Zenon DEF DeleteFromSim, tunnelVars, netVars
  <2>2. sim[rx.slot] = rx.pdu /\ rx.pdu \in PendingPdus \cup cloud
    BY <1>5, Zenon DEF DeleteFromSim, IInv, ReceiveInv
  <2>3. SimPdus' \subseteq SimPdus /\ SimPdus \ SimPdus' \subseteq {rx.pdu}
    BY <1>5, <2>2 DEF DeleteFromSim, DeleteSMS, SimPdus
  <2>4. PendingPdus' = PendingPdus
    BY <2>1, Zenon DEF PendingPdus, bufferVars
  <2> QED  BY <2>1, <2>2, <2>3, <2>4, SFRelease, Zenon DEF Held
<1>6. CASE ReadSMS \/ Persist \/ PushReceived \/ WorkerFails \/ WorkerRestarts \/ Crash
  BY <1>1, <1>6, Zenon DEF ReadSMS, Persist, PushReceived, WorkerFails, WorkerRestarts,
     Crash,
                    tunnelVars, netVars
<1>7. CASE UNCHANGED receiverVars
  BY <1>1, <1>2, <1>7, StepKinds, Zenon DEF receiverVars, CloudStep
<1> QED  BY ReceiverStepKinds, <1>3, <1>4, <1>5, <1>6, <1>7, Zenon

(* The gateway implements the store-and-forward specification: it holds every
   message until the cloud has it or it discards it on the record. *)
THEOREM Implements == Spec => StoresAndForwards
<1>1. Init => SF!SFInit
  BY DEF Init, BufferInit, TunnelInit, ReceiverInit, SF!SFInit, Held, SimPdus, PendingPdus
<1> QED  BY <1>1, SFStep, InvHolds, PTL DEF Spec, StoresAndForwards, SF!SFSpec
=============================================================================
