------------------------------- MODULE SmsPath ------------------------------
(***************************************************************************)
(* The path of a received message through the whole gateway: SIM, worker,  *)
(* buffer, tunnel, cloud, and back as an acknowledgement, with process     *)
(* crashes. What is on the SIM, in the database and at the cloud survives  *)
(* a crash; channels, maps and goroutines do not.                          *)
(***************************************************************************)
EXTENDS Receiver

vars == <<bufferVars, budget, tunnelVars, receiverVars>>

Init == BufferInit /\ TunnelInit /\ ReceiverInit

(* The process dies and is started again. *)
Crash ==
  /\ Spend("crash")
  /\ TunnelStart
  /\ urcs' = <<>> /\ running' = TRUE /\ rx' = Idle
  /\ UNCHANGED <<bufferVars, cloud, sim, arrived, discarded, checks>>

(* A step of the tunnel leaves the worker alone. *)
Alone(A) == A /\ UNCHANGED receiverVars

Next ==
  \/ Alone(DialFails) \/ Alone(BackOff) \/ Alone(LinkDown) \/ Alone(SessionEnd)
  \/ \E old \in SUBSET Ids :
       Alone(Connect(old)) \/ Alone(HelloFails(old)) \/ Alone(PurgeTick(old))
  \/ Alone(WriterSend) \/ Alone(WriterPing)
  \/ Alone(WriterHeartbeatFails) \/ Alone(WriterStop)
  \/ Alone(ReaderAck) \/ Alone(ReaderMark) \/ Alone(ReaderFails)
  \/ \E by \in {"connect", "periodic"} : Alone(FlushStart(by))
  \/ Alone(FlushReturns) \/ Alone(FlushWrite) \/ Alone(FlushRegister)
  \/ Alone(FlushAcked) \/ Alone(FlushTimeout) \/ Alone(WritesOverlap)
  \/ Alone(CloudReceives)
  \/ \E s \in Slots, p \in Pdus : SmsArrives(s, p)
  \/ ReadSMS \/ DiscardMalformed \/ Persist \/ DeleteFromSim \/ PushReceived
  \/ CheckCapacity \/ DoDeleteAllSMS \/ WorkerFails \/ WorkerRestarts
  \/ Crash

Spec == Init /\ [][Next]_vars

FairSpec == Spec /\ TunnelFairness /\ ReceiverFairness

-----------------------------------------------------------------------------
TypeOK == BufferTypeOK /\ TunnelTypeOK /\ ReceiverTypeOK

(* Where the gateway still holds a PDU. *)
Held == SimPdus \cup PendingPdus

(* No message is lost between the network and the cloud: whatever arrived is on
   the SIM, in a PENDING row or at the cloud, unless the worker deleted it from
   the SIM on purpose. No crash, lost connection, failed statement or command,
   dropped event, purge or late acknowledgement removes the last copy; in
   particular receiveSMS deletes from the SIM only what it has stored. *)
NoLoss == arrived \subseteq Held \cup cloud \cup discarded

(* A row is DELIVERED, and may be purged, only when the cloud has its PDU: an
   acknowledgement never marks a row it was not sent for. *)
DeliveredAtCloud ==
  \A i \in Ids : status[i] \in {"DELIVERED", "PURGED"} => pduOf[i] \in cloud

(* Every copy of a row outside the database says the same as the database. *)
CopiesMatch ==
  \A e \in Range(outbox) \cup Range(wire) \cup flush.todo :
    e # Other => status[e.id] # "ABSENT" /\ pduOf[e.id] = e.pdu

(* Ids are handed out in order, and only to rows with a PDU. *)
Allocated ==
  \A i \in Ids : /\ status[i] = "ABSENT" <=> i > seq
                 /\ status[i] # "ABSENT" => pduOf[i] \in Pdus

(* An acknowledgement on its way, or being handled, is for a row the cloud has. *)
AcksFromCloud ==
  /\ \A i \in Range(acks) : status[i] # "ABSENT" /\ pduOf[i] \in cloud
  /\ reader.pc = "mark" =>
       reader.id \in Ids /\ status[reader.id] # "ABSENT" /\ pduOf[reader.id] \in cloud

(* What receiveSMS knows at each of its steps. *)
ReceiveInv ==
  /\ rx.pc \in {"persist", "delete"} => rx.pdu \in Pdus /\ sim[rx.slot] = rx.pdu
  /\ rx.pc = "delete" => rx.pdu \in PendingPdus \cup cloud
  /\ rx.pc = "push" => rx.id # 0
  /\ rx.id # 0 => rx.pdu \in Pdus /\ status[rx.id] # "ABSENT" /\ pduOf[rx.id] = rx.pdu

(* The row a flush has written is a row. *)
FlushInv == flush.pc \in {"register", "wait"} => flush.cur \in Ids

(* The inductive invariant behind NoLoss and DeliveredAtCloud. *)
IInv == /\ TypeOK /\ Allocated /\ CopiesMatch /\ AcksFromCloud
        /\ DeliveredAtCloud /\ ReceiveInv /\ FlushInv /\ NoLoss

(* The map of pending acknowledgements stays within MaxPendingACKs, entries a
   flush left behind when its session ended included. *)
PendingBounded == Cardinality(pending) <= MaxPendingACKs

(* Seen from outside, the gateway is a store that forwards: the store is the SIM
   and the PENDING rows together. *)
SF == INSTANCE StoreForward WITH held <- Held, atCloud <- cloud, givenUp <- discarded
StoresAndForwards == SF!SFSpec

(* At-least-once delivery: once failures stop, every row is acknowledged; none stays
   PENDING for ever. *)
EventuallyDelivered == \A i \in Ids : []<>(status[i] # "PENDING")

(* What README.md calls SQLite-before-SIM-delete: a message that can be decoded
   is never deleted from the SIM before it is stored. *)
StoredBeforeSimDelete == discarded \subseteq BadPdus

(* The message in slot s is announced, or receiveSMS is at it. *)
InHand(s) == s \in Range(urcs) \/ (rx.pc \in {"persist", "delete"} /\ rx.slot = s)

(* A statement or a command has failed, a worker among them, the process has died, or
   more messages have come than URCCH has room for. *)
Disturbed ==
  \/ budget["sql"] < MaxSqlErrors \/ budget["at"] < MaxAtErrors
  \/ budget["crash"] < MaxCrashes \/ MaxSms - budget["sms"] > UrcCap

(* A message on the SIM is taken from it in the end. It is left there only when
   receiveSMS has given it up, or was never told of it, and only when something failed
   (a statement, AT+CMGR, AT+CMGD, the worker, the process) or the queue of announcements
   ran over: nothing comes back to it then. No message stays announced for ever. *)
SimEventuallyRead ==
  \A s \in Slots : []<>(sim[s] = NoPdu \/ (~InHand(s) /\ Disturbed))

(* What a flush counts in smsgate_sms_delivered_total while its session lasts is
   at the cloud: its channel is closed by the acknowledgement of its own row. *)
CountsOnlyAcked ==
  flush.pc = "wait" /\ flush.closed /\ ~flush.stale => pduOf[flush.cur] \in cloud
=============================================================================
