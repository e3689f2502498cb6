------------------------------ MODULE Receiver ------------------------------
(***************************************************************************)
(* The receiving side of a modem worker (internal/modem/worker.go): the    *)
(* SIM, the queue of +CMTI notifications the AT serializer fills, and      *)
(* receiveSMS step by step, so that a crash, a failed command or a step of *)
(* the tunnel may fall between any two steps.                              *)
(***************************************************************************)
EXTENDS Tunnel

CONSTANTS Slots,     \* the SIM's storage
          BadPdus,   \* PDUs DecodePDU rejects
          UrcCap,    \* capacity of URCCH (64 in the code)
          WarnPct,   \* sim_capacity_warn_pct
          PurgePct,  \* sim_capacity_purge_pct
          MaxChecks  \* bound: SIM capacity checks and DELETE_ALL_SMS tasks

ASSUME ReceiverAssumption ==
  /\ BadPdus \subseteq Pdus
  /\ UrcCap \in Nat \ {0}
  /\ WarnPct \in Nat /\ PurgePct \in Nat /\ MaxChecks \in Nat
  /\ IsFiniteSet(Slots) /\ Slots # {}

VARIABLES sim,      \* [Slots -> PDU stored there, or NoPdu]
          urcs,     \* URCCH: slots announced by +CMTI
          running,  \* the worker's main loop is running
          rx,       \* receiveSMS: next step, slot, PDU read, row id (0: duplicate)
          arrived,  \* history: PDUs the network has delivered to the SIM
          discarded, \* history: PDUs deleted from the SIM without being stored
          checks    \* capacity checks and DELETE_ALL_SMS tasks so far

receiverVars == <<sim, urcs, running, rx, arrived, discarded, checks>>

Idle == [pc |-> "idle", slot |-> CHOOSE s \in Slots : TRUE, pdu |-> NoPdu, id |-> 0]

ReceiverTypeOK ==
  /\ sim \in [Slots -> Pdus \cup {NoPdu}]
  /\ urcs \in Seq(Slots) /\ Len(urcs) <= UrcCap
  /\ running \in BOOLEAN
  /\ rx \in [pc : {"idle", "persist", "delete", "push"}, slot : Slots,
             pdu : Pdus \cup {NoPdu}, id : Ids \cup {0}]
  /\ arrived \subseteq Pdus
  /\ discarded \subseteq Pdus
  /\ checks \in 0 .. MaxChecks

ReceiverInit ==
  /\ sim = [s \in Slots |-> NoPdu]
  /\ urcs = <<>> /\ running = TRUE /\ rx = Idle
  /\ arrived = {} /\ discarded = {} /\ checks = 0

SimPdus == {sim[s] : s \in Slots} \ {NoPdu}

(* AT+CMGD of the slots in S: they are emptied, also when the answer is lost, or
   the command fails. *)
DeleteSMS(S) ==
  \/ /\ sim' = [s \in Slots |-> IF s \in S THEN NoPdu ELSE sim[s]]
     /\ UNCHANGED budget \/ Spend("at")
  \/ Spend("at") /\ UNCHANGED sim

(* History: what leaves the SIM and is then neither there, nor in a PENDING row,
   nor at the cloud. *)
NoteDiscarded ==
  discarded' = discarded \cup
    (SimPdus \ ({sim'[s] : s \in Slots} \cup PendingPdus \cup cloud))

-----------------------------------------------------------------------------
(* The network stores a message; the modem announces it with +CMTI. The reader
   of the serializer queues the line, dropping the oldest of a full queue.
   With the port closed the line goes nowhere. *)
SmsArrives(s, p) ==
  /\ sim[s] = NoPdu
  /\ Spend("sms")
  /\ sim' = [sim EXCEPT ![s] = p]
  /\ arrived' = arrived \cup {p}
  /\ discarded' = discarded \ {p}
  /\ urcs' = IF ~running THEN urcs
             ELSE Append(IF Len(urcs) < UrcCap THEN urcs ELSE Tail(urcs), s)
  /\ UNCHANGED <<bufferVars, tunnelVars, running, rx, checks>>

(* handleURC, and step 1 of receiveSMS: AT+CMGR. It fails on an empty slot. *)
ReadSMS ==
  /\ running /\ rx.pc = "idle" /\ urcs # <<>>
  /\ urcs' = Tail(urcs)
  /\ \/ /\ sim[Head(urcs)] # NoPdu
        /\ rx' = [pc |-> "persist", slot |-> Head(urcs), pdu |-> sim[Head(urcs)], id |-> 0]
        /\ UNCHANGED budget
     \/ sim[Head(urcs)] = NoPdu /\ UNCHANGED <<rx, budget>>
     \/ Spend("at") /\ UNCHANGED rx
  /\ UNCHANGED <<bufferVars, tunnelVars, sim, running, arrived, discarded, checks>>

(* Step 2: a PDU that cannot be decoded is deleted from the SIM. *)
DiscardMalformed ==
  /\ rx.pc = "persist" /\ rx.pdu \in BadPdus
  /\ DeleteSMS({rx.slot})
  /\ NoteDiscarded
  /\ rx' = Idle
  /\ UNCHANGED <<bufferVars, tunnelVars, urcs, running, arrived, checks>>

(* Step 3: Insert. A failed statement leaves the message on the SIM. *)
PersistIgnoringErrors ==
  /\ rx.pc = "persist" /\ rx.pdu \notin BadPdus
  /\ \/ InsertNew(rx.pdu) /\ rx' = [rx EXCEPT !.pc = "delete", !.id = NextId]
        /\ UNCHANGED budget
     \/ InsertIgnored(rx.pdu) /\ rx' = [rx EXCEPT !.pc = "delete"] /\ UNCHANGED budget
     \/ Spend("sql") /\ rx' = [rx EXCEPT !.pc = "delete"] /\ UNCHANGED bufferVars
  /\ UNCHANGED <<tunnelVars, sim, urcs, running, arrived, discarded, checks>>
Persist ==
  /\ rx.pc = "persist" /\ rx.pdu \notin BadPdus
  /\ \/ InsertNew(rx.pdu) /\ rx' = [rx EXCEPT !.pc = "delete", !.id = NextId]
        /\ UNCHANGED budget
     \/ InsertIgnored(rx.pdu) /\ rx' = [rx EXCEPT !.pc = "delete"] /\ UNCHANGED budget
     \/ Spend("sql") /\ rx' = Idle /\ UNCHANGED bufferVars
  /\ UNCHANGED <<tunnelVars, sim, urcs, running, arrived, discarded, checks>>

(* Step 4: delete from the SIM; a failure is not fatal. A duplicate ends here. *)
DeleteFromSimIfOnline ==
  /\ rx.pc = "delete"
  /\ IF tstate = "CONNECTED" THEN DeleteSMS({rx.slot}) ELSE UNCHANGED <<sim, budget>>
  /\ rx' = IF rx.id = 0 THEN Idle ELSE [rx EXCEPT !.pc = "push"]
  /\ UNCHANGED <<bufferVars, tunnelVars, urcs, running, arrived, discarded, checks>>
DeleteFromSim ==
  /\ rx.pc = "delete"
  /\ DeleteSMS({rx.slot})
  /\ rx' = IF rx.id = 0 THEN Idle ELSE [rx EXCEPT !.pc = "push"]
  /\ UNCHANGED <<bufferVars, tunnelVars, urcs, running, arrived, discarded, checks>>

(* Step 5: eventFn, which is the manager's Push. *)
PushReceived ==
  /\ rx.pc = "push"
  /\ Push([id |-> rx.id, pdu |-> rx.pdu])
  /\ rx' = Idle
  /\ UNCHANGED <<bufferVars, budget, tstate, sessionVars, flushVars, netVars,
                 sim, urcs, running, arrived, discarded, checks>>

-----------------------------------------------------------------------------
UsedPct == (Cardinality({s \in Slots : sim[s] # NoPdu}) * 100) \div Cardinality(Slots)

(* checkCapacity, when it has something to say: an alert, and above the purge
   threshold DeleteAllSMS. *)
CheckCapacity ==
  /\ running /\ rx.pc = "idle" /\ checks < MaxChecks
  /\ UsedPct >= PurgePct \/ UsedPct >= WarnPct
  /\ checks' = checks + 1
  /\ Push(Other)
  /\ \/ UsedPct >= PurgePct /\ DeleteSMS(Slots)
     \/ UsedPct < PurgePct /\ UNCHANGED <<sim, budget>>
  /\ NoteDiscarded
  /\ UNCHANGED <<bufferVars, tstate, sessionVars, flushVars, netVars, urcs,
                 running, rx, arrived>>

(* The DELETE_ALL_SMS task, and its TASK_ACK. *)
DoDeleteAllSMS ==
  /\ running /\ rx.pc = "idle" /\ checks < MaxChecks
  /\ checks' = checks + 1
  /\ DeleteSMS(Slots)
  /\ NoteDiscarded
  /\ Push(Other)
  /\ UNCHANGED <<bufferVars, tstate, sessionVars, flushVars, netVars, urcs,
                 running, rx, arrived>>

(* The worker leaves its main loop (FAILED): its port and its queue are gone.
   The supervisor starts another one, which does not list the SIM. *)
WorkerFails ==
  /\ running /\ rx.pc = "idle"
  /\ Spend("at")
  /\ running' = FALSE /\ urcs' = <<>>
  /\ UNCHANGED <<bufferVars, tunnelVars, sim, rx, arrived, discarded, checks>>

WorkerRestarts ==
  /\ ~running
  /\ running' = TRUE
  /\ UNCHANGED <<bufferVars, budget, tunnelVars, sim, urcs, rx, arrived, discarded, checks>>

(* The worker's loop and its supervisor keep running. *)
ReceiverFairness ==
  /\ WF_receiverVars(ReadSMS) /\ WF_receiverVars(DiscardMalformed)
  /\ WF_receiverVars(Persist) /\ WF_receiverVars(DeleteFromSim)
  /\ WF_receiverVars(PushReceived) /\ WF_receiverVars(WorkerRestarts)
=============================================================================
