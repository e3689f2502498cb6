------------------------------- MODULE Tunnel -------------------------------
(***************************************************************************)
(* The tunnel manager (internal/tunnel/manager.go) and the cloud at the    *)
(* other end of the websocket.                                             *)
(*                                                                         *)
(* Goroutines of a session: the writer and the reader, which runSession    *)
(* waits for; the flush on connect and the periodic flush, which it does   *)
(* not wait for and which may outlive the session. flushMu admits one      *)
(* flush at a time, so one flush record is enough: pc "off" is flushMu     *)
(* free. A flush of a session that is over is stale: its context is        *)
(* cancelled and its connection closed.                                    *)
(*                                                                         *)
(* A message is what the properties tell apart: the row id and the PDU of  *)
(* an SMS_RECEIVED, or Other for an alert or task acknowledgement.         *)
(***************************************************************************)
EXTENDS Buffer

CONSTANTS OutboxCap,      \* capacity of the outbox channel (256 in the code)
          WireCap,        \* bound: messages in transit per direction
          MaxPendingACKs  \* bound of the pending map (1000 in the code)

ASSUME TunnelAssumption == {OutboxCap, WireCap, MaxPendingACKs} \subseteq Nat \ {0}

VARIABLES outbox,     \* events pushed by the workers
          tstate,     \* state of Run's loop
          link,       \* TRUE while the transport carries messages
          cancelled,  \* sessionCtx
          writer,     \* the writer goroutine; "lost": ended by a panic
          reader,     \* the reader goroutine and the ack it is handling
          armed,      \* a read deadline has been set (by the first ping)
          onConnect,  \* the flush-on-connect goroutine has not run yet
          periodic,   \* the periodic flush goroutine is alive
          flush,      \* the flush holding flushMu
          pending,    \* keys of the map buffer_id -> ack channel
          wire,       \* messages in transit to the cloud
          acks,       \* SMS_DELIVERED_ACKs in transit to the gateway
          cloud       \* PDUs the cloud has received

sessionVars == <<link, cancelled, writer, reader, armed, onConnect, periodic>>
flushVars == <<flush, pending>>
netVars == <<wire, acks, cloud>>
tunnelVars == <<outbox, tstate, sessionVars, flushVars, netVars>>

Row == [id : Ids, pdu : Pdus]
Other == [id |-> 0, pdu |-> NoPdu]
Event == Row \cup {Other}
NoFlush == [pc |-> "off", by |-> "connect", todo |-> {}, cur |-> 0,
            stale |-> FALSE, closed |-> FALSE]

TunnelTypeOK ==
  /\ outbox \in Seq(Event) /\ Len(outbox) <= OutboxCap
  /\ tstate \in {"CONNECTING", "CONNECTED", "BACKING_OFF"}
  /\ link \in BOOLEAN /\ cancelled \in BOOLEAN /\ armed \in BOOLEAN
  /\ onConnect \in BOOLEAN /\ periodic \in BOOLEAN
  /\ writer \in {"run", "done", "lost"}
  /\ reader \in [pc : {"read", "mark", "done"}, id : Ids \cup {0}]
  /\ flush \in [pc : {"off", "write", "register", "wait"},
                by : {"connect", "periodic"}, todo : SUBSET Row,
                cur : Ids \cup {0}, stale : BOOLEAN, closed : BOOLEAN]
  /\ pending \subseteq Ids
  /\ wire \in Seq(Event)
  /\ acks \in Seq(Ids)
  /\ cloud \subseteq Pdus

(* NewManager and the start of Run; also the state after a process start. *)
TunnelStart ==
  /\ outbox' = <<>> /\ tstate' = "CONNECTING"
  /\ link' = FALSE /\ cancelled' = TRUE
  /\ writer' = "done" /\ reader' = [pc |-> "done", id |-> 0]
  /\ armed' = FALSE /\ onConnect' = FALSE /\ periodic' = FALSE
  /\ flush' = NoFlush /\ pending' = {}
  /\ wire' = <<>> /\ acks' = <<>>

TunnelInit ==
  /\ outbox = <<>> /\ tstate = "CONNECTING"
  /\ link = FALSE /\ cancelled = TRUE
  /\ writer = "done" /\ reader = [pc |-> "done", id |-> 0]
  /\ armed = FALSE /\ onConnect = FALSE /\ periodic = FALSE
  /\ flush = NoFlush /\ pending = {}
  /\ wire = <<>> /\ acks = <<>>
  /\ cloud = {}

(* Push: a full outbox drops the event. *)
Push(e) ==
  outbox' = IF Len(outbox) < OutboxCap THEN Append(outbox, e) ELSE outbox

-----------------------------------------------------------------------------
(* Run: dial, session, back off. *)

DialFails ==
  /\ tstate = "CONNECTING"
  /\ Spend("link")
  /\ tstate' = "BACKING_OFF"
  /\ UNCHANGED <<bufferVars, outbox, sessionVars, flushVars, netVars>>

(* dial succeeds; runSession purges, sends HELLO and starts its goroutines. *)
Connect(old) ==
  /\ tstate = "CONNECTING"
  /\ Purge(old)
  /\ tstate' = "CONNECTED"
  /\ link' = TRUE /\ cancelled' = FALSE
  /\ writer' = "run" /\ reader' = [pc |-> "read", id |-> 0]
  /\ armed' = FALSE /\ onConnect' = TRUE /\ periodic' = TRUE
  /\ UNCHANGED <<budget, outbox, flushVars, netVars>>

(* dial succeeds, runSession purges, HELLO cannot be written. *)
HelloFails(old) ==
  /\ tstate = "CONNECTING"
  /\ Spend("link")
  /\ Purge(old)
  /\ tstate' = "BACKING_OFF"
  /\ UNCHANGED <<outbox, sessionVars, flushVars, netVars>>

BackOff ==
  /\ tstate = "BACKING_OFF"
  /\ tstate' = "CONNECTING"
  /\ UNCHANGED <<bufferVars, budget, outbox, sessionVars, flushVars, netVars>>

(* The 24 h ticker of the purge goroutine. *)
PurgeTick(old) ==
  /\ tstate = "CONNECTED" /\ ~cancelled
  /\ Purge(old)
  /\ UNCHANGED <<budget, tunnelVars>>

(* The transport fails: what was in transit is lost. The gateway notices only
   when a read or a write fails. *)
LinkDown ==
  /\ link
  /\ Spend("link")
  /\ link' = FALSE
  /\ wire' = <<>> /\ acks' = <<>>
  /\ UNCHANGED <<bufferVars, outbox, tstate, cancelled, writer, reader, armed,
                 onConnect, periodic, flushVars, cloud>>

(* wg.Wait returns; the pending map is drained, every channel in it closed;
   the connection is closed; back off. *)
SessionEnd ==
  /\ tstate = "CONNECTED"
  /\ writer # "run" /\ reader.pc = "done"
  /\ pending' = {}
  /\ flush' = IF flush.pc = "off" THEN flush
              ELSE [flush EXCEPT !.stale = TRUE,
                                 !.closed = @ \/ (flush.pc = "wait" /\ flush.cur \in pending)]
  /\ link' = FALSE /\ cancelled' = TRUE
  /\ wire' = <<>> /\ acks' = <<>>
  /\ periodic' = FALSE
  /\ tstate' = "BACKING_OFF"
  /\ UNCHANGED <<bufferVars, budget, outbox, writer, reader, armed, onConnect,
                 cloud>>

-----------------------------------------------------------------------------
(* The writer goroutine. *)

(* writeJSON on the session's connection succeeds: the message is in transit,
   or lost in a transport that is already down. *)
Written(e) ==
  IF link THEN Len(wire) < WireCap /\ wire' = Append(wire, e) ELSE wire' = wire

WriterSend ==
  /\ writer = "run" /\ outbox # <<>>
  /\ outbox' = Tail(outbox)
  /\ \/ Written(Head(outbox)) /\ UNCHANGED <<writer, cancelled>>
     \/ ~link /\ writer' = "done" /\ cancelled' = TRUE /\ UNCHANGED wire
  /\ UNCHANGED <<bufferVars, budget, tstate, link, reader, armed, onConnect,
                 periodic, flushVars, acks, cloud>>

(* A ping: sets the read deadline first. *)
WriterPing ==
  /\ writer = "run"
  /\ armed' = TRUE
  /\ \/ UNCHANGED <<writer, cancelled>>
     \/ ~link /\ writer' = "done" /\ cancelled' = TRUE
  /\ UNCHANGED <<bufferVars, budget, outbox, tstate, link, reader, onConnect,
                 periodic, flushVars, netVars>>

(* A heartbeat fails: its PendingCount query or its write. A heartbeat that
   succeeds changes nothing here. By default the first ping (30 s) precedes the
   first heartbeat (60 s). *)
WriterHeartbeatFails ==
  /\ writer = "run" /\ armed
  /\ \/ Spend("sql")
     \/ ~link /\ UNCHANGED budget
  /\ writer' = "done" /\ cancelled' = TRUE
  /\ UNCHANGED <<bufferVars, outbox, tstate, link, reader, armed, onConnect,
                 periodic, flushVars, netVars>>

WriterStop ==
  /\ writer = "run" /\ cancelled
  /\ writer' = "done"
  /\ UNCHANGED <<bufferVars, budget, outbox, tstate, link, cancelled, reader,
                 armed, onConnect, periodic, flushVars, netVars>>

-----------------------------------------------------------------------------
(* The reader goroutine: handleInbound and AckDelivered. *)

(* AckDelivered, first half: under ackMu the entry is removed, then its
   channel is closed. *)
ReaderAckClosingAny ==
  /\ reader.pc = "read" /\ acks # <<>>
  /\ reader' = [pc |-> "mark", id |-> Head(acks)]
  /\ acks' = Tail(acks)
  /\ pending' = {}
  /\ flush' = IF flush.pc = "wait" THEN [flush EXCEPT !.closed = TRUE] ELSE flush
  /\ UNCHANGED <<bufferVars, budget, outbox, tstate, link, cancelled, writer,
                 armed, onConnect, periodic, wire, cloud>>
ReaderAck ==
  /\ reader.pc = "read" /\ acks # <<>>
  /\ reader' = [pc |-> "mark", id |-> Head(acks)]
  /\ acks' = Tail(acks)
  /\ pending' = pending \ {Head(acks)}
  /\ flush' = IF flush.pc = "wait" /\ flush.cur = Head(acks) /\ Head(acks) \in pending
              THEN [flush EXCEPT !.closed = TRUE] ELSE flush
  /\ UNCHANGED <<bufferVars, budget, outbox, tstate, link, cancelled, writer,
                 armed, onConnect, periodic, wire, cloud>>

(* AckDelivered, second half: the row is updated; a failed statement is only
   logged. Then the loop checks the context. *)
ReaderMark ==
  /\ reader.pc = "mark"
  /\ \/ MarkDelivered(reader.id) /\ UNCHANGED budget
     \/ Spend("sql") /\ UNCHANGED bufferVars
  /\ reader' = [pc |-> IF cancelled THEN "done" ELSE "read", id |-> 0]
  /\ UNCHANGED <<outbox, tstate, link, cancelled, writer, armed, onConnect,
                 periodic, flushVars, netVars>>

(* ReadMessage fails: the transport is down, or the deadline the last ping set
   passes because there are no more pings. Cancelling the context does not
   interrupt a blocked read. *)
ReaderFails ==
  /\ reader.pc = "read"
  /\ ~link \/ (armed /\ writer # "run")
  /\ reader' = [pc |-> "done", id |-> 0]
  /\ cancelled' = TRUE
  /\ UNCHANGED <<bufferVars, budget, outbox, tstate, link, writer, armed,
                 onConnect, periodic, flushVars, netVars>>

-----------------------------------------------------------------------------
(* flushBuffer. *)

(* TryLock and PendingRows. The lock held by another flush (one of the previous
   session included), an empty result and a failed query all return at once. *)
FlushStart(by) ==
  /\ \/ by = "connect" /\ onConnect /\ onConnect' = FALSE
     \/ by = "periodic" /\ periodic /\ UNCHANGED onConnect
  /\ \/ /\ flush.pc = "off" /\ PendingRows # {}
        /\ flush' = [pc |-> "write", by |-> by, todo |-> PendingRows, cur |-> 0,
                     stale |-> tstate # "CONNECTED", closed |-> FALSE]
        /\ UNCHANGED budget
     \/ (flush.pc # "off" \/ PendingRows = {}) /\ UNCHANGED <<flush, budget>>
     \/ flush.pc = "off" /\ Spend("sql") /\ UNCHANGED flush
  /\ UNCHANGED <<bufferVars, outbox, tstate, link, cancelled, writer, reader,
                 armed, periodic, pending, netVars>>

FlushContext == flush.stale \/ cancelled

(* The context is done, at the top of the loop or while waiting: return,
   leaving a registered entry in the map. Or there are no more rows. *)
FlushReturnsHoldingLock ==
  /\ flush.pc = "write" /\ ~FlushContext /\ flush.todo = {}
  /\ flush' = NoFlush
  /\ UNCHANGED <<bufferVars, budget, outbox, tstate, sessionVars, pending,
                 netVars>>
FlushReturns ==
  /\ \/ flush.pc = "write" /\ (FlushContext \/ flush.todo = {})
     \/ flush.pc = "wait" /\ FlushContext
  /\ flush' = NoFlush
  /\ UNCHANGED <<bufferVars, budget, outbox, tstate, sessionVars, pending,
                 netVars>>

(* The next row, in ascending id, is written. A write on a closed or broken
   connection may fail: return. The check of the context and the write are two
   steps of the code, so a row may be written after the context is done. *)
FlushWrite ==
  /\ flush.pc = "write"
  /\ \E r \in flush.todo :
       /\ \A q \in flush.todo : r.id <= q.id
       /\ \/ /\ ~flush.stale /\ Written(r)
             /\ flush' = [flush EXCEPT !.pc = "register", !.cur = r.id,
                                       !.todo = @ \ {r}]
          \/ /\ flush.stale \/ ~link
             /\ flush' = NoFlush
             /\ UNCHANGED wire
  /\ UNCHANGED <<bufferVars, budget, outbox, tstate, sessionVars, pending,
                 acks, cloud>>

(* Under ackMu, after the write: register the channel, or skip the row when
   the map is full. *)
FlushRegisterUnbounded ==
  /\ flush.pc = "register"
  /\ pending' = pending \cup {flush.cur}
  /\ flush' = [flush EXCEPT !.pc = "wait", !.closed = FALSE]
  /\ UNCHANGED <<bufferVars, budget, outbox, tstate, sessionVars, netVars>>
FlushRegister ==
  /\ flush.pc = "register"
  /\ IF Cardinality(pending) >= MaxPendingACKs
     THEN /\ flush' = [flush EXCEPT !.pc = "write", !.cur = 0]
          /\ UNCHANGED pending
     ELSE /\ pending' = pending \cup {flush.cur}
          /\ flush' = [flush EXCEPT !.pc = "wait", !.closed = FALSE]
  /\ UNCHANGED <<bufferVars, budget, outbox, tstate, sessionVars, netVars>>

(* The channel is closed: count the delivery, go on with the next row. *)
FlushAcked ==
  /\ flush.pc = "wait" /\ flush.closed
  /\ flush' = [flush EXCEPT !.pc = "write", !.cur = 0, !.closed = FALSE]
  /\ UNCHANGED <<bufferVars, budget, outbox, tstate, sessionVars, pending, netVars>>

(* ACKTimeout: drop the entry, go on with the next row. *)
FlushTimeout ==
  /\ flush.pc = "wait"
  /\ pending' = pending \ {flush.cur}
  /\ flush' = [flush EXCEPT !.pc = "write", !.cur = 0, !.closed = FALSE]
  /\ UNCHANGED <<bufferVars, budget, outbox, tstate, sessionVars, netVars>>

(* The writer and a flush write to the connection at the same time, which the
   websocket library does not allow: one of them panics and safe.Go ends its
   goroutine. A writer that ends this way does not cancel the session. *)
WritesOverlap ==
  /\ writer = "run"
  /\ flush.pc = "write" /\ ~flush.stale /\ ~cancelled /\ flush.todo # {}
  /\ Spend("overlap")
  /\ \/ /\ writer' = "lost"
        /\ outbox' \in {outbox} \cup (IF outbox = <<>> THEN {} ELSE {Tail(outbox)})
        /\ UNCHANGED <<flush, periodic>>
     \/ /\ flush' = NoFlush
        /\ periodic' = (periodic /\ flush.by # "periodic")
        /\ UNCHANGED <<writer, outbox>>
  /\ UNCHANGED <<bufferVars, tstate, link, cancelled, reader, armed, onConnect,
                 pending, netVars>>

-----------------------------------------------------------------------------
(* The cloud acknowledges every SMS_RECEIVED it receives, by its buffer_id. *)

CloudReceives ==
  /\ wire # <<>>
  /\ wire' = Tail(wire)
  /\ IF Head(wire) = Other
     THEN UNCHANGED <<acks, cloud>>
     ELSE /\ Len(acks) < WireCap
          /\ acks' = Append(acks, Head(wire).id)
          /\ cloud' = cloud \cup {Head(wire).pdu}
  /\ UNCHANGED <<bufferVars, budget, outbox, tstate, sessionVars, flushVars>>

(* What the scheduler, the timers and a cloud that answers guarantee. No
   assumption is made on failures beyond their budget. *)
TunnelFairness ==
  /\ WF_<<tunnelVars, bufferVars>>(\E old \in SUBSET Ids : Connect(old))
  /\ WF_<<tunnelVars>>(BackOff) /\ WF_<<tunnelVars>>(SessionEnd)
  /\ WF_<<tunnelVars>>(WriterSend) /\ WF_<<tunnelVars>>(WriterPing)
  /\ WF_<<tunnelVars>>(WriterStop)
  /\ WF_<<tunnelVars>>(ReaderAck) /\ WF_<<tunnelVars, bufferVars>>(ReaderMark)
  /\ WF_<<tunnelVars>>(ReaderFails)
  /\ \A by \in {"connect", "periodic"} : WF_<<tunnelVars>>(FlushStart(by))
  /\ WF_<<tunnelVars>>(FlushReturns) /\ WF_<<tunnelVars>>(FlushWrite)
  /\ WF_<<tunnelVars>>(FlushRegister) /\ WF_<<tunnelVars>>(FlushAcked \/ FlushTimeout)
  /\ WF_<<tunnelVars>>(CloudReceives)
=============================================================================
