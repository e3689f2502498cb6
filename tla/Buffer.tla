------------------------------- MODULE Buffer -------------------------------
(***************************************************************************)
(* The SQLite store of received messages (internal/buffer/buffer.go).      *)
(*                                                                         *)
(* A row is known by its AUTOINCREMENT id. pduOf[i] is the PDU (its hash,  *)
(* in the code) stored under id i, status[i] the life of that row. A row   *)
(* deleted by Purge is PURGED: its pduOf is kept as history, so that what  *)
(* a late acknowledgement of the id refers to can be stated.               *)
(*                                                                         *)
(* Failures are budgeted: each kind may happen at most the given number of *)
(* times in a behaviour, which is also how "failures eventually stop" is   *)
(* said in the liveness runs.                                              *)
(***************************************************************************)
EXTENDS Naturals, Sequences, FiniteSetsExt

CONSTANTS Pdus,         \* the PDUs the network may deliver
          NoPdu,        \* "no PDU"
          MaxRows,      \* bound: ids handed out
          MaxSms,       \* bound: messages arriving from the network
          MaxSqlErrors, \* bound: failed SQLite statements
          MaxAtErrors,  \* bound: failed AT commands and worker restarts
          MaxLinkDowns, \* bound: lost connections and failed dials
          MaxCrashes,   \* bound: process crashes
          MaxOverlaps   \* bound: overlapping writes to the websocket

ASSUME PduAssumption == NoPdu \notin Pdus
ASSUME BoundAssumption ==
  /\ MaxRows \in Nat
  /\ {MaxSms, MaxSqlErrors, MaxAtErrors,
      MaxLinkDowns, MaxCrashes, MaxOverlaps} \subseteq Nat

Ids == 1 .. MaxRows

VARIABLES seq,     \* sqlite_sequence: the last id handed out
          pduOf,   \* [Ids -> PDU of the row]
          status,  \* [Ids -> life of the row]
          budget   \* failures that may still happen, per kind

bufferVars == <<seq, pduOf, status>>

Statuses == {"ABSENT", "PENDING", "DELIVERED", "PURGED"}
Kinds == {"sms", "sql", "at", "link", "crash", "overlap"}

BufferTypeOK ==
  /\ seq \in 0 .. MaxRows
  /\ pduOf \in [Ids -> Pdus \cup {NoPdu}]
  /\ status \in [Ids -> Statuses]
  /\ budget \in [Kinds -> Nat]

(* Open: the schema on a fresh database. *)
BufferInit ==
  /\ seq = 0
  /\ pduOf = [i \in Ids |-> NoPdu]
  /\ status = [i \in Ids |-> "ABSENT"]
  /\ budget = [sms |-> MaxSms, sql |-> MaxSqlErrors,
               at |-> MaxAtErrors, link |-> MaxLinkDowns,
               crash |-> MaxCrashes, overlap |-> MaxOverlaps]

Spend(kind) == /\ budget[kind] > 0
               /\ budget' = [budget EXCEPT ![kind] = @ - 1]

(* The rows a SELECT sees. *)
Live(i) == status[i] \in {"PENDING", "DELIVERED"}
HasRow(p) == \E i \in Ids : Live(i) /\ pduOf[i] = p

(* AUTOINCREMENT: an id is never handed out twice, even when the row that
   had it is gone. *)
NextIdReused == 1 + Max({0} \cup {i \in Ids : Live(i)})
NextId == seq + 1

(* Insert, the statement that adds a row. *)
InsertNew(p) ==
  /\ ~HasRow(p)
  /\ NextId \in Ids
  /\ seq' = NextId
  /\ pduOf' = [pduOf EXCEPT ![NextId] = p]
  /\ status' = [status EXCEPT ![NextId] = "PENDING"]

(* Insert, OR IGNORE: pdu_hash is UNIQUE and a live row has it. *)
InsertIgnored(p) == HasRow(p) /\ UNCHANGED bufferVars

MarkDeliveredUpTo(i) ==
  /\ status' = [j \in Ids |-> IF Live(j) /\ j <= i THEN "DELIVERED" ELSE status[j]]
  /\ UNCHANGED <<seq, pduOf>>
MarkDelivered(i) ==
  /\ status' = [status EXCEPT ![i] = IF Live(i) THEN "DELIVERED" ELSE @]
  /\ UNCHANGED <<seq, pduOf>>

(* Purge: old is the set of ids whose created_at is before the cutoff. A
   failed statement has the effect of an empty one. *)
PurgeAll(old) ==
  /\ status' = [i \in Ids |-> IF Live(i) /\ i \in old THEN "PURGED" ELSE status[i]]
  /\ UNCHANGED <<seq, pduOf>>
Purge(old) ==
  /\ status' = [i \in Ids |->
                  IF status[i] = "DELIVERED" /\ i \in old THEN "PURGED" ELSE status[i]]
  /\ UNCHANGED <<seq, pduOf>>

(* PendingRows, as a set: flushBuffer takes its rows in ascending id. *)
PendingRows == {[id |-> i, pdu |-> pduOf[i]] : i \in {j \in Ids : status[j] = "PENDING"}}

PendingPdus == {pduOf[i] : i \in {j \in Ids : status[j] = "PENDING"}}

-----------------------------------------------------------------------------
(* INSERT OR IGNORE on a UNIQUE pdu_hash: no PDU is stored in two live rows,
   whatever the worker re-reads from the SIM. *)
OneRowPerPdu ==
  \A i, j \in Ids : Live(i) /\ Live(j) /\ pduOf[i] = pduOf[j] => i = j

(* An id names one PDU for ever: neither a new insert nor a purge changes
   what an id that was handed out refers to. *)
IdNamesOnePdu ==
  [][\A i \in Ids : status[i] # "ABSENT" => pduOf'[i] = pduOf[i]]_bufferVars

(* Rows move only forward, and only a row the cloud acknowledged is deleted:
   PENDING -> DELIVERED -> PURGED. *)
RowLifecycle ==
  [][\A i \in Ids :
       \/ status'[i] = status[i]
       \/ <<status[i], status'[i]>> \in
            {<<"ABSENT", "PENDING">>, <<"PENDING", "DELIVERED">>,
             <<"DELIVERED", "PURGED">>}]_bufferVars
=============================================================================
