-------------------------------- MODULE Dedup -------------------------------
(***************************************************************************)
(* The duplicate filter for outgoing messages (internal/dedup): a ring of  *)
(* the last RingSize fingerprints with the times they were recorded. A     *)
(* call reads the clock before it takes the lock, so that calls that       *)
(* overlap may use their clock readings out of order. A message is its     *)
(* fingerprint.                                                            *)
(***************************************************************************)
EXTENDS Clock, Sequences

CONSTANTS Messages,    \* fingerprints
          Senders,     \* goroutines that call IsDuplicate
          RingSize,    \* maxSize (100)
          Window,      \* window, in ticks
          DedupTime,   \* bound: ticks
          MaxAccepted, \* bound: messages recorded
          NoMessage

ASSUME DedupAssumption ==
  /\ RingSize \in Nat \ {0} /\ Window \in Nat /\ {DedupTime, MaxAccepted} \subseteq Nat
  /\ NoMessage \notin Messages

VARIABLES ring,     \* Dedup.entries
          asking,   \* [Senders -> the call that has read the clock]
          accepted  \* history: everything recorded, in order

dedupVars == <<ring, asking, accepted>>

Fingerprint == [key : Messages, ts : 0 .. DedupTime]
NoAsk == [key |-> NoMessage, ts |-> 0]

DedupTypeOK ==
  /\ now \in 0 .. DedupTime
  /\ ring \in Seq(Fingerprint) /\ Len(ring) <= RingSize
  /\ asking \in [Senders -> Fingerprint \cup {NoAsk}]
  /\ accepted \in Seq(Fingerprint)

DedupInit ==
  /\ now = 0 /\ ring = <<>> /\ accepted = <<>>
  /\ asking = [s \in Senders |-> NoAsk]

DedupTick == Advance(DedupTime) /\ UNCHANGED dedupVars

(* IsDuplicate up to the lock. *)
Ask(s, m) ==
  /\ asking[s] = NoAsk
  /\ asking' = [asking EXCEPT ![s] = [key |-> m, ts |-> now]]
  /\ UNCHANGED <<now, ring, accepted>>

(* now.Sub(e.ts) < window; a clock reading from before the entry counts. *)
Recent(e, a) == e.key = a.key /\ a.ts < e.ts + Window

RingWithRoomAhead(r) == IF Len(r) + 1 >= RingSize THEN Tail(r) ELSE r
RingWithRoom(r) == IF Len(r) >= RingSize THEN Tail(r) ELSE r

(* The rest of it, under the lock. *)
IsDuplicate(s) ==
  LET a == asking[s]
      dup == \E k \in DOMAIN ring : Recent(ring[k], a)
  IN /\ a # NoAsk
     /\ \/ dup /\ UNCHANGED <<ring, accepted>>
        \/ /\ ~dup /\ Len(accepted) < MaxAccepted
           /\ ring' = Append(RingWithRoom(ring), a)
           /\ accepted' = Append(accepted, a)
     /\ asking' = [asking EXCEPT ![s] = NoAsk]
     /\ UNCHANGED now

DedupNext == DedupTick \/ \E s \in Senders : IsDuplicate(s) \/ \E m \in Messages : Ask(s, m)
DedupSpec == DedupInit /\ [][DedupNext]_<<now, dedupVars>>

-----------------------------------------------------------------------------
(* A message passes a second time within the window only when RingSize others
   were recorded since: neither overlapping calls with clock readings out of
   order nor the eviction of expired entries lets one through earlier. *)
RepeatedOnlyAfterEviction ==
  \A i, j \in DOMAIN accepted :
    (i < j /\ Recent(accepted[i], accepted[j])) => j - i > RingSize

(* A message is suppressed only if the same one was recorded less than the window
   before it was asked about, by the clock, or after that. *)
SuppressedIsRepeat ==
  \A s \in Senders :
    asking[s] # NoAsk /\ asking'[s] = NoAsk /\ accepted' = accepted =>
      \E k \in DOMAIN accepted : /\ accepted[k].key = asking[s].key
                                 /\ asking[s].ts < accepted[k].ts + Window

(* Repeated messages are suppressed and no others, as far as the ring reaches. *)
SuppressesRepeats ==
  [][SuppressedIsRepeat /\ RepeatedOnlyAfterEviction']_<<now, dedupVars>>

(* The ring holds the newest accepted entries, in their order. *)
RingHolds(r, acc) ==
  /\ Len(r) = IF Len(acc) < RingSize THEN Len(acc) ELSE RingSize
  /\ \A k \in 1 .. Len(r) : r[k] = acc[Len(acc) - Len(r) + k]

(* The inductive invariant. *)
DedupInv == DedupTypeOK /\ RepeatedOnlyAfterEviction /\ RingHolds(ring, accepted)
=============================================================================
