--------------------------- MODULE StorageProofs ----------------------------
(* What the queues and the filter promise, for every value of their constants: the
   queue on disk, the filter for repeated messages and the dead letter queue. *)
EXTENDS DiskQueue, Dedup, Dlq, TLAPS

-----------------------------------------------------------------------------
(* What the provers know of sequences, in the form the proofs below use. *)
LEMMA LenFacts ==
  ASSUME NEW S, NEW s \in Seq(S)
  PROVE  /\ Len(s) \in Nat /\ DOMAIN s = 1 .. Len(s) /\ s \in [1 .. Len(s) -> S]
         /\ \A i \in 1 .. Len(s) : s[i] \in S
         /\ Len(s) = 0 <=> s = <<>>
OBVIOUS

(* A function on 1 .. n is a sequence. *)
LEMMA FunctionIsSeq ==
  ASSUME NEW S, NEW n \in Nat, NEW f \in [1 .. n -> S]
  PROVE  f \in Seq(S) /\ Len(f) = n
OBVIOUS

(* The elements of a sequence that grows. *)
LEMMA AppendFacts ==
  ASSUME NEW S, NEW s \in Seq(S), NEW e \in S
  PROVE  /\ Append(s, e) \in Seq(S) /\ Len(s) \in Nat /\ Len(Append(s, e)) = Len(s) + 1
         /\ Append(s, e)[Len(s) + 1] = e /\ \A i \in 1 .. Len(s) : Append(s, e)[i] = s[i]
OBVIOUS

(* The elements of two sequences, one after the other. *)
LEMMA ConcatFacts ==
  ASSUME NEW S, NEW s \in Seq(S), NEW t \in Seq(S)
  PROVE  /\ s \o t \in Seq(S) /\ Len(s) \in Nat /\ Len(t) \in Nat
         /\ Len(s \o t) = Len(s) + Len(t)
         /\ \A i \in 1 .. Len(s) + Len(t) : (s \o t)[i] = IF i <= Len(s) THEN s[i]
              ELSE t[i - Len(s)]
OBVIOUS

(* A sequence with one element replaced. *)
LEMMA ExceptFacts ==
  ASSUME NEW S, NEW s \in Seq(S), NEW i \in 1 .. Len(s), NEW e \in S
  PROVE  /\ [s EXCEPT ![i] = e] \in Seq(S) /\ Len([s EXCEPT ![i] = e]) = Len(s)
         /\ \A j \in 1 .. Len(s) : [s EXCEPT ![i] = e][j] = IF j = i THEN e ELSE s[j]
OBVIOUS

-----------------------------------------------------------------------------
(* The operations in progress. *)
LEMMA WorkTypes ==
  /\ NoWork \in Work
  /\ \A i \in EntryIds : Begun("push", i, {}) \in Work
  /\ \A S \in SUBSET EntryIds : Begun("drain", 0, S) \in Work
  /\ \A w \in Work, i \in EntryIds :
       [w EXCEPT !.todo = @ \ {i}, !.got = @ \cup {i}] \in Work
<1>1. NoWork \in Work
  BY DiskQueueAssumption DEF Work, NoWork, Begun
<1>2. \A i \in EntryIds : Begun("push", i, {}) \in Work
  BY DiskQueueAssumption DEF Work, Begun, EntryIds
<1>3. \A S \in SUBSET EntryIds : Begun("drain", 0, S) \in Work
  BY DiskQueueAssumption DEF Work, Begun
<1>4. \A w \in Work, i \in EntryIds :
        [w EXCEPT !.todo = @ \ {i}, !.got = @ \cup {i}] \in Work
  BY Zenon DEF Work
<1> QED  BY <1>1, <1>2, <1>3, <1>4, Zenon

(* Every step keeps the types. *)
LEMMA DiskTypes ==
  ASSUME DiskInv, [DiskNext]_diskVars
  PROVE  DiskTypeOK'
<1> USE DiskQueueAssumption DEF DiskInv, DiskTypeOK
<1>1. struck' \in SUBSET EntryIds
  BY Zenon DEF DiskNext, WriteTemp, RemoveEntry, DrainFile, Rename, Glob, DrainReturns,
     QueueCrash, WriteBack, PowerFailure, diskVars, Becomes
<1>2. work' \in Work
  <2>1. \/ work' \in {work, NoWork}
        \/ \E i \in EntryIds : \/ work' = Begun("push", i, {})
                               \/ work' = [work EXCEPT !.todo = @ \ {i}, !.got = @ \cup {i}]
        \/ \E S \in SUBSET EntryIds : work' = Begun("drain", 0, S)
    BY Zenon DEF DiskNext, WriteTemp, RemoveEntry, DrainFile, Rename, Glob, DrainReturns,
       QueueCrash, WriteBack, PowerFailure, diskVars, Becomes, GiveUp
  <2>2. work \in Work /\ NoWork \in Work
    BY WorkTypes, Zenon
  <2>3. ASSUME NEW i \in EntryIds, work' = Begun("push", i, {})
        PROVE  work' \in Work
    BY <2>3, WorkTypes, Zenon
  <2>5. ASSUME NEW i \in EntryIds,
               work' = [work EXCEPT !.todo = @ \ {i}, !.got = @ \cup {i}]
        PROVE  work' \in Work
    BY <2>5, WorkTypes, Zenon
  <2>4. ASSUME NEW S \in SUBSET EntryIds, work' = Begun("drain", 0, S)
        PROVE  work' \in Work
    BY <2>4, WorkTypes, Zenon
  <2> QED  BY <2>1, <2>2, <2>3, <2>4, <2>5, Zenon
<1>3. faults' \in 0 .. MaxFaults
  <2>1. DiskWorks \/ DiskFails
    BY Zenon DEF DiskNext, WriteTemp, RemoveEntry, DrainFile, Rename, Glob, DrainReturns,
       QueueCrash, WriteBack, PowerFailure, diskVars, Becomes, DiskWorks
  <2> QED  BY <2>1 DEF DiskWorks, DiskFails
<1>4. pushes' \in [EntryIds -> 0 .. MaxPushes]
  <2>1. \/ UNCHANGED pushes
        \/ \E i \in EntryIds : pushes[i] < MaxPushes
             /\ pushes' = [pushes EXCEPT ![i] = @ + 1]
    BY Zenon DEF DiskNext, WriteTemp, RemoveEntry, DrainFile, Rename, Glob, DrainReturns,
       QueueCrash, WriteBack, PowerFailure, diskVars, Becomes
  <2>2. ASSUME NEW i \in EntryIds, pushes[i] < MaxPushes,
               pushes' = [pushes EXCEPT ![i] = @ + 1]
        PROVE  pushes' \in [EntryIds -> 0 .. MaxPushes]
    BY <2>2
  <2> QED  BY <2>1, <2>2, Zenon
<1>5. tmp' \in [EntryIds -> Content] /\ json' \in [EntryIds -> Content]
  BY Zenon DEF DiskNext, WriteTemp, RemoveEntry, DrainFile, Rename, Glob, DrainReturns,
     QueueCrash, WriteBack, PowerFailure, diskVars, Becomes, Content
<1>7. stable' \in [EntryIds -> SUBSET Content]
  <2>1. \/ UNCHANGED stable
        \/ \E i \in EntryIds : Becomes(i, tmp[i], {tmp[i], "torn"})
        \/ \E i \in EntryIds : Becomes(i, "absent", {"absent"})
        \/ \E i \in EntryIds : WriteBack(i)
        \/ PowerFailure
    BY Zenon DEF DiskNext, WriteTemp, RemoveEntry, DrainFile, Rename, Glob, DrainReturns,
       QueueCrash, diskVars
  <2>2. {"absent"} \subseteq Content /\ \A i \in EntryIds : {tmp[i], "torn"} \subseteq Content
    BY Zenon DEF Content
  <2>3. ASSUME NEW i \in EntryIds, NEW c, NEW S \in SUBSET Content, Becomes(i, c, S)
        PROVE  stable' \in [EntryIds -> SUBSET Content]
    BY <2>3, Zenon DEF Becomes
  <2>4. ASSUME NEW i \in EntryIds, WriteBack(i)
        PROVE  stable' \in [EntryIds -> SUBSET Content]
    BY <2>4, Zenon DEF WriteBack
  <2>5. CASE PowerFailure
    BY <2>5 DEF PowerFailure
  <2>6. ASSUME NEW i \in EntryIds,
               Becomes(i, tmp[i], {tmp[i], "torn"}) \/ Becomes(i, "absent", {"absent"})
        PROVE  stable' \in [EntryIds -> SUBSET Content]
    BY <2>2, <2>3, <2>6
  <2> QED  BY <2>1, <2>4, <2>5, <2>6, Zenon
<1>6. owed' \in SUBSET EntryIds /\ returned' \in SUBSET EntryIds
      /\ forgotten' \in SUBSET EntryIds
  BY Zenon DEF DiskNext, WriteTemp, RemoveEntry, DrainFile, Rename, Glob, DrainReturns,
     QueueCrash, WriteBack, PowerFailure, diskVars, Becomes, GiveUp, Work
<1> QED  BY <1>1, <1>2, <1>3, <1>4, <1>5, <1>6, <1>7, Zenon

(* Every step of Push, Drain, a crash or a power failure keeps the invariant. *)
LEMMA DiskStep ==
  ASSUME DiskInv, [DiskNext]_diskVars
  PROVE  DiskInv'
<1>0. DiskTypeOK'
  BY DiskTypes, Zenon
<1> USE DiskQueueAssumption
    DEF DiskInv, KeptUntilReturned, OwedIsKept, NotReturnedTwice, TornOnlyByPowerFailure
<1>1. ASSUME NEW i \in EntryIds, WriteTemp(i)
      PROVE  DiskInv'
  BY <1>0, <1>1 DEF WriteTemp, DiskTypeOK, Idle, NoWork, Begun, Work
<1>2. ASSUME NEW i \in EntryIds, RemoveEntry(i)
      PROVE  DiskInv'
  BY <1>0, <1>2 DEF RemoveEntry, Becomes, DiskTypeOK, Idle, NoWork, Begun, Work
<1>3. ASSUME NEW i \in EntryIds, DrainFile(i)
      PROVE  DiskInv'
  <2>1. CASE json[i] = "whole" /\ Becomes(i, "absent", {"absent"})
             /\ work' = [work EXCEPT !.todo = @ \ {i}, !.got = @ \cup {i}]
             /\ UNCHANGED <<forgotten, owed, returned>>
    <3>1. work'.op = "drain" /\ work'.got = work.got \cup {i}
      BY <1>3, <2>1, Zenon DEF DrainFile, NextFile, DiskTypeOK, Work
    <3>2. json'[i] = "absent" /\ \A j \in EntryIds : j # i => json'[j] = json[j]
      BY <2>1, Zenon DEF DiskTypeOK, Becomes
    <3>3. struck' = struck \ {i} /\ "absent" \in stable'[i]
          /\ \A j \in EntryIds : j # i => stable'[j] = stable[j]
      BY <2>1, Zenon DEF DiskTypeOK, Becomes
    <3>4. owed' = owed /\ returned' = returned /\ forgotten' = forgotten
          /\ owed \subseteq EntryIds /\ returned \cup work.got \subseteq EntryIds
      BY <2>1, Zenon DEF DiskTypeOK, Work
    <3>5. ASSUME NEW j \in EntryIds
          PROVE  /\ j \in owed => \/ json'[j] # "absent" \/ (work'.op = "drain" /\ j \in work'.got)
                                  \/ j \in forgotten \cup struck'
                 /\ j \in returned \cup work'.got => json'[j] = "absent" \/ j \in struck'
                 /\ json'[j] = "torn" => j \in struck'
      <4>1. CASE j = i
        BY <3>1, <3>2, <4>1
      <4>2. CASE j # i
        BY <3>1, <3>2, <3>3, <4>2
      <4> QED  BY <4>1, <4>2, Zenon
    <3>7. KeptUntilReturned'
      BY <3>1, <3>4, <3>5, Zenon
    <3>6. \A j \in EntryIds : json'[j] \in stable'[j]
      BY <3>2, <3>3
    <3> QED  BY <1>0, <3>1, <3>6, <3>7, Zenon
  <2>2. CASE GiveUp /\ UNCHANGED <<json, stable, owed, returned, struck>>
    BY <1>0, <2>2, Zenon DEF GiveUp, NoWork, Begun, DiskTypeOK
  <2> QED  BY <1>3, <2>1, <2>2, Zenon DEF DrainFile
<1>4. CASE Rename
  BY <1>0, <1>4 DEF Rename, Becomes, DiskTypeOK, NoWork, Begun, Work
<1>5. CASE Glob
  BY <1>0, <1>5, Zenon DEF Glob, DiskTypeOK, Idle, NoWork, Begun, Work
<1>6. CASE DrainReturns
  BY <1>0, <1>6, Zenon DEF DrainReturns, DiskTypeOK, NoWork, Begun, Work
<1>7. CASE QueueCrash
  BY <1>0, <1>7, Zenon DEF QueueCrash, DiskTypeOK, GiveUp, NoWork, Begun, Work
<1>8. CASE PowerFailure
  BY <1>0, <1>8 DEF PowerFailure, DiskTypeOK, GiveUp, NoWork, Begun, Work
<1>9. CASE UNCHANGED diskVars
  BY <1>0, <1>9, Zenon DEF diskVars
<1>10. ASSUME NEW i \in EntryIds, WriteBack(i)
       PROVE  DiskInv'
  BY <1>0, <1>10, Zenon DEF WriteBack, DiskTypeOK
<1> QED  BY <1>1, <1>2, <1>3, <1>4, <1>5, <1>6, <1>7, <1>8, <1>9, <1>10, Zenon DEF DiskNext

(* An entry is complete on disk from Push to the one Drain that returns it, wherever a
   call fails or the process dies; a Drain that fails loses only what it had removed,
   and a power failure touches only files that were not written back. *)
THEOREM KeptOnDisk == DiskSpec => []KeptUntilReturned
<1>1. DiskInit => DiskInv
  <2>1. DiskInit => /\ stable \in [EntryIds -> SUBSET Content]
                    /\ \A i \in EntryIds : json[i] \in stable[i]
    BY DEF DiskInit, Content
  <2>2. DiskInit => DiskTypeOK
    <3>1. DiskInit => tmp \in [EntryIds -> Content] /\ json \in [EntryIds -> Content]
      BY Zenon DEF DiskInit, Content
    <3>2. DiskInit => pushes \in [EntryIds -> 0 .. MaxPushes] /\ faults \in 0 .. MaxFaults
      BY DiskQueueAssumption DEF DiskInit
    <3> QED  BY <2>1, <3>1, <3>2, WorkTypes, Zenon DEF DiskInit, DiskTypeOK
  <2>3. DiskInit => work.op = "none" /\ work.got = {}
    BY DEF DiskInit, NoWork, Begun
  <2>4. DiskInit => KeptUntilReturned
    BY <2>3, Zenon DEF DiskInit, KeptUntilReturned, OwedIsKept, NotReturnedTwice,
       TornOnlyByPowerFailure
  <2> QED  BY <2>1, <2>2, <2>3, <2>4, Zenon DEF DiskInv
<1>2. DiskInv => KeptUntilReturned
  BY Zenon DEF DiskInv
<1> QED  BY <1>1, <1>2, DiskStep, PTL DEF DiskSpec

-----------------------------------------------------------------------------
(* Adding to the ring what was accepted keeps the newest entries in it. *)
LEMMA RingFollows ==
  ASSUME NEW S, NEW r \in Seq(S), NEW acc \in Seq(S), NEW a \in S, RingHolds(r, acc)
  PROVE  /\ Append(RingWithRoom(r), a) \in Seq(S)
         /\ RingHolds(Append(RingWithRoom(r), a), Append(acc, a))
<1> DEFINE n == Len(acc)
           q == RingWithRoom(r)
<1>1. /\ q \in Seq(S) /\ Len(q) = IF n < RingSize THEN n ELSE RingSize - 1
      /\ \A k \in 1 .. Len(q) : q[k] = acc[n - Len(q) + k]
  <2>1. CASE n < RingSize
    <3>1. Len(r) = n /\ q = r
      BY <2>1, DedupAssumption DEF RingWithRoom, RingHolds
    <3> QED  BY <2>1, <3>1, Zenon DEF RingHolds
  <2>2. CASE n >= RingSize
    <3>1. q = Tail(r) /\ Len(r) = RingSize /\ r # <<>>
      BY <2>2, DedupAssumption DEF RingWithRoom, RingHolds
    <3>2. /\ q \in Seq(S) /\ Len(q) = RingSize - 1
          /\ \A k \in 1 .. Len(q) : q[k] = r[k + 1]
      BY <3>1
    <3>3. ASSUME NEW k \in 1 .. Len(q)  PROVE  q[k] = acc[n - Len(q) + k]
      <4>1. k + 1 \in 1 .. Len(r) /\ n - Len(r) + (k + 1) = n - Len(q) + k
        BY <3>1, <3>2, DedupAssumption
      <4> QED  BY <3>2, <4>1, Zenon DEF RingHolds
    <3> QED  BY <2>2, <3>2, <3>3, DedupAssumption
  <2> QED  BY <2>1, <2>2, DedupAssumption
<1> HIDE DEF q
<1>2. /\ Append(q, a) \in Seq(S) /\ Len(Append(q, a)) = Len(q) + 1
      /\ Append(q, a)[Len(q) + 1] = a /\ \A k \in 1 .. Len(q) : Append(q, a)[k] = q[k]
  BY <1>1
<1>3. /\ Len(Append(acc, a)) = n + 1 /\ Append(acc, a)[n + 1] = a
      /\ \A k \in 1 .. n : Append(acc, a)[k] = acc[k]
  OBVIOUS
<1>4. ASSUME NEW k \in 1 .. Len(q) + 1
      PROVE  Append(q, a)[k] = Append(acc, a)[(n + 1) - (Len(q) + 1) + k]
  <2>1. CASE k = Len(q) + 1
    BY <1>1, <1>2, <1>3, <2>1
  <2>2. CASE k \in 1 .. Len(q)
    <3>1. n - Len(q) + k \in 1 .. n /\ (n + 1) - (Len(q) + 1) + k = n - Len(q) + k
      BY <1>1, <2>2, DedupAssumption
    <3> QED  BY <1>1, <1>2, <1>3, <2>2, <3>1, Zenon
  <2>3. Len(q) \in Nat
    BY <1>1
  <2>4. k = Len(q) + 1 \/ k \in 1 .. Len(q)
    BY <2>3
  <2> QED  BY <2>1, <2>2, <2>4, Zenon
<1>5. Len(q) + 1 = IF n + 1 < RingSize THEN n + 1 ELSE RingSize
  BY <1>1, DedupAssumption
<1> DEFINE p == Append(q, a)
           b == Append(acc, a)
<1>6. Len(p) = Len(q) + 1 /\ Len(b) = n + 1
  BY <1>2, <1>3, Zenon
<1>7. \A k \in 1 .. Len(p) : p[k] = b[Len(b) - Len(p) + k]
  BY <1>4, <1>6, Zenon
<1> HIDE DEF p, b
<1>8. RingHolds(p, b)
  BY <1>5, <1>6, <1>7, Zenon DEF RingHolds
<1> QED  BY <1>2, <1>8, Zenon DEF p, b, q

(* A message that is in none of the last RingSize places. *)
LEMMA NotInRing ==
  ASSUME NEW S, NEW r \in Seq(S), NEW acc \in Seq(S), RingHolds(r, acc),
         NEW i \in 1 .. Len(acc), \A k \in DOMAIN r : r[k] # acc[i]
  PROVE  Len(acc) - i >= RingSize
<1>1. CASE i > Len(acc) - Len(r)
  <2> DEFINE k == i - (Len(acc) - Len(r))
  <2>1. k \in 1 .. Len(r) /\ Len(acc) - Len(r) + k = i
    BY <1>1
  <2>2. r[k] = acc[i]
    BY <2>1, Zenon DEF RingHolds
  <2> QED  BY <2>1, <2>2
<1>2. CASE i <= Len(acc) - Len(r)
  BY <1>2, DedupAssumption DEF RingHolds
<1> QED  BY <1>1, <1>2

(* Every step keeps the invariant, and suppresses nothing but repeats. *)
LEMMA DedupStep ==
  ASSUME DedupInv, [DedupNext]_<<now, dedupVars>>
  PROVE  DedupInv' /\ SuppressedIsRepeat
<1> USE DedupAssumption DEF DedupInv, DedupTypeOK
<1>1. CASE DedupTick \/ UNCHANGED <<now, dedupVars>>
  <2>1. UNCHANGED <<ring, asking, accepted>> /\ now' \in 0 .. DedupTime
    BY <1>1 DEF DedupTick, Advance, dedupVars
  <2>2. SuppressedIsRepeat
    BY <2>1, Zenon DEF SuppressedIsRepeat
  <2> QED  BY <2>1, <2>2, Zenon DEF RepeatedOnlyAfterEviction, Recent, RingHolds
<1>2. ASSUME NEW s \in Senders, NEW m \in Messages, Ask(s, m)
      PROVE  DedupInv' /\ SuppressedIsRepeat
  <2>1. asking' \in [Senders -> Fingerprint \cup {NoAsk}]
    BY <1>2, Zenon DEF Ask, Fingerprint
  <2>2. SuppressedIsRepeat
    BY <1>2, Zenon DEF Ask, SuppressedIsRepeat, NoAsk
  <2> QED  BY <1>2, <2>1, <2>2, Zenon DEF Ask, RepeatedOnlyAfterEviction, Recent, RingHolds
<1>3. ASSUME NEW s \in Senders, IsDuplicate(s)
      PROVE  DedupInv' /\ SuppressedIsRepeat
  <2> DEFINE a == asking[s]
             dup == \E k \in DOMAIN ring : Recent(ring[k], a)
  <2>1. /\ a # NoAsk /\ a \in Fingerprint /\ now' = now
        /\ asking' = [asking EXCEPT ![s] = NoAsk]
        /\ asking' \in [Senders -> Fingerprint \cup {NoAsk}]
    BY <1>3, Zenon DEF IsDuplicate
  <2>2. CASE dup /\ UNCHANGED <<ring, accepted>>
    <3>1. SuppressedIsRepeat
      <4>1. PICK k \in DOMAIN ring : Recent(ring[k], a)
        BY <2>2, Zenon
      <4>2. /\ Len(accepted) - Len(ring) + k \in DOMAIN accepted
            /\ ring[k] = accepted[Len(accepted) - Len(ring) + k]
        <5>1. k \in 1 .. Len(ring) /\ Len(ring) <= Len(accepted)
          BY DEF RingHolds
        <5>2. ring[k] = accepted[Len(accepted) - Len(ring) + k]
          BY <5>1, Zenon DEF RingHolds
        <5>3. Len(accepted) - Len(ring) + k \in 1 .. Len(accepted)
          BY <5>1
        <5> QED  BY <5>2, <5>3
      <4> QED  BY <2>1, <4>1, <4>2, Zenon DEF SuppressedIsRepeat, Recent
    <3> QED  BY <2>1, <2>2, <3>1, Zenon DEF RepeatedOnlyAfterEviction, Recent, RingHolds
  <2>3. CASE /\ ~dup
             /\ ring' = Append(RingWithRoom(ring), a)
             /\ accepted' = Append(accepted, a)
    <3> DEFINE n == Len(accepted)
    <3>1. ring' \in Seq(Fingerprint) /\ RingHolds(ring', accepted')
      BY <2>1, <2>3, RingFollows, Zenon
    <3>2. /\ accepted' \in Seq(Fingerprint) /\ Len(accepted') = n + 1
          /\ accepted'[n + 1] = a
          /\ \A k \in 1 .. n : accepted'[k] = accepted[k]
      BY <2>1, <2>3
    <3>3. SuppressedIsRepeat
      BY <3>2 DEF SuppressedIsRepeat
    <3>4. Len(ring') <= RingSize
      BY <3>1, <3>2 DEF RingHolds
    <3>5. RepeatedOnlyAfterEviction'
      <4> SUFFICES ASSUME NEW i \in DOMAIN accepted', NEW j \in DOMAIN accepted', i < j,
                          Recent(accepted'[i], accepted'[j])
                   PROVE  j - i > RingSize
        BY Zenon DEF RepeatedOnlyAfterEviction, Recent
      <4>0. i \in 1 .. n /\ j \in 1 .. n + 1 /\ accepted'[i] = accepted[i]
        BY <3>2
      <4>1. CASE j \in 1 .. n
        <5>1. Recent(accepted[i], accepted[j])
          BY <3>2, <4>0, <4>1, Zenon
        <5> QED  BY <4>0, <4>1, <5>1 DEF RepeatedOnlyAfterEviction
      <4>2. CASE j = n + 1
        <5>1. Recent(accepted[i], a)
          BY <3>2, <4>0, <4>2, Zenon
        <5>2. \A k \in DOMAIN ring : ring[k] # accepted[i]
          BY <2>3, <5>1, Zenon
        <5>3. n - i >= RingSize
          BY <4>0, <5>2, NotInRing, SMTT(30)
        <5> QED  BY <4>0, <4>2, <5>3
      <4> QED  BY <4>0, <4>1, <4>2
    <3> QED  BY <2>1, <3>1, <3>2, <3>3, <3>4, <3>5, Zenon
  <2> QED  BY <1>3, <2>2, <2>3, SMTT(30) DEF IsDuplicate
<1> QED  BY <1>1, <1>2, <1>3, Zenon DEF DedupNext

(* A message is suppressed only as the repeat of one accepted within the window, and a
   repeat is accepted only after RingSize others have pushed the first one out. *)
THEOREM RepeatsAreSuppressed == DedupSpec => SuppressesRepeats
<1>1. DedupInit => DedupInv
  BY DedupAssumption DEF DedupInit, DedupInv, DedupTypeOK, RepeatedOnlyAfterEviction,
                           RingHolds
<1>2. DedupInv' => RepeatedOnlyAfterEviction'
  BY Zenon DEF DedupInv
<1> QED  BY <1>1, <1>2, DedupStep, PTL DEF DedupSpec, SuppressesRepeats

-----------------------------------------------------------------------------
(* The slice after the oldest letter was cut off, if the queue was full. *)
LEMMA RoomIsSlice ==
  ASSUME DlqInv
  PROVE  LET s == Room(entries) IN
         /\ s \in Slice /\ s.arr = entries.arr /\ InBounds(arrays, s)
         /\ s.len + 1 = (IF sinceDrain + 1 < DlqSize THEN sinceDrain + 1 ELSE DlqSize)
         /\ InQueue(arrays, s, letters)
<1> DEFINE s == Room(entries)
<1>1. /\ entries.arr \in Nat /\ entries.off \in Nat /\ entries.len \in Nat
      /\ entries \in Slice
      /\ letters \in Nat /\ sinceDrain \in Nat /\ DlqSize \in Nat \ {0}
      /\ InBounds(arrays, entries) /\ Len(arrays[entries.arr]) \in Nat
  BY DlqAssumption DEF DlqInv, DlqTypeOK, Slice, InBounds
<1>2. CASE entries.len >= DlqSize
  <2>0. s = [arr |-> entries.arr, off |-> entries.off + 1, len |-> entries.len - 1]
        /\ entries.len - 1 \in Nat
    BY <1>1, <1>2 DEF Room
  <2>1. s.arr = entries.arr /\ s.off = entries.off + 1 /\ s.len = entries.len - 1
        /\ s \in Slice
    BY <1>1, <2>0 DEF Slice
  <2> HIDE DEF s
  <2>2. InBounds(arrays, s)
    BY <1>1, <2>1 DEF InBounds
  <2>3. InQueue(arrays, s, letters)
    <3> SUFFICES ASSUME NEW k \in 1 .. s.len
                 PROVE  arrays[s.arr][s.off + k] = letters - s.len + k
      BY Zenon DEF InQueue
    <3>1. k \in 1 .. entries.len - 1
      BY <2>1, Zenon
    <3>2. k + 1 \in 1 .. entries.len
      BY <1>1, <3>1
    <3>3. k \in Int
      BY <1>1, <3>1
    <3>4. /\ (entries.off + 1) + k = entries.off + (k + 1)
          /\ letters - (entries.len - 1) + k = letters - entries.len + (k + 1)
      <4>1. \A o, l, n, i \in Int : (o + 1) + i = o + (i + 1)
            /\ n - (l - 1) + i = n - l + (i + 1)
        OBVIOUS
      <4>2. entries.off \in Int /\ entries.len \in Int /\ letters \in Int
        BY <1>1
      <4> QED  BY <3>3, <4>1, <4>2
    <3>5. \A j \in 1 .. entries.len : arrays[entries.arr][entries.off + j]
          = letters - entries.len + j
      BY Zenon DEF DlqInv, InQueue
    <3>6. arrays[entries.arr][entries.off + (k + 1)] = letters - entries.len + (k + 1)
      BY <3>2, <3>5, Zenon
    <3> QED  BY <2>1, <3>4, <3>6, Zenon
  <2> QED  BY <1>1, <1>2, <2>1, <2>2, <2>3 DEF DlqInv, s
<1>3. CASE entries.len < DlqSize
  <2>1. s = entries
    BY <1>1, <1>3 DEF Room
  <2> QED  BY <1>1, <1>3, <2>1 DEF DlqInv
<1> QED  BY <1>1, <1>2, <1>3

(* What a slice shows of its array. *)
LEMMA ValueIsSeq ==
  ASSUME DlqTypeOK, NEW s \in Slice, InBounds(arrays, s)
  PROVE  /\ Value(arrays, s) \in Seq(0 .. MaxLetters) /\ Len(Value(arrays, s)) = s.len
         /\ \A k \in 1 .. s.len : Value(arrays, s)[k] = arrays[s.arr][s.off + k]
<1> DEFINE a0 == arrays[s.arr]
<1>1. a0 \in Seq(0 .. MaxLetters) /\ s.off \in Nat /\ s.len \in Nat
      /\ s.off + s.len <= Len(a0)
  <2>1. s.arr \in 1 .. Len(arrays) /\ arrays \in Seq(Seq(0 .. MaxLetters))
    BY DEF DlqTypeOK, InBounds
  <2>2. a0 \in Seq(0 .. MaxLetters)
    BY <2>1, LenFacts, Zenon
  <2> QED  BY <2>2, Zenon DEF InBounds, Slice
<1> HIDE DEF a0
<1>2. Len(a0) \in Nat /\ \A k \in 1 .. Len(a0) : a0[k] \in 0 .. MaxLetters
  BY <1>1, LenFacts, Zenon
<1>3. \A k \in 1 .. s.len : s.off + k \in 1 .. Len(a0)
  BY <1>1, <1>2
<1>4. \A k \in 1 .. s.len : a0[s.off + k] \in 0 .. MaxLetters
  BY <1>2, <1>3, Zenon
<1>5. Value(arrays, s) = [k \in 1 .. s.len |-> a0[s.off + k]]
  BY Zenon DEF Value, a0
<1>6. Value(arrays, s) \in [1 .. s.len -> 0 .. MaxLetters]
  BY <1>4, <1>5, Zenon
<1>7. Value(arrays, s) \in Seq(0 .. MaxLetters) /\ Len(Value(arrays, s)) = s.len
  BY <1>1, <1>6, FunctionIsSeq, Zenon
<1> QED  BY <1>5, <1>7, Zenon DEF a0

(* What append does: in place while the array has room, in a copy otherwise, and in
   neither case to an array that is not the one of the queue. *)
LEMMA ExtendedFacts ==
  ASSUME DlqInv, NEW s \in Slice, s.arr = entries.arr, InBounds(arrays, s),
         NEW e \in 0 .. MaxLetters, Extended(s, e)
  PROVE  /\ arrays' \in Seq(Seq(0 .. MaxLetters)) /\ Len(arrays') >= Len(arrays)
         /\ entries'.arr = entries.arr \/ entries'.arr = Len(arrays) + 1
         /\ entries' \in Slice /\ entries'.arr \in 1 .. Len(arrays')
         /\ entries'.len = s.len + 1
         /\ entries'.off + entries'.len <= Len(arrays'[entries'.arr])
         /\ \A a \in 1 .. Len(arrays) :
              Len(arrays'[a]) = Len(arrays[a])
              /\ (a # entries.arr => arrays'[a] = arrays[a])
         /\ \A k \in 1 .. s.len : arrays'[entries'.arr][entries'.off + k]
              = arrays[s.arr][s.off + k]
         /\ arrays'[entries'.arr][entries'.off + s.len + 1] = e
<1> DEFINE a0 == arrays[s.arr]
<1>1. /\ a0 \in Seq(0 .. MaxLetters) /\ s.arr \in 1 .. Len(arrays)
      /\ s.off \in Nat /\ s.len \in Nat /\ s.arr \in Nat
      /\ arrays \in Seq(Seq(0 .. MaxLetters))
      /\ s.off + s.len <= Len(a0) /\ Len(a0) \in Nat /\ Len(arrays) \in Nat
  BY SMTT(30) DEF DlqInv, DlqTypeOK, Slice, InBounds
<1>2. CASE s.off + s.len < Len(a0)
  <2> DEFINE p == s.off + s.len + 1
             b == [a0 EXCEPT ![p] = e]
  <2>1. p \in 1 .. Len(a0)
    BY <1>1, <1>2, SMTT(30)
  <2>2. /\ b \in Seq(0 .. MaxLetters) /\ Len(b) = Len(a0) /\ b[p] = e
        /\ \A k \in 1 .. Len(a0) : k # p => b[k] = a0[k]
    BY <1>1, <2>1, ExceptFacts
  <2>3. arrays' = [arrays EXCEPT ![s.arr] = b] /\ entries' = [s EXCEPT !.len = @ + 1]
    BY <1>2, Zenon DEF Extended
  <2> HIDE DEF b
  <2>4. /\ arrays' \in Seq(Seq(0 .. MaxLetters)) /\ Len(arrays') = Len(arrays)
        /\ arrays'[s.arr] = b
        /\ \A a \in 1 .. Len(arrays) : a # s.arr => arrays'[a] = arrays[a]
    BY <1>1, <2>2, <2>3, ExceptFacts
  <2>5. /\ entries' \in Slice /\ entries'.arr = s.arr /\ entries'.off = s.off
        /\ entries'.len = s.len + 1
    BY <2>3 DEF Slice
  <2>6. /\ entries'.arr \in 1 .. Len(arrays') /\ Len(arrays') >= Len(arrays)
    BY <1>1, <2>4, <2>5
  <2>7. entries'.off + entries'.len <= Len(arrays'[entries'.arr])
    <3>1. s.off + (s.len + 1) <= Len(a0)
      BY <1>1, <1>2
    <3>2. /\ entries'.off = s.off /\ entries'.len = s.len + 1
          /\ Len(arrays'[entries'.arr]) = Len(a0)
      BY <2>2, <2>4, <2>5, Zenon
    <3> QED  BY <3>1, <3>2, Zenon
  <2>8. \A a \in 1 .. Len(arrays) :
          Len(arrays'[a]) = Len(arrays[a]) /\ (a # entries.arr => arrays'[a] = arrays[a])
    BY <2>2, <2>4, Zenon
  <2>9. \A k \in 1 .. s.len : arrays'[entries'.arr][entries'.off + k]
        = arrays[s.arr][s.off + k]
    <3>1. \A k \in 1 .. s.len : s.off + k \in 1 .. Len(a0) /\ s.off + k # p
      BY <1>1, <1>2
    <3>2. \A k \in 1 .. s.len : b[s.off + k] = a0[s.off + k]
      BY <2>2, <3>1, Zenon
    <3> QED  BY <2>4, <2>5, <3>2
  <2>10. entries'.off + s.len + 1 = p
    BY <2>5, Zenon
  <2> QED  BY <2>2, <2>4, <2>5, <2>6, <2>7, <2>8, <2>9, <2>10, Zenon
<1>3. CASE ~(s.off + s.len < Len(a0))
  <2> DEFINE v == Value(arrays, s)
             w == Append(v, e)
             z == Zeroes(s.len - 1)
             N == w \o z
  <2>1. /\ v \in Seq(0 .. MaxLetters) /\ Len(v) = s.len
        /\ \A k \in 1 .. s.len : v[k] = a0[s.off + k]
    BY <1>1, ValueIsSeq, Zenon DEF DlqInv
  <2> HIDE DEF v
  <2>2. /\ w \in Seq(0 .. MaxLetters) /\ Len(w) = s.len + 1 /\ w[s.len + 1] = e
        /\ \A k \in 1 .. s.len : w[k] = v[k]
    BY <1>1, <2>1, AppendFacts
  <2> HIDE DEF w
  <2>3. z \in Seq(0 .. MaxLetters)
    <3>1. 0 \in 0 .. MaxLetters
      BY DlqAssumption
    <3>2. CASE s.len = 0
      <4>1. 1 .. s.len - 1 = 1 .. 0
        BY <3>2
      <4>2. z = [k \in 1 .. 0 |-> 0]
        BY <4>1, Zenon DEF Zeroes
      <4> QED  BY <3>1, <4>2, FunctionIsSeq, Zenon
    <3>3. CASE s.len # 0
      <4>1. s.len - 1 \in Nat
        BY <1>1, <3>3
      <4> QED  BY <3>1, <4>1, FunctionIsSeq, Zenon DEF Zeroes
    <3> QED  BY <3>2, <3>3, Zenon
  <2> HIDE DEF z
  <2>4. /\ N \in Seq(0 .. MaxLetters) /\ Len(N) >= s.len + 1
        /\ \A k \in 1 .. s.len + 1 : N[k] = w[k]
    BY <1>1, <2>2, <2>3, ConcatFacts, LenFacts, SMTT(30)
  <2> HIDE DEF N
  <2>5. /\ arrays' = Append(arrays, N)
        /\ entries' = [arr |-> Len(arrays) + 1, off |-> 0, len |-> s.len + 1]
    BY <1>3, Zenon DEF Extended, N, w, v, z
  <2>6. /\ arrays' \in Seq(Seq(0 .. MaxLetters)) /\ Len(arrays') = Len(arrays) + 1
        /\ arrays'[Len(arrays) + 1] = N /\ \A a \in 1 .. Len(arrays) : arrays'[a]
             = arrays[a]
    BY <1>1, <2>4, <2>5, AppendFacts
  <2>7. /\ entries' \in Slice /\ entries'.arr = Len(arrays) + 1 /\ entries'.off = 0
        /\ entries'.len = s.len + 1
    BY <1>1, <2>5 DEF Slice
  <2>8. Len(arrays) \in Nat
    BY <1>1, Zenon
  <2>9. \A k \in 1 .. s.len : arrays'[entries'.arr][entries'.off + k]
        = arrays[s.arr][s.off + k]
    <3> SUFFICES ASSUME NEW k \in 1 .. s.len
                 PROVE  N[0 + k] = a0[s.off + k]
      BY <2>6, <2>7, Zenon
    <3>1. k \in 1 .. s.len + 1 /\ 0 + k = k
      BY <1>1
    <3> QED  BY <2>1, <2>2, <2>4, <3>1, Zenon
  <2>10. s.len + 1 \in 1 .. s.len + 1 /\ entries'.off + s.len + 1 = s.len + 1
    <3>1. \A n \in Nat : n + 1 \in 1 .. n + 1 /\ 0 + n + 1 = n + 1
      OBVIOUS
    <3> QED  BY <1>1, <2>7, <3>1, Zenon
  <2>11. arrays'[entries'.arr][entries'.off + s.len + 1] = e
    BY <2>2, <2>4, <2>6, <2>7, <2>10, Zenon
  <2>12. \A a \in 1 .. Len(arrays) :
          Len(arrays'[a]) = Len(arrays[a]) /\ (a # entries.arr => arrays'[a] = arrays[a])
    BY <2>6, Zenon
  <2>13. /\ entries'.arr \in 1 .. Len(arrays') /\ Len(arrays') >= Len(arrays)
    BY <2>6, <2>7, <2>8
  <2>14. entries'.off + entries'.len <= Len(arrays'[entries'.arr])
    <3>1. 0 + (s.len + 1) <= Len(N)
      BY <1>1, <2>4
    <3> QED  BY <2>6, <2>7, <3>1, Zenon
  <2> QED  BY <2>6, <2>7, <2>9, <2>11, <2>12, <2>13, <2>14, Zenon
<1> QED  BY <1>2, <1>3, Zenon

(* Every Push and every Drain keeps the invariant. *)
LEMMA DlqStep ==
  ASSUME DlqInv, [DlqNext]_dlqVars
  PROVE  DlqInv'
<1> USE DlqAssumption
<1>0. /\ letters \in 0 .. MaxLetters /\ sinceDrain \in 0 .. MaxLetters
      /\ sinceDrain <= letters
      /\ entries \in Slice /\ entries.len \in Nat /\ entries.off \in Nat
      /\ entries.arr \in Nat
      /\ entries.len <= letters
      /\ arrays \in Seq(Seq(0 .. MaxLetters)) /\ Len(arrays) \in Nat
      /\ InBounds(arrays, entries)
      /\ drained \in Seq(Slice) /\ handedOut \in Seq(Seq(1 .. MaxLetters))
      /\ Len(handedOut) = Len(drained) /\ Len(drained) \in Nat
  BY DEF DlqInv, DlqTypeOK, Slice
<1>1. \A d \in 1 .. Len(drained) :
        /\ drained[d] \in Slice /\ drained[d].arr \in 1 .. Len(arrays)
        /\ drained[d].arr # entries.arr
        /\ drained[d].off + drained[d].len <= Len(arrays[drained[d].arr])
        /\ Value(arrays, drained[d]) = handedOut[d]
  <2>1. DOMAIN drained = 1 .. Len(drained) /\ DOMAIN arrays = 1 .. Len(arrays)
    BY <1>0, LenFacts, Zenon
  <2>2. \A d \in 1 .. Len(drained) : drained[d] \in Slice
    BY <1>0, LenFacts, Zenon
  <2>3. \A d \in 1 .. Len(drained) :
          InBounds(arrays, drained[d]) /\ drained[d].arr # entries.arr
          /\ Value(arrays, drained[d]) = handedOut[d]
    BY <2>1, Zenon DEF DlqInv, DlqTypeOK, DrainedIsStable
  <2> QED  BY <2>1, <2>2, <2>3, Zenon DEF InBounds
<1>2. CASE DlqPush
  <2> DEFINE s == Room(entries)
  <2>1. /\ s \in Slice /\ s.arr = entries.arr /\ InBounds(arrays, s)
        /\ s.len + 1 = (IF sinceDrain + 1 < DlqSize THEN sinceDrain + 1 ELSE DlqSize)
        /\ InQueue(arrays, s, letters) /\ s.len \in Nat
    BY RoomIsSlice, Zenon DEF Slice
  <2>2. /\ Extended(s, letters + 1) /\ letters + 1 \in 0 .. MaxLetters
        /\ letters' = letters + 1
        /\ sinceDrain' = sinceDrain + 1 /\ UNCHANGED <<drained, handedOut>>
    BY <1>0, <1>2 DEF DlqPush
  <2> HIDE DEF s
  <2>3. /\ arrays' \in Seq(Seq(0 .. MaxLetters)) /\ Len(arrays') >= Len(arrays)
        /\ entries'.arr = entries.arr \/ entries'.arr = Len(arrays) + 1
        /\ entries' \in Slice /\ entries'.arr \in 1 .. Len(arrays')
        /\ entries'.len = s.len + 1
        /\ entries'.off + entries'.len <= Len(arrays'[entries'.arr])
        /\ \A a \in 1 .. Len(arrays) :
             Len(arrays'[a]) = Len(arrays[a]) /\ (a # entries.arr => arrays'[a] = arrays[a])
        /\ \A k \in 1 .. s.len : arrays'[entries'.arr][entries'.off + k]
             = arrays[s.arr][s.off + k]
        /\ arrays'[entries'.arr][entries'.off + s.len + 1] = letters + 1
    BY <2>1, <2>2, ExtendedFacts, Zenon
  <2>4. InQueue(arrays', entries', letters')
    <3>0. entries'.len = s.len + 1 /\ letters' = letters + 1 /\ letters \in Int
          /\ s.len \in Int
          /\ entries'.off \in Int
      BY <1>0, <2>1, <2>2, <2>3 DEF Slice
    <3> SUFFICES \A k \in 1 .. s.len + 1 :
                   arrays'[entries'.arr][entries'.off + k] = letters + 1 - (s.len + 1) + k
      BY <3>0 DEF InQueue
    <3> TAKE k \in 1 .. s.len + 1
    <3>1. CASE k \in 1 .. s.len
      <4>1. arrays[s.arr][s.off + k] = letters - s.len + k
        BY <2>1, <3>1, Zenon DEF InQueue
      <4>2. letters + 1 - (s.len + 1) + k = letters - s.len + k
        BY <1>0, <2>1, <3>1
      <4>3. arrays'[entries'.arr][entries'.off + k] = arrays[s.arr][s.off + k]
        BY <2>3, <3>1, Zenon
      <4> QED  BY <4>1, <4>2, <4>3, Zenon
    <3>2. CASE k = s.len + 1
      <4>1. letters + 1 - (s.len + 1) + k = letters + 1
        BY <1>0, <2>1, <3>2
      <4>2. entries'.off + k = entries'.off + s.len + 1
        BY <2>1, <2>3, <3>2 DEF Slice
      <4> QED  BY <2>3, <4>1, <4>2, SMTT(30)
    <3> QED  BY <2>1, <3>1, <3>2
  <2>5. \A d \in 1 .. Len(drained) :
          /\ drained[d].arr \in 1 .. Len(arrays') /\ drained[d].arr # entries'.arr
          /\ arrays'[drained[d].arr] = arrays[drained[d].arr]
    <3> TAKE d \in 1 .. Len(drained)
    <3>1. drained[d].arr \in 1 .. Len(arrays) /\ drained[d].arr # entries.arr
      BY <1>1, Zenon
    <3>2. Len(arrays') \in Nat
      BY <2>3, LenFacts, Zenon
    <3>3. drained[d].arr \in 1 .. Len(arrays') /\ drained[d].arr # Len(arrays) + 1
      <4>1. Len(arrays') >= Len(arrays) /\ Len(arrays) \in Nat
        BY <1>0, <2>3, Zenon
      <4> QED  BY <3>1, <3>2, <4>1
    <3> QED  BY <2>3, <3>1, <3>3, Zenon
  <2>6. DrainedIsStable'
    <3>1. \A d \in 1 .. Len(drained) : Value(arrays', drained[d])
          = Value(arrays, drained[d])
      BY <2>5, Zenon DEF Value
    <3> QED  BY <1>0, <1>1, <2>2, <3>1, LenFacts, Zenon DEF DrainedIsStable
  <2>7. \A d \in DOMAIN drained' : InBounds(arrays', drained'[d])
        /\ drained'[d].arr # entries'.arr
    <3>1. DOMAIN drained' = 1 .. Len(drained) /\ drained' = drained
      BY <1>0, <2>2, LenFacts, Zenon
    <3>2. DOMAIN arrays' = 1 .. Len(arrays')
      BY <2>3, LenFacts, Zenon
    <3> QED  BY <1>1, <2>5, <3>1, <3>2, SMTT(30) DEF InBounds
  <2>8. DlqTypeOK'
    <3>1. letters' \in 0 .. MaxLetters /\ sinceDrain' \in 0 .. MaxLetters
      BY <1>0, <2>2
    <3>2. InBounds(arrays', entries')
      BY <2>3 DEF InBounds
    <3> QED  BY <1>0, <2>2, <2>3, <2>7, <3>1, <3>2, Zenon DEF DlqTypeOK
  <2>9. sinceDrain' <= letters'
    BY <1>0, <2>2
  <2> QED  BY <1>0, <2>1, <2>2, <2>3, <2>4, <2>6, <2>7, <2>8, <2>9, Zenon DEF DlqInv
<1>3. CASE DlqDrain
  <2> DEFINE v == Value(arrays, entries)
  <2>1. /\ v \in Seq(0 .. MaxLetters) /\ Len(v) = entries.len
        /\ \A k \in 1 .. entries.len : v[k] = arrays[entries.arr][entries.off + k]
    BY <1>0, ValueIsSeq, Zenon DEF DlqInv
  <2>2. v \in Seq(1 .. MaxLetters)
    <3>1. \A k \in 1 .. entries.len : v[k] = letters - entries.len + k
      BY <2>1, Zenon DEF DlqInv, InQueue
    <3>2. \A k \in 1 .. entries.len : letters - entries.len + k \in 1 .. MaxLetters
      BY <1>0
    <3>3. v \in [1 .. entries.len -> 1 .. MaxLetters]
      BY <2>1, <3>1, <3>2, LenFacts
    <3> QED  BY <1>0, <3>3, FunctionIsSeq, Zenon
  <2>3. /\ arrays' = Append(arrays, v)
        /\ drained' = Append(drained, [arr |-> Len(arrays) + 1, off |-> 0,
             len |-> entries.len])
        /\ handedOut' = Append(handedOut, v)
        /\ entries' = [entries EXCEPT !.len = 0] /\ sinceDrain' = 0 /\ letters' = letters
    BY <1>3, Zenon DEF DlqDrain
  <2>4. v = [k \in 1 .. entries.len |-> v[k]]
    BY Zenon DEF Value
  <2> HIDE DEF v
  <2>5. /\ arrays' \in Seq(Seq(0 .. MaxLetters)) /\ Len(arrays') = Len(arrays) + 1
        /\ arrays'[Len(arrays) + 1] = v /\ \A a \in 1 .. Len(arrays) : arrays'[a]
             = arrays[a]
    BY <1>0, <2>1, <2>3, AppendFacts
  <2> DEFINE n == [arr |-> Len(arrays) + 1, off |-> 0, len |-> entries.len]
  <2>6. n \in Slice /\ n.arr = Len(arrays) + 1 /\ n.off = 0 /\ n.len = entries.len
    BY <1>0 DEF Slice
  <2>7. drained' = Append(drained, n)
    BY <2>3, Zenon
  <2> HIDE DEF n
  <2>8. /\ drained' \in Seq(Slice) /\ Len(drained') = Len(drained) + 1
        /\ drained'[Len(drained) + 1] = n
        /\ \A d \in 1 .. Len(drained) : drained'[d] = drained[d]
    BY <1>0, <2>6, <2>7, AppendFacts
  <2>9. /\ handedOut' \in Seq(Seq(1 .. MaxLetters)) /\ Len(handedOut') = Len(drained) + 1
        /\ handedOut'[Len(drained) + 1] = v
        /\ \A d \in 1 .. Len(drained) : handedOut'[d] = handedOut[d]
    BY <1>0, <2>2, <2>3, AppendFacts, SMTT(30)
  <2>10. entries' \in Slice /\ entries'.arr = entries.arr /\ entries'.off = entries.off
         /\ entries'.len = 0
    BY <1>0, <2>3, Zenon DEF Slice
  <2>11. entries.arr \in 1 .. Len(arrays) /\ InBounds(arrays', entries')
    <3>1. DOMAIN arrays = 1 .. Len(arrays) /\ DOMAIN arrays' = 1 .. Len(arrays) + 1
      BY <1>0, <2>5, LenFacts, Zenon
    <3>2. entries.arr \in 1 .. Len(arrays)
          /\ entries.off + entries.len <= Len(arrays[entries.arr])
          /\ arrays[entries.arr] \in Seq(0 .. MaxLetters)
      BY <1>0, <3>1, LenFacts, Zenon DEF InBounds
    <3>3. entries.off + 0 <= Len(arrays[entries.arr])
      BY <1>0, <3>2, LenFacts, SMTT(30)
    <3>4. entries.arr \in 1 .. Len(arrays) + 1
      BY <1>0, <3>2
    <3> QED  BY <2>5, <2>10, <3>1, <3>2, <3>3, <3>4, Zenon DEF InBounds
  <2>12. \A d \in 1 .. Len(drained) + 1 :
           /\ InBounds(arrays', drained'[d]) /\ drained'[d].arr # entries'.arr
           /\ Value(arrays', drained'[d]) = handedOut'[d]
    <3>1. ASSUME NEW d \in 1 .. Len(drained)
          PROVE  InBounds(arrays', drained'[d]) /\ drained'[d].arr # entries'.arr
                 /\ Value(arrays', drained'[d]) = handedOut'[d]
      <4>1. /\ drained'[d] = drained[d] /\ arrays'[drained[d].arr] = arrays[drained[d].arr]
            /\ drained[d].arr \in 1 .. Len(arrays')
        <5>1. drained[d].arr \in 1 .. Len(arrays)
          BY <1>1, <3>1, Zenon
        <5>2. drained[d].arr \in 1 .. Len(arrays) + 1
          BY <1>0, <5>1, SMTT(30)
        <5> QED  BY <2>5, <2>8, <3>1, <5>1, <5>2, Zenon
      <4>2. Value(arrays', drained'[d]) = Value(arrays, drained[d])
        BY <4>1, Zenon DEF Value
      <4>3. InBounds(arrays', drained'[d])
        BY <1>1, <2>5, <3>1, <4>1 DEF InBounds
      <4> QED  BY <1>1, <2>9, <2>10, <3>1, <4>1, <4>2, <4>3, Zenon
    <3>2. InBounds(arrays', n) /\ n.arr # entries'.arr /\ Value(arrays', n) = v
      <4>1. InBounds(arrays', n)
        BY <1>0, <2>1, <2>5, <2>6, SMTT(30) DEF InBounds
      <4>2. n.arr # entries'.arr
        BY <1>0, <2>6, <2>10, <2>11
      <4>3. \A k \in 1 .. entries.len : 0 + k = k
        BY <1>0
      <4>4. Value(arrays', n) = [k \in 1 .. entries.len |-> v[0 + k]]
        BY <2>5, <2>6, Zenon DEF Value
      <4>5. Value(arrays', n) = [k \in 1 .. entries.len |-> v[k]]
        BY <4>3, <4>4, Zenon
      <4> QED  BY <2>4, <4>1, <4>2, <4>5, Zenon
    <3>3. \A d \in 1 .. Len(drained) + 1 : d \in 1 .. Len(drained) \/ d = Len(drained) + 1
      BY <1>0
    <3> QED  BY <2>8, <2>9, <3>1, <3>2, <3>3, Zenon
  <2>13. DlqTypeOK' /\ DrainedIsStable'
    <3>1. DOMAIN drained' = 1 .. Len(drained) + 1
      BY <2>8, LenFacts, Zenon
    <3>2. sinceDrain' \in 0 .. MaxLetters /\ letters' \in 0 .. MaxLetters
      BY <1>0, <2>3
    <3> QED  BY <2>5, <2>8, <2>9, <2>10, <2>11, <2>12, <3>1, <3>2, SMTT(30) DEF DlqTypeOK,
                DrainedIsStable
  <2>14. sinceDrain' <= letters' /\ InQueue(arrays', entries', letters')
         /\ entries'.len = (IF sinceDrain' < DlqSize THEN sinceDrain' ELSE DlqSize)
    BY <1>0, <2>3, <2>10 DEF InQueue
  <2>15. \A d \in DOMAIN drained' : drained'[d].arr # entries'.arr
    BY <2>8, <2>12, LenFacts, Zenon
  <2> QED  BY <2>8, <2>9, <2>13, <2>14, <2>15, Zenon DEF DlqInv
<1>4. CASE UNCHANGED dlqVars
  BY <1>4, Zenon DEF dlqVars, DlqInv, DlqTypeOK, InBounds, DrainedIsStable, Value, InQueue
<1> QED  BY <1>2, <1>3, <1>4, Zenon DEF DlqNext

(* The queue holds the newest letters, at most DlqSize, in their order, and the slice a
   Drain has returned never changes although the queue goes on. *)
THEOREM DeadLettersHold == DlqSpec => []SlicesHold
<1>1. DlqInit => DlqInv
  <2> SUFFICES ASSUME DlqInit PROVE DlqInv
    BY Zenon
  <2> USE DlqAssumption
  <2>1. Zeroes(DlqSize) \in Seq(0 .. MaxLetters)
    BY FunctionIsSeq DEF Zeroes
  <2>2. arrays \in Seq(Seq(0 .. MaxLetters)) /\ DOMAIN arrays = {1}
        /\ arrays[1] = Zeroes(DlqSize)
    BY <2>1 DEF DlqInit
  <2>3. entries \in Slice /\ entries.arr = 1 /\ entries.off = 0 /\ entries.len = 0
    BY Zenon DEF DlqInit, Slice
  <2>4. Len(Zeroes(DlqSize)) \in Nat
    BY <2>1, LenFacts, Zenon
  <2>5. InBounds(arrays, entries)
    BY <2>2, <2>3, <2>4 DEF InBounds
  <2>6. letters = 0 /\ sinceDrain = 0 /\ drained = <<>> /\ handedOut = <<>>
    BY Zenon DEF DlqInit
  <2>7. DlqTypeOK
    BY <2>2, <2>3, <2>5, <2>6 DEF DlqTypeOK
  <2>8. InQueue(arrays, entries, letters) /\ DrainedIsStable
    BY <2>3, <2>6 DEF InQueue, DrainedIsStable
  <2> QED  BY <2>3, <2>6, <2>7, <2>8 DEF DlqInv
<1>2. DlqInv => SlicesHold
  <2> SUFFICES ASSUME DlqInv PROVE HoldsNewest
    BY Zenon DEF SlicesHold, DlqInv
  <2> DEFINE m == IF sinceDrain < DlqSize THEN sinceDrain ELSE DlqSize
  <2>1. entries.len = m
    BY Zenon DEF DlqInv
  <2>2. \A k \in 1 .. m : arrays[entries.arr][entries.off + k] = letters - m + k
    BY <2>1, Zenon DEF DlqInv, InQueue
  <2> HIDE DEF m
  <2>3. Value(arrays, entries) = [k \in 1 .. m |-> letters - m + k]
    BY <2>1, <2>2, Zenon DEF Value
  <2> QED  BY <2>3, Zenon DEF HoldsNewest, m
<1> QED  BY <1>1, <1>2, DlqStep, PTL DEF DlqSpec
=============================================================================
