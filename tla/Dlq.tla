--------------------------------- MODULE Dlq --------------------------------
(***************************************************************************)
(* The dead-letter queue (internal/dlq), down to its memory: the entries   *)
(* are a Go slice that moves along its array as the oldest is dropped and  *)
(* is moved to a new array when that is full; a Drain keeps the array for  *)
(* the entries to come. Entries are numbered in the order of Push.         *)
(***************************************************************************)
EXTENDS Integers, Sequences

CONSTANTS DlqSize,    \* maxSize (1000)
          MaxLetters, \* bound: entries pushed
          MaxDrains   \* bound: calls of Drain

ASSUME DlqAssumption == DlqSize \in Nat \ {0} /\ MaxLetters \in Nat /\ MaxDrains \in Nat

VARIABLES arrays,   \* the arrays allocated so far
          entries,  \* Queue.entries: array, offset and length
          drained,  \* the slices Drain has returned
          letters,  \* entries pushed so far
          sinceDrain, \* history: the entries pushed since the last Drain
          handedOut \* history: what each Drain returned, when it returned

dlqVars == <<arrays, entries, drained, letters, sinceDrain, handedOut>>

Slice == [arr : Nat, off : Nat, len : Nat]
Value(A, s) == [k \in 1 .. s.len |-> A[s.arr][s.off + k]]
InBounds(A, s) == s.arr \in DOMAIN A /\ s.off + s.len <= Len(A[s.arr])
Zeroes(n) == [k \in 1 .. n |-> 0]

DlqTypeOK ==
  /\ arrays \in Seq(Seq(0 .. MaxLetters))
  /\ entries \in Slice /\ drained \in Seq(Slice)
  /\ letters \in 0 .. MaxLetters /\ sinceDrain \in 0 .. MaxLetters
  /\ handedOut \in Seq(Seq(1 .. MaxLetters))
  /\ InBounds(arrays, entries) /\ \A d \in DOMAIN drained : InBounds(arrays, drained[d])

DlqInit ==
  /\ arrays = <<Zeroes(DlqSize)>> /\ entries = [arr |-> 1, off |-> 0, len |-> 0]
  /\ drained = <<>> /\ letters = 0 /\ sinceDrain = 0 /\ handedOut = <<>>

(* entries[1:] of a full queue. *)
Room(s) == IF s.len >= DlqSize THEN [arr |-> s.arr, off |-> s.off + 1, len |-> s.len - 1] ELSE s

(* append: in place while the array has room, else into one twice the size. *)
Extended(s, e) ==
  IF s.off + s.len < Len(arrays[s.arr])
  THEN /\ arrays' = [arrays EXCEPT ![s.arr][s.off + s.len + 1] = e]
       /\ entries' = [s EXCEPT !.len = @ + 1]
  ELSE /\ arrays' = Append(arrays, Append(Value(arrays, s), e) \o Zeroes(s.len - 1))
       /\ entries' = [arr |-> Len(arrays) + 1, off |-> 0, len |-> s.len + 1]

DlqPush ==
  /\ letters < MaxLetters /\ letters' = letters + 1
  /\ Extended(Room(entries), letters + 1)
  /\ sinceDrain' = sinceDrain + 1
  /\ UNCHANGED <<drained, handedOut>>

(* Drain: copy, then entries[:0]. *)
DrainWithoutCopy ==
  /\ Len(drained) < MaxDrains
  /\ drained' = Append(drained, entries)
  /\ handedOut' = Append(handedOut, Value(arrays, entries))
  /\ entries' = [entries EXCEPT !.len = 0] /\ sinceDrain' = 0
  /\ UNCHANGED <<arrays, letters>>

DlqDrain ==
  /\ Len(drained) < MaxDrains
  /\ arrays' = Append(arrays, Value(arrays, entries))
  /\ drained' = Append(drained, [arr |-> Len(arrays) + 1, off |-> 0, len |-> entries.len])
  /\ handedOut' = Append(handedOut, Value(arrays, entries))
  /\ entries' = [entries EXCEPT !.len = 0] /\ sinceDrain' = 0
  /\ UNCHANGED letters

DlqNext == DlqPush \/ DlqDrain
DlqSpec == DlqInit /\ [][DlqNext]_dlqVars

-----------------------------------------------------------------------------
(* The queue holds the newest entries since the last Drain, in order and without
   gaps, as many as fit: only the oldest are ever dropped. *)
HoldsNewest ==
  Value(arrays, entries) = [k \in 1 .. (IF sinceDrain < DlqSize THEN sinceDrain ELSE DlqSize) |->
                      letters - (IF sinceDrain < DlqSize THEN sinceDrain ELSE DlqSize) + k]

(* The entries a Drain has returned never change afterwards, although the queue
   goes on using its array. *)
DrainedIsStable == \A d \in DOMAIN drained : Value(arrays, drained[d]) = handedOut[d]

(* The slices of the queue and of its callers, which may share an array, hold what
   they should. *)
SlicesHold == HoldsNewest /\ DrainedIsStable

(* Slice s of the arrays A shows the newest s.len of n letters. *)
InQueue(A, s, n) ==
  \A k \in 1 .. s.len : A[s.arr][s.off + k] = n - s.len + k

(* The inductive invariant: no slice handed out shares its array with the queue. *)
DlqInv ==
  /\ DlqTypeOK /\ DrainedIsStable /\ Len(handedOut) = Len(drained)
  /\ \A d \in DOMAIN drained : drained[d].arr # entries.arr
  /\ sinceDrain <= letters
  /\ entries.len = (IF sinceDrain < DlqSize THEN sinceDrain ELSE DlqSize)
  /\ InQueue(arrays, entries, letters)
=============================================================================
