------------------------------- MODULE Breaker ------------------------------
(***************************************************************************)
(* The circuit breaker (internal/breaker). A client asks Allow, makes its  *)
(* call and records the result; results may arrive in any order, long      *)
(* after the state in which the call was allowed. Each operation holds the *)
(* mutex. The clock is reduced to whether openUntil is still to come.      *)
(***************************************************************************)
EXTENDS Naturals

CONSTANTS Clients,    \* goroutines with a guarded operation
          Threshold,  \* consecutive failures that trip the breaker
          MaxOutages  \* bound: how often the downstream fails

ASSUME BreakerAssumption == Threshold \in Nat \ {0} /\ MaxOutages \in Nat

VARIABLES brk,      \* Breaker.state
          failures, \* Breaker.failures
          cooling,  \* time.Now is before openUntil
          attempt,  \* [Clients -> the call it has made, and its result]
          outage,   \* the downstream fails
          outages,  \* outages so far
          streak    \* history: failures recorded since a success last closed the
                    \* breaker or found it closed, up to Threshold

breakerVars == <<brk, failures, cooling, attempt, outage, outages, streak>>

BreakerTypeOK ==
  /\ brk \in {"Closed", "Open", "HalfOpen"}
  /\ failures \in 0 .. Threshold
  /\ cooling \in BOOLEAN /\ outage \in BOOLEAN
  /\ attempt \in [Clients -> {"none", "out", "ok", "failed"}]
  /\ outages \in 0 .. MaxOutages
  /\ streak \in 0 .. Threshold

BreakerInit ==
  /\ brk = "Closed" /\ failures = 0 /\ cooling = FALSE
  /\ attempt = [c \in Clients |-> "none"]
  /\ outage = FALSE /\ outages = 0 /\ streak = 0

(* Allow. A refused client leaves the breaker as it is. HalfOpen lets every call pass,
   not the "one probe" of the comments there. *)
BreakerAllowNeverProbing(c) ==
  /\ attempt[c] = "none" /\ brk # "Open"
  /\ attempt' = [attempt EXCEPT ![c] = "out"]
  /\ UNCHANGED <<brk, failures, cooling, outage, outages, streak>>
BreakerAllow(c) ==
  /\ attempt[c] = "none"
  /\ brk = "Open" => ~cooling
  /\ brk' = IF brk = "Open" THEN "HalfOpen" ELSE brk
  /\ attempt' = [attempt EXCEPT ![c] = "out"]
  /\ UNCHANGED <<failures, cooling, outage, outages, streak>>

RecordSuccessKeepingCount(c) ==
  /\ attempt[c] = "ok"
  /\ brk' = "Closed" /\ streak' = 0
  /\ attempt' = [attempt EXCEPT ![c] = "none"]
  /\ UNCHANGED <<failures, cooling, outage, outages>>
(* Closes the breaker from every state. In Open that is a call allowed before the
   trip, whose success ends the time-out early: "no-op", the comment there says. *)
RecordSuccess(c) ==
  /\ attempt[c] = "ok"
  /\ failures' = 0 /\ brk' = "Closed"
  /\ streak' = IF brk' = "Closed" THEN 0 ELSE streak
  /\ attempt' = [attempt EXCEPT ![c] = "none"]
  /\ UNCHANGED <<cooling, outage, outages>>

RecordFailure(c) ==
  /\ attempt[c] = "failed"
  /\ streak' = IF streak < Threshold THEN streak + 1 ELSE streak
  /\ attempt' = [attempt EXCEPT ![c] = "none"]
  /\ \/ brk = "Open" /\ UNCHANGED <<brk, failures, cooling>>
     \/ /\ brk = "HalfOpen"
        /\ brk' = "Open" /\ cooling' = TRUE /\ UNCHANGED failures
     \/ /\ brk = "Closed"
        /\ failures' = failures + 1
        /\ IF failures' >= Threshold THEN brk' = "Open" /\ cooling' = TRUE
                                     ELSE UNCHANGED <<brk, cooling>>
  /\ UNCHANGED <<outage, outages>>

(* openUntil passes. *)
CoolDown == /\ cooling /\ cooling' = FALSE
            /\ UNCHANGED <<brk, failures, attempt, outage, outages, streak>>

(* The downstream (external) serves a call, fails and recovers. *)
Serve(c) ==
  /\ attempt[c] = "out"
  /\ attempt' = [attempt EXCEPT ![c] = IF outage THEN "failed" ELSE "ok"]
  /\ UNCHANGED <<brk, failures, cooling, outage, outages, streak>>
Outage == /\ ~outage /\ outages < MaxOutages
          /\ outage' = TRUE /\ outages' = outages + 1
          /\ UNCHANGED <<brk, failures, cooling, attempt, streak>>
Heal == /\ outage /\ outage' = FALSE
        /\ UNCHANGED <<brk, failures, cooling, attempt, outages, streak>>

Client(c) == BreakerAllow(c) \/ Serve(c) \/ RecordSuccess(c) \/ RecordFailure(c)
BreakerNext == CoolDown \/ Outage \/ Heal \/ \E c \in Clients : Client(c)
BreakerSpec == BreakerInit /\ [][BreakerNext]_breakerVars

-----------------------------------------------------------------------------
(* The breaker trips at the Threshold-th failure in a row and at no other time: it is
   Open or HalfOpen exactly when that many failures were recorded since a success that
   it took into account, in whatever order late results, probes and successes arrive.
   Whether a late success should close an Open breaker (the code does it, its comment
   says otherwise) and how many calls HalfOpen lets pass are left open here. *)
ClosedIffFewFailures == (brk = "Closed") <=> (streak < Threshold)

(* When the downstream has recovered for good and clients keep asking, the
   breaker closes and stays closed: the probe that HalfOpen allows finds out,
   whatever results of the outage are still to come. *)
BreakerRecovers == <>[]~outage => <>[](brk = "Closed")

(* The inductive invariant: while the breaker is closed, the count it keeps is the
   true number of failures in a row. *)
BreakerInv ==
  /\ BreakerTypeOK /\ ClosedIffFewFailures
  /\ brk = "Closed" => failures = streak
=============================================================================
