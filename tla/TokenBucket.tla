----------------------------- MODULE TokenBucket ----------------------------
(***************************************************************************)
(* The HTTP rate limiter (internal/ratelimit): a token bucket for each key *)
(* (limiter.go by ICCID, registry.go by any comparable key), created full  *)
(* at the first request. A request reads the clock under the lock of the   *)
(* bucket. Tokens are counted in units of 1/Minute token, so that a tick   *)
(* adds PerMin units and a request costs Minute of them; Minute is a       *)
(* multiple of PerMin, which makes every wait a whole number of ticks.     *)
(***************************************************************************)
EXTENDS Clock, Integers, Sequences, FiniteSets

CONSTANTS Keys,      \* ICCIDs
          PerMin,    \* requests per minute
          Minute,    \* ticks of a minute
          Second,    \* ticks of a second
          BucketTime, \* bound: ticks
          MaxPassed  \* bound: requests let through

ASSUME BucketAssumption ==
  /\ PerMin \in Nat \ {0} /\ Minute \in Nat \ {0} /\ Minute % PerMin = 0
  /\ Second \in Nat \ {0} /\ {BucketTime, MaxPassed} \subseteq Nat

VARIABLES buckets, \* [Keys -> tokens, lastRefill and whether the bucket exists]
          passed,  \* history: [Keys -> times of the requests let through]
          told     \* history: [Keys -> the last refusal not followed by a request]

bucketVars == <<buckets, passed, told>>

Larger(a, b) == IF a > b THEN a ELSE b
MaxTokens == PerMin * Minute
Fresh == [tokens |-> MaxTokens, last |-> 0, used |-> FALSE]
NotTold == [at |-> 0, secs |-> 0]

BucketTypeOK ==
  /\ now \in 0 .. BucketTime
  /\ buckets \in [Keys -> [tokens : 0 .. MaxTokens, last : 0 .. BucketTime, used : BOOLEAN]]
  /\ passed \in [Keys -> Seq(0 .. BucketTime)]
  /\ told \in [Keys -> [at : 0 .. BucketTime, secs : Nat]]

BucketInit ==
  /\ now = 0
  /\ buckets = [k \in Keys |-> Fresh]
  /\ passed = [k \in Keys |-> <<>>] /\ told = [k \in Keys |-> NotTold]

BucketTick == Advance(BucketTime) /\ UNCHANGED bucketVars

(* The bucket as the request finds it: created now, or refilled since the last. *)
RefilledUncapped(b) == b.tokens + (now - b.last) * PerMin
Refilled(b) ==
  LET t == b.tokens + (now - b.last) * PerMin
  IN IF ~b.used \/ t > MaxTokens THEN MaxTokens ELSE t

(* Until a whole token is there, at least a second. *)
Wait(tokens) == Larger((Minute - tokens) \div PerMin, Second)

(* The Retry-After header of Middleware: whole seconds, rounded down. *)
RetryAfter(tokens) == Larger(Wait(tokens) \div Second, 1)

(* Middleware, for a request that names its ICCID. *)
BucketAllow(k) ==
  LET t == Refilled(buckets[k]) IN
  /\ \/ /\ t >= Minute /\ Len(passed[k]) < MaxPassed
        /\ buckets' = [buckets EXCEPT ![k] = [tokens |-> t - Minute, last |-> now, used |-> TRUE]]
        /\ passed' = [passed EXCEPT ![k] = Append(@, now)]
        /\ told' = [told EXCEPT ![k] = NotTold]
     \/ /\ t < Minute
        /\ buckets' = [buckets EXCEPT ![k] = [tokens |-> t, last |-> now, used |-> TRUE]]
        /\ told' = [told EXCEPT ![k] = [at |-> now, secs |-> RetryAfter(t)]]
        /\ UNCHANGED passed
  /\ UNCHANGED now

BucketNext == BucketTick \/ \E k \in Keys : BucketAllow(k)
BucketSpec == BucketInit /\ [][BucketNext]_<<now, bucketVars>>

-----------------------------------------------------------------------------
(* The rate that is really enforced: between two requests let through d ticks
   apart there are at most PerMin + d * PerMin / Minute in all, both included,
   however refills, refusals and idle times alternate. *)
BurstBounded ==
  \A k \in Keys : \A i, j \in DOMAIN passed[k] :
    i <= j => (j - i + 1) * Minute <= MaxTokens + (passed[k][j] - passed[k][i]) * PerMin

(* What the Retry-After header is worth as long as nobody uses the key again. It is
   rounded down: at the second it names there may be no token yet, although it is
   documented as "the seconds until the next token is available", but a second later
   there is one; and it never keeps a client waiting for a token that is there, but
   for the minimum of one second. *)
RetryWithinASecond ==
  \A k \in Keys : told[k] # NotTold =>
    /\ now >= told[k].at + (told[k].secs + 1) * Second => Refilled(buckets[k]) >= Minute
    /\ told[k].secs > 1 /\ now < told[k].at + told[k].secs * Second =>
         Refilled(buckets[k]) < Minute

(* The rate is kept from both sides: no more requests pass than it allows, and the
   wait that a refused client is told is too short by less than a second, and too long
   by less than one. *)
RateIsKept == BurstBounded /\ RetryWithinASecond

(* What one bucket promises of the passes p it has given: since any of them, no
   more than a burst and the refill, what is left included. *)
RateHolds(b, p) ==
  /\ ~b.used => p = <<>>
  /\ \A i \in 1 .. Len(p) :
       p[i] <= b.last /\ (Len(p) - i + 1) * Minute + b.tokens <= MaxTokens + (b.last - p[i]) * PerMin
  /\ \A i, j \in 1 .. Len(p) :
       i <= j => (j - i + 1) * Minute <= MaxTokens + (p[j] - p[i]) * PerMin

(* A refusal r that still counts is the last thing bucket b did. *)
ToldHolds(b, r) ==
  r # NotTold => b.used /\ b.last = r.at /\ b.tokens < Minute /\ r.secs = RetryAfter(b.tokens)

(* The inductive invariant. *)
BucketInv ==
  /\ BucketTypeOK
  /\ \A k \in Keys : /\ buckets[k].last <= now
                      /\ RateHolds(buckets[k], passed[k]) /\ ToldHolds(buckets[k], told[k])
=============================================================================
