--------------------------- MODULE ControlProofs ----------------------------
(* What the small components of the service promise, for every value of their
   constants: the circuit breaker, the token bucket, the webhook, the configuration,
   the shutdown of the gateway, the setup of a modem and the watchdog. The components share no
   state, so that each has its own invariant and one proof of every step. *)
EXTENDS Breaker, TokenBucket, Webhook, Config, Gateway, ModemSetup, Watchdog, TLAPS

(* What the provers know of sequences, in the form the proofs below use. *)
LEMMA LenFacts ==
  ASSUME NEW S, NEW s \in Seq(S)
  PROVE  /\ Len(s) \in Nat /\ DOMAIN s = 1 .. Len(s) /\ s \in [1 .. Len(s) -> S]
         /\ \A i \in 1 .. Len(s) : s[i] \in S
         /\ Len(s) = 0 <=> s = <<>>
OBVIOUS

(* The elements of a sequence that grows. *)
LEMMA AppendFacts ==
  ASSUME NEW S, NEW s \in Seq(S), NEW e \in S
  PROVE  /\ Append(s, e) \in Seq(S) /\ Len(s) \in Nat /\ Len(Append(s, e)) = Len(s) + 1
         /\ Append(s, e)[Len(s) + 1] = e /\ \A i \in 1 .. Len(s) : Append(s, e)[i] = s[i]
OBVIOUS

-----------------------------------------------------------------------------
(* Every step of the clients, the clock and the downstream keeps the invariant. *)
LEMMA BreakerStep ==
  ASSUME BreakerInv, [BreakerNext]_breakerVars
  PROVE  BreakerInv'
<1> USE BreakerAssumption DEF BreakerInv, BreakerTypeOK, ClosedIffFewFailures
<1>0. cooling' \in BOOLEAN /\ outage' \in BOOLEAN
  BY Zenon DEF BreakerNext, Client, CoolDown, Outage, Heal, BreakerAllow, Serve,
     RecordSuccess,
               RecordFailure, breakerVars
<1>1. CASE CoolDown \/ Outage \/ Heal
  BY <1>0, <1>1 DEF CoolDown, Outage, Heal
<1>2. ASSUME NEW c \in Clients, BreakerAllow(c)
      PROVE  BreakerInv'
  BY <1>2, Zenon DEF BreakerAllow
<1>3. ASSUME NEW c \in Clients, Serve(c)
      PROVE  BreakerInv'
  BY <1>3, Zenon DEF Serve
<1>4. ASSUME NEW c \in Clients, RecordSuccess(c)
      PROVE  BreakerInv'
  BY <1>4 DEF RecordSuccess
<1>5. ASSUME NEW c \in Clients, RecordFailure(c)
      PROVE  BreakerInv'
  BY <1>0, <1>5 DEF RecordFailure
<1>6. CASE UNCHANGED breakerVars
  BY <1>6, Zenon DEF breakerVars
<1> QED  BY <1>1, <1>2, <1>3, <1>4, <1>5, <1>6, Zenon DEF BreakerNext, Client

(* The breaker is closed exactly while fewer than Threshold failures in a row have been
   recorded, in whatever order the results of concurrent calls arrive. *)
THEOREM BreakerTripsInTime == BreakerSpec => []ClosedIffFewFailures
<1>1. BreakerInit => BreakerInv
  <2>1. BreakerInit => cooling \in BOOLEAN /\ outage \in BOOLEAN
    BY Zenon DEF BreakerInit
  <2> QED  BY <2>1, BreakerAssumption DEF BreakerInit, BreakerInv, BreakerTypeOK,
              ClosedIffFewFailures
<1>2. BreakerInv => ClosedIffFewFailures
  BY Zenon DEF BreakerInv
<1> QED  BY <1>1, <1>2, BreakerStep, PTL DEF BreakerSpec

-----------------------------------------------------------------------------
(* The arithmetic of one more pass: it takes M, and the refill is at most P a unit. *)
LEMMA RateStep ==
  ASSUME NEW a \in Int, NEW M \in Int, NEW tok \in Int, NEW Max \in Int, NEW l \in Int,
         NEW p \in Int, NEW P \in Int, NEW n \in Int, NEW t \in Int,
         a * M + tok <= Max + (l - p) * P, t <= tok + (n - l) * P
  PROVE  (a + 1) * M + (t - M) <= Max + (n - p) * P
<1>1. (a + 1) * M = a * M + M /\ (n - p) * P = (n - l) * P + (l - p) * P
  OBVIOUS
<1>2. a * M \in Int /\ (n - l) * P \in Int /\ (l - p) * P \in Int
  OBVIOUS
<1> QED  BY <1>1, <1>2

(* A quotient, rounded down, plus one exceeds what it approximates. *)
LEMMA DivBound ==
  ASSUME NEW a \in Int, NEW b \in Nat \ {0}
  PROVE  a \div b \in Int /\ (a \div b + 1) * b > a
  OBVIOUS

(* A quotient, rounded down, does not exceed what it approximates. *)
LEMMA DivFloor ==
  ASSUME NEW a \in Int, NEW b \in Nat \ {0}
  PROVE  a \div b \in Int /\ (a \div b) * b <= a
  OBVIOUS

(* Quotients of natural numbers are natural. *)
LEMMA DivNat ==
  ASSUME NEW a \in Nat, NEW b \in Nat \ {0}
  PROVE  a \div b \in Nat
  OBVIOUS

(* Multiplication by a positive number keeps the order. *)
LEMMA Mono ==
  ASSUME NEW a \in Int, NEW c \in Int, NEW b \in Nat \ {0}, a >= c
  PROVE  a * b >= c * b
  OBVIOUS

(* Products of natural numbers are natural. *)
LEMMA MulNat ==
  ASSUME NEW a \in Nat, NEW b \in Nat
  PROVE  a * b \in Nat
  OBVIOUS

(* The states of one bucket. *)
Bucket == [tokens : 0 .. MaxTokens, last : 0 .. BucketTime, used : BOOLEAN]

(* A full bucket is worth at least one request. *)
LEMMA Products == MaxTokens \in Nat /\ MaxTokens >= Minute
BY BucketAssumption, MulNat, Mono DEF MaxTokens

(* Who waits one second more than the Retry-After it was told finds a token, although
   the header is rounded down; who waits less finds none, unless it was told a second. *)
LEMMA RetryIsEnough ==
  ASSUME NEW tokens \in Nat, tokens < Minute
  PROVE  /\ RetryAfter(tokens) \in Nat \ {0}
         /\ \A d \in Int : d >= (RetryAfter(tokens) + 1) * Second
              => tokens + d * PerMin >= Minute
         /\ \A d \in Int : RetryAfter(tokens) > 1 /\ d < RetryAfter(tokens) * Second
              => tokens + d * PerMin < Minute
<1> DEFINE q == (Minute - tokens) \div PerMin
           w == Wait(tokens)
           r == RetryAfter(tokens)
<1>1. q \in Nat /\ (q + 1) * PerMin > Minute - tokens
  BY BucketAssumption, DivBound, DivNat
<1>7. q * PerMin <= Minute - tokens
  BY BucketAssumption, DivFloor
<1> HIDE DEF q
<1>2. w \in Nat /\ w >= q /\ (w = q \/ w = Second)
  BY <1>1, BucketAssumption DEF Wait, Larger, q
<1> HIDE DEF w
<1>3. w \div Second \in Nat /\ (w \div Second + 1) * Second > w
  BY <1>2, BucketAssumption, DivBound, DivNat
<1>4. r \in Nat \ {0} /\ r >= w \div Second /\ (r > 1 => r = w \div Second)
  BY <1>3 DEF RetryAfter, Larger, w
<1> HIDE DEF r
<1>5. (r + 1) * Second >= (w \div Second + 1) * Second
  BY <1>3, <1>4, BucketAssumption, Mono
<1>6. ASSUME NEW d \in Int, d >= (r + 1) * Second
      PROVE  tokens + d * PerMin >= Minute
  <2>1. (r + 1) * Second \in Int /\ (w \div Second + 1) * Second \in Int
    BY <1>3, <1>4, BucketAssumption
  <2>2. d >= q + 1
    BY <1>1, <1>2, <1>3, <1>5, <1>6, <2>1
  <2>3. d * PerMin >= (q + 1) * PerMin
    BY <1>1, <2>2, BucketAssumption, Mono
  <2>4. d * PerMin \in Int /\ (q + 1) * PerMin \in Int
    BY <1>1, BucketAssumption
  <2> QED  BY <1>1, <2>3, <2>4, BucketAssumption
<1>8. ASSUME NEW d \in Int, r > 1, d < r * Second
      PROVE  tokens + d * PerMin < Minute
  <2>1. r * Second \in Int /\ r * Second <= w
    BY <1>2, <1>4, <1>8, BucketAssumption, DivFloor
  <2>2. r * Second >= 2 * Second
    BY <1>4, <1>8, BucketAssumption, Mono
  <2>3. w = q
    BY <1>2, <2>1, <2>2, BucketAssumption
  <2>4. q >= d + 1
    BY <1>1, <1>8, <2>1, <2>3
  <2>5. q * PerMin >= (d + 1) * PerMin
    BY <1>1, <2>4, BucketAssumption, Mono
  <2>6. (d + 1) * PerMin = d * PerMin + PerMin /\ d * PerMin \in Int /\ q * PerMin \in Int
    BY <1>1, BucketAssumption
  <2> QED  BY <1>7, <2>5, <2>6, BucketAssumption
<1> QED  BY <1>4, <1>6, <1>8, Zenon DEF r

(* What the refill adds: no more than the rate, no more than the bucket holds. *)
LEMMA RefillBounds ==
  ASSUME BucketInv, NEW k \in Keys
  PROVE  LET b == buckets[k] IN
         /\ Refilled(b) \in 0 .. MaxTokens
         /\ b.used => Refilled(b) <= b.tokens + (now - b.last) * PerMin
         /\ ~b.used => Refilled(b) = MaxTokens
         /\ b.tokens + (now - b.last) * PerMin >= Minute => Refilled(b) >= Minute
<1> DEFINE b == buckets[k]
           u == b.tokens + (now - b.last) * PerMin
<1>1. b.tokens \in 0 .. MaxTokens /\ now - b.last \in Nat /\ now \in Nat /\ b.last \in Nat
  BY BucketAssumption DEF BucketInv, BucketTypeOK
<1>2. (now - b.last) * PerMin \in Nat
  BY <1>1, BucketAssumption, MulNat, Zenon
<1>3. u \in Nat
  BY <1>1, <1>2, Products
<1>4. Refilled(b) = IF ~b.used \/ u > MaxTokens THEN MaxTokens ELSE u
  BY Zenon DEF Refilled
<1> HIDE DEF u
<1>5. b.used \in BOOLEAN
  BY Zenon DEF BucketInv, BucketTypeOK
<1> QED  BY <1>3, <1>4, <1>5, Products, BucketAssumption DEF u

(* One request let through. *)
LEMMA PassKeepsRate ==
  ASSUME NEW b, NEW p \in Seq(0 .. BucketTime), NEW t \in 0 .. MaxTokens,
         NEW n \in 0 .. BucketTime,
         b.last \in Nat, b.last <= n, b.tokens \in Nat, RateHolds(b, p), t >= Minute,
         b.used => t <= b.tokens + (n - b.last) * PerMin
  PROVE  RateHolds([tokens |-> t - Minute, last |-> n, used |-> TRUE], Append(p, n))
<1> DEFINE c == [tokens |-> t - Minute, last |-> n, used |-> TRUE]
           q == Append(p, n)
<1>0. /\ PerMin \in Nat /\ Minute \in Nat /\ MaxTokens \in Nat /\ n \in Nat /\ t \in Nat
      /\ t <= MaxTokens
  BY BucketAssumption, Products
<1>1. Len(p) \in Nat /\ \A i \in 1 .. Len(p) : p[i] \in Nat
  BY BucketAssumption, LenFacts
<1>2. /\ Len(q) = Len(p) + 1 /\ q[Len(p) + 1] = n /\ \A i \in 1 .. Len(p) : q[i] = p[i]
  BY BucketAssumption, AppendFacts
<1>3. c.tokens = t - Minute /\ c.last = n /\ c.used
  <2>1. c.tokens = t - Minute /\ c.last = n
    BY Zenon
  <2>2. c.used
    BY Zenon
  <2> QED  BY <2>1, <2>2, Zenon
<1> HIDE DEF c, q
<1>4. \A i \in 1 .. Len(p) :
        /\ q[i] <= n
        /\ (Len(q) - i + 1) * Minute + c.tokens <= MaxTokens + (n - q[i]) * PerMin
  <2> TAKE i \in 1 .. Len(p)
  <2>1. b.used
    BY <1>1 DEF RateHolds
  <2>2. /\ p[i] <= b.last
        /\ (Len(p) - i + 1) * Minute + b.tokens <= MaxTokens + (b.last - p[i]) * PerMin
    BY Zenon DEF RateHolds
  <2>3. ((Len(p) - i + 1) + 1) * Minute + (t - Minute) <= MaxTokens + (n - p[i]) * PerMin
    <3> DEFINE a == Len(p) - i + 1
    <3>1. a \in Int /\ p[i] \in Int /\ b.last \in Int /\ b.tokens \in Int
          /\ PerMin \in Int /\ Minute \in Int /\ MaxTokens \in Int /\ n \in Int /\ t \in Int
      BY <1>0, <1>1
    <3>2. a * Minute + b.tokens <= MaxTokens + (b.last - p[i]) * PerMin
          /\ t <= b.tokens + (n - b.last) * PerMin
      BY <2>1, <2>2, Zenon
    <3> HIDE DEF a
    <3>3. (a + 1) * Minute + (t - Minute) <= MaxTokens + (n - p[i]) * PerMin
      BY <3>1, <3>2, RateStep, Zenon
    <3> QED  BY <3>3, Zenon DEF a
  <2>4. (Len(p) - i + 1) + 1 = Len(q) - i + 1
    BY <1>1, <1>2
  <2>5. q[i] <= n
    BY <1>0, <1>1, <1>2, <2>2
  <2> QED  BY <1>2, <1>3, <2>3, <2>4, <2>5, Zenon
<1>5. (Len(q) - (Len(p) + 1) + 1) * Minute + c.tokens <= MaxTokens + (n - n) * PerMin
  <2>1. Len(q) - (Len(p) + 1) + 1 = 1 /\ n - n = 0
    BY <1>0, <1>1, <1>2
  <2>2. 1 * Minute + (t - Minute) <= MaxTokens + 0 * PerMin
    BY <1>0
  <2> QED  BY <1>3, <2>1, <2>2, Zenon
<1>6. \A i \in 1 .. Len(q) : i \in 1 .. Len(p) \/ i = Len(p) + 1
  BY <1>1, <1>2
<1>7. \A i \in 1 .. Len(q) :
        /\ q[i] <= c.last
        /\ (Len(q) - i + 1) * Minute + c.tokens <= MaxTokens + (c.last - q[i]) * PerMin
  <2> TAKE i \in 1 .. Len(q)
  <2>1. CASE i \in 1 .. Len(p)
    BY <1>3, <1>4, <2>1, Zenon
  <2>2. CASE i = Len(p) + 1
    BY <1>0, <1>2, <1>3, <1>5, <2>2
  <2> QED  BY <1>6, <2>1, <2>2, Zenon
<1>8. \A i, j \in 1 .. Len(q) :
        i <= j => (j - i + 1) * Minute <= MaxTokens + (q[j] - q[i]) * PerMin
  <2> TAKE i, j \in 1 .. Len(q)
  <2> HAVE i <= j
  <2>1. CASE j \in 1 .. Len(p)
    <3>1. i \in 1 .. Len(p)
      BY <1>1, <1>6, <2>1
    <3> QED  BY <1>2, <2>1, <3>1, Zenon DEF RateHolds
  <2>2. CASE j = Len(p) + 1
    <3>1. (Len(q) - i + 1) * Minute + c.tokens <= MaxTokens + (n - q[i]) * PerMin
      BY <1>3, <1>7, Zenon
    <3>2. q[i] \in Int
      BY <1>0, <1>1, <1>2, <1>6
    <3>3. (Len(q) - i + 1) * Minute \in Int /\ (n - q[i]) * PerMin \in Int
      BY <1>0, <1>1, <1>2, <3>2
    <3>4. (Len(q) - i + 1) * Minute <= MaxTokens + (n - q[i]) * PerMin
      BY <1>0, <1>3, <3>1, <3>3
    <3> QED  BY <1>2, <2>2, <3>4, Zenon
  <2> QED  BY <1>6, <2>1, <2>2, Zenon
<1> QED  BY <1>3, <1>7, <1>8, Zenon DEF RateHolds, c, q

(* One request refused: the refill is stored, nothing is taken. *)
LEMMA RefusalKeepsRate ==
  ASSUME NEW b, NEW p \in Seq(0 .. BucketTime), NEW t \in 0 .. MaxTokens,
         NEW n \in 0 .. BucketTime,
         b.last \in Nat, b.last <= n, b.tokens \in Nat, RateHolds(b, p),
         b.used => t <= b.tokens + (n - b.last) * PerMin
  PROVE  RateHolds([tokens |-> t, last |-> n, used |-> TRUE], p)
<1> DEFINE c == [tokens |-> t, last |-> n, used |-> TRUE]
<1>0. /\ PerMin \in Int /\ Minute \in Int /\ MaxTokens \in Int /\ n \in Int /\ t \in Int
      /\ b.last \in Int /\ b.tokens \in Int
  BY BucketAssumption, Products
<1>1. Len(p) \in Nat /\ \A i \in 1 .. Len(p) : p[i] \in Nat
  BY BucketAssumption, LenFacts
<1>2. c.tokens = t /\ c.last = n /\ c.used
  <2>1. c.tokens = t /\ c.last = n
    BY Zenon
  <2>2. c.used
    BY Zenon
  <2> QED  BY <2>1, <2>2, Zenon
<1> HIDE DEF c
<1>3. \A i \in 1 .. Len(p) :
        p[i] <= c.last
        /\ (Len(p) - i + 1) * Minute + c.tokens <= MaxTokens + (c.last - p[i]) * PerMin
  <2> TAKE i \in 1 .. Len(p)
  <2> DEFINE a == Len(p) - i + 1
  <2>1. b.used
    BY <1>1 DEF RateHolds
  <2>2. p[i] <= b.last /\ a * Minute + b.tokens <= MaxTokens + (b.last - p[i]) * PerMin
        /\ t <= b.tokens + (n - b.last) * PerMin
    BY <2>1, Zenon DEF RateHolds
  <2>3. a \in Int /\ p[i] \in Int
    BY <1>1
  <2> HIDE DEF a
  <2>4. (a + 1) * Minute + (t - Minute) <= MaxTokens + (n - p[i]) * PerMin
    BY <1>0, <2>2, <2>3, RateStep, Zenon
  <2>5. (a + 1) * Minute = a * Minute + Minute /\ a * Minute \in Int
        /\ (n - p[i]) * PerMin \in Int
    BY <1>0, <2>3
  <2>6. a * Minute + t <= MaxTokens + (n - p[i]) * PerMin
    BY <1>0, <2>4, <2>5
  <2>7. p[i] <= n
    BY <1>0, <2>2, <2>3
  <2> QED  BY <1>2, <2>6, <2>7, Zenon DEF a
<1> QED  BY <1>2, <1>3, Zenon DEF RateHolds, c

(* Every request and every tick keeps the invariant. *)
LEMMA BucketStep ==
  ASSUME BucketInv, [BucketNext]_<<now, bucketVars>>
  PROVE  BucketInv'
<1>1. CASE BucketTick
  <2>1. UNCHANGED <<buckets, passed, told>> /\ now' = now + 1 /\ now < BucketTime
    BY <1>1, Zenon DEF BucketTick, Advance, bucketVars
  <2>2. BucketTypeOK'
    BY <2>1, BucketAssumption DEF BucketInv, BucketTypeOK
  <2>3. \A k \in Keys : buckets[k].last <= now'
    BY <2>1, BucketAssumption DEF BucketInv, BucketTypeOK
  <2> QED  BY <2>1, <2>2, <2>3, Zenon DEF BucketInv
<1>2. ASSUME NEW k \in Keys, BucketAllow(k)
      PROVE  BucketInv'
  <2> DEFINE b == buckets[k]
             p == passed[k]
             t == Refilled(b)
             pass == [tokens |-> t - Minute, last |-> now, used |-> TRUE]
             refuse == [tokens |-> t, last |-> now, used |-> TRUE]
  <2>1. /\ t \in 0 .. MaxTokens
        /\ b.used => t <= b.tokens + (now - b.last) * PerMin
    BY RefillBounds, Zenon
  <2>2. /\ now \in 0 .. BucketTime /\ p \in Seq(0 .. BucketTime) /\ b.last \in Nat
        /\ b.last <= now
        /\ b.tokens \in Nat /\ RateHolds(b, p) /\ now' = now
        /\ buckets \in [Keys -> Bucket] /\ passed \in [Keys -> Seq(0 .. BucketTime)]
        /\ told \in [Keys -> [at : 0 .. BucketTime, secs : Nat]]
    BY <1>2 DEF BucketInv, BucketTypeOK, BucketAllow, Bucket
  <2> HIDE DEF b, p, t
  <2>3. ASSUME NEW c \in Bucket, NEW q \in Seq(0 .. BucketTime),
               NEW r \in [at : 0 .. BucketTime, secs : Nat],
               buckets' = [buckets EXCEPT ![k] = c], passed' = [passed EXCEPT ![k] = q],
               told' = [told EXCEPT ![k] = r],
               c.last = now, RateHolds(c, q), ToldHolds(c, r)
        PROVE  BucketInv'
    <3>1. BucketTypeOK'
      BY <2>2, <2>3, Zenon DEF BucketTypeOK, Bucket
    <3>2. \A j \in Keys : /\ buckets'[j] = (IF j = k THEN c ELSE buckets[j])
                          /\ passed'[j] = (IF j = k THEN q ELSE passed[j])
                          /\ told'[j] = (IF j = k THEN r ELSE told[j])
      BY <2>2, <2>3, Zenon
    <3>3. now <= now
      BY <2>2
    <3> QED  BY <2>2, <2>3, <3>1, <3>2, <3>3, Zenon DEF BucketInv
  <2>4. CASE t >= Minute /\ Len(p) < MaxPassed
             /\ buckets' = [buckets EXCEPT ![k] = pass]
             /\ passed' = [passed EXCEPT ![k] = Append(p, now)]
             /\ told' = [told EXCEPT ![k] = NotTold]
    <3>1. RateHolds(pass, Append(p, now))
      BY <2>1, <2>2, <2>4, PassKeepsRate, Zenon
    <3>2. NotTold \in [at : 0 .. BucketTime, secs : Nat]
      BY BucketAssumption DEF NotTold
    <3>3. pass \in Bucket /\ pass.last = now
      <4>1. t - Minute \in 0 .. MaxTokens
        BY <2>1, <2>4, BucketAssumption, Products
      <4> QED  BY <2>2, <4>1, Zenon DEF Bucket
    <3>4. Append(p, now) \in Seq(0 .. BucketTime)
      BY <2>2
    <3>5. ToldHolds(pass, NotTold)
      BY Zenon DEF ToldHolds
    <3> HIDE DEF pass
    <3> QED  BY <2>3, <2>4, <3>1, <3>2, <3>3, <3>4, <3>5, Zenon
  <2>5. CASE t < Minute
             /\ buckets' = [buckets EXCEPT ![k] = refuse]
             /\ told' = [told EXCEPT ![k] = [at |-> now, secs |-> RetryAfter(t)]]
             /\ UNCHANGED passed
    <3> DEFINE r == [at |-> now, secs |-> RetryAfter(t)]
    <3>1. RateHolds(refuse, p)
      BY <2>1, <2>2, RefusalKeepsRate, Zenon
    <3>2. r \in [at : 0 .. BucketTime, secs : Nat]
      BY <2>1, <2>2, <2>5, RetryIsEnough, Products, BucketAssumption
    <3>3. refuse \in Bucket /\ refuse.last = now /\ refuse.tokens = t /\ refuse.used
      BY <2>1, <2>2, Zenon DEF Bucket
    <3>4. passed' = [passed EXCEPT ![k] = p]
      BY <2>2, <2>5, Zenon DEF p
    <3>5. r.at = now /\ r.secs = RetryAfter(t)
      BY Zenon
    <3> HIDE DEF refuse, r
    <3>6. ToldHolds(refuse, r)
      BY <2>5, <3>3, <3>5, Zenon DEF ToldHolds
    <3> QED  BY <2>2, <2>3, <2>5, <3>1, <3>2, <3>3, <3>4, <3>6, Zenon DEF r
  <2> QED  BY <1>2, <2>4, <2>5, Zenon DEF BucketAllow, b, p, t
<1>3. CASE UNCHANGED <<now, bucketVars>>
  BY <1>3, Zenon DEF bucketVars, BucketInv, BucketTypeOK
<1> QED  BY <1>1, <1>2, <1>3, Zenon DEF BucketNext

(* Between any two requests of a client no more pass than the burst and the refill
   allow, and the Retry-After of a refusal is less than a second from the true wait. *)
THEOREM BucketKeepsRate == BucketSpec => []RateIsKept
<1>1. BucketInit => BucketInv
  <2> SUFFICES ASSUME BucketInit PROVE BucketInv
    BY Zenon
  <2>1. Fresh \in Bucket /\ Fresh.last = 0 /\ ~Fresh.used
    <3>1. MaxTokens \in 0 .. MaxTokens /\ 0 \in 0 .. BucketTime
      BY BucketAssumption, Products
    <3> QED  BY <3>1, Zenon DEF Fresh, Bucket
  <2>2. NotTold \in [at : 0 .. BucketTime, secs : Nat]
    BY BucketAssumption DEF NotTold
  <2>3. RateHolds(Fresh, <<>>) /\ ToldHolds(Fresh, NotTold)
    BY <2>1 DEF RateHolds, ToldHolds
  <2> HIDE DEF Fresh
  <2>4. \A k \in Keys : buckets[k] = Fresh /\ passed[k] = <<>> /\ told[k] = NotTold
    BY Zenon DEF BucketInit
  <2>5. BucketTypeOK
    BY <2>1, <2>2, BucketAssumption DEF BucketInit, BucketTypeOK, Bucket
  <2>6. now = 0
    BY Zenon DEF BucketInit
  <2> QED  BY <2>1, <2>3, <2>4, <2>5, <2>6 DEF BucketInv
<1>2. BucketInv => RateIsKept
  <2> SUFFICES ASSUME BucketInv PROVE BurstBounded /\ RetryWithinASecond
    BY Zenon DEF RateIsKept
  <2>1. BurstBounded
    <3> SUFFICES ASSUME NEW k \in Keys, NEW i \in DOMAIN passed[k],
                        NEW j \in DOMAIN passed[k], i <= j
                 PROVE  (j - i + 1) * Minute <= MaxTokens + (passed[k][j] - passed[k][i]) * PerMin
      BY Zenon DEF BurstBounded
    <3>1. DOMAIN passed[k] = 1 .. Len(passed[k])
      BY LenFacts, Zenon DEF BucketInv, BucketTypeOK
    <3> QED  BY <3>1, Zenon DEF BucketInv, RateHolds
  <2>2. RetryWithinASecond
    <3> SUFFICES ASSUME NEW k \in Keys, told[k] # NotTold
                 PROVE  /\ now >= told[k].at + (told[k].secs + 1) * Second
                             => Refilled(buckets[k]) >= Minute
                        /\ told[k].secs > 1 /\ now < told[k].at + told[k].secs * Second
                             => Refilled(buckets[k]) < Minute
      BY Zenon DEF RetryWithinASecond
    <3> DEFINE b == buckets[k]
               d == now - b.last
    <3>1. /\ b.last = told[k].at /\ b.tokens < Minute /\ told[k].secs = RetryAfter(b.tokens)
          /\ b.tokens \in Nat /\ now \in Int /\ b.last \in Int /\ d \in Int /\ b.used
      BY BucketAssumption DEF BucketInv, BucketTypeOK, ToldHolds
    <3>2. Refilled(b) = IF b.tokens + d * PerMin > MaxTokens THEN MaxTokens
                        ELSE b.tokens + d * PerMin
      BY <3>1, Zenon DEF Refilled
    <3>5. b.last + d = now
      BY <3>1
    <3> HIDE DEF b, d
    <3>3. (told[k].secs + 1) * Second \in Int /\ told[k].secs * Second \in Int
      BY <3>1, RetryIsEnough, BucketAssumption
    <3>4. ASSUME now >= told[k].at + (told[k].secs + 1) * Second
          PROVE  Refilled(b) >= Minute
      <4>1. d >= (RetryAfter(b.tokens) + 1) * Second
        BY <3>1, <3>3, <3>4, <3>5
      <4>2. b.tokens + d * PerMin >= Minute
        BY <3>1, <4>1, RetryIsEnough, Zenon
      <4> QED  BY <3>2, <4>2, Products, Zenon
    <3>6. ASSUME told[k].secs > 1, now < told[k].at + told[k].secs * Second
          PROVE  Refilled(b) < Minute
      <4>1. d < RetryAfter(b.tokens) * Second
        BY <3>1, <3>3, <3>5, <3>6
      <4>2. b.tokens + d * PerMin < Minute
        BY <3>1, <3>6, <4>1, RetryIsEnough, Zenon
      <4>3. b.tokens + d * PerMin \in Int
        BY <3>1, BucketAssumption
      <4> QED  BY <3>2, <4>2, <4>3, Products, BucketAssumption
    <3> QED  BY <3>4, <3>6, Zenon DEF b
  <2> QED  BY <2>1, <2>2, Zenon
<1> QED  BY <1>1, <1>2, BucketStep, PTL DEF BucketSpec

-----------------------------------------------------------------------------
(* Every step of Notify, of the endpoint and of the context keeps the invariant. *)
LEMMA HookStep ==
  ASSUME HookInv, [HookNext]_hookVars
  PROVE  HookInv'
<1> USE WebhookAssumption DEF HookInv, HookTypeOK, OutcomeIsTrue
<1>0. ctxErr' \in BOOLEAN /\ (ctxErr => ctxErr')
  BY Zenon DEF HookNext, Notifier, CallNotify, Attempt, PostReturns, Backoff, Endpoint,
               CancelContext, hookVars
<1>1. CASE CallNotify
  BY <1>0, <1>1, Zenon DEF CallNotify
<1>2. CASE Attempt
  BY <1>0, <1>2 DEF Attempt, NotifyReturn
<1>3. CASE PostReturns
  BY <1>0, <1>3 DEF PostReturns, NotifyReturn
<1>4. CASE Backoff
  BY <1>0, <1>4, Zenon DEF Backoff, NotifyReturn
<1>5. CASE Endpoint
  BY <1>0, <1>5 DEF Endpoint
<1>6. CASE CancelContext
  BY <1>0, <1>6, Zenon DEF CancelContext
<1>7. CASE UNCHANGED hookVars
  BY <1>7, Zenon DEF hookVars
<1> QED  BY <1>1, <1>2, <1>3, <1>4, <1>5, <1>6, <1>7, Zenon DEF HookNext, Notifier

(* What Notify returns is true, and it starts no request once its context is cancelled. *)
THEOREM NotifyTellsTheTruth == HookSpec => []OutcomeIsTrue /\ NoRequestAfterCancel
<1>1. HookInit => HookInv
  <2>1. HookInit => ctxErr \in BOOLEAN
    BY Zenon DEF HookInit
  <2> QED  BY <2>1, WebhookAssumption DEF HookInit, HookInv, HookTypeOK, OutcomeIsTrue
<1>2. HookInv => OutcomeIsTrue
  BY Zenon DEF HookInv
<1>3. [HookNext]_hookVars => [ctxErr /\ request = "none" => request' = "none"]_hookVars
  BY Zenon DEF HookNext, Notifier, CallNotify, Attempt, PostReturns, Backoff, Endpoint,
         CancelContext, hookVars
<1> QED  BY <1>1, <1>2, <1>3, HookStep, PTL DEF HookSpec, NoRequestAfterCancel

-----------------------------------------------------------------------------
(* What the defaults fill in, and what they leave as the file has it. *)
LEMMA DefaultsFill ==
  ASSUME NEW f \in File
  PROVE  LET d == defaults(f) IN
         /\ DOMAIN d = {"readable", "token", "url", "level", "poll", "ack", "modems"}
         /\ d.token = f.token /\ d.poll # 0 /\ d.ack # 0 /\ (f.ack # 0 => d.ack = f.ack)
         /\ d.url = f.url /\ (f.level # "" => d.level = f.level)
         /\ d.poll \in Int /\ (f.poll # 0 => d.poll = f.poll)
         /\ \A i \in DOMAIN d.modems : d.modems[i].baud # 0
<1>1. f = [readable |-> f.readable, token |-> f.token, url |-> f.url, level |-> f.level,
           poll |-> f.poll, ack |-> f.ack, modems |-> f.modems]
  BY Zenon DEF File
<1>2. /\ f.poll \in Int /\ f.ack \in Int
      /\ \A i \in DOMAIN f.modems : f.modems[i] \in [port : Text, baud : Number]
  <2>1. f.poll \in Int /\ f.ack \in Int /\ f.modems \in Seq([port : Text, baud : Number])
    BY DEF File, Number
  <2>2. \A S : \A q \in Seq(S) : \A i \in DOMAIN q : q[i] \in S
    OBVIOUS
  <2> QED  BY <2>1, <2>2, Zenon
<1>3. \A n \in Int : OrDefault(n) # 0 /\ OrDefault(n) \in Int /\ (n # 0 => OrDefault(n) = n)
  BY DEF OrDefault, DefaultNumber
<1> DEFINE m == [i \in DOMAIN f.modems |-> modemDefaults(f.modems[i])]
<1>4. \A i \in DOMAIN m : m[i].baud # 0
  BY <1>2, <1>3 DEF modemDefaults, Number
<1>5. /\ DOMAIN defaults(f) = DOMAIN f
      /\ defaults(f).token = f.token /\ defaults(f).poll = OrDefault(f.poll)
      /\ defaults(f).url = f.url /\ (f.level # "" => defaults(f).level = f.level)
      /\ defaults(f).ack = OrDefault(f.ack) /\ defaults(f).modems = m
  BY <1>1, Zenon DEF defaults
<1> HIDE DEF m
<1> QED  BY <1>1, <1>2, <1>3, <1>4, <1>5, Zenon

(* A configuration that passes the validation is complete. *)
LEMMA LoadIsComplete ==
  ASSUME NEW f \in File, NEW n, Load(f) # Invalid
  PROVE  IsComplete([cfg |-> Load(f), version |-> n], [content |-> f, version |-> n])
<1> DEFINE d == defaults(f)
           c == applyEnvOverrides(d)
<1>1. /\ DOMAIN d = {"readable", "token", "url", "level", "poll", "ack", "modems"}
      /\ d.token = f.token /\ d.poll # 0 /\ d.ack # 0 /\ (f.ack # 0 => d.ack = f.ack)
      /\ d.url = f.url /\ (f.level # "" => d.level = f.level)
      /\ d.poll \in Int /\ (f.poll # 0 => d.poll = f.poll)
      /\ \A i \in DOMAIN d.modems : d.modems[i].baud # 0
  BY DefaultsFill, Zenon
<1>2. Load(f) = c /\ validate(c)
  BY Zenon DEF Load
<1> HIDE DEF d
<1>3. /\ c.ack = d.ack /\ c.modems = d.modems /\ c.token = OrEnv(d.token, Env.token)
      /\ c.url = OrEnv(d.url, Env.url) /\ c.level = OrEnv(d.level, Env.level)
      /\ c.poll = IF Env.poll > 0 THEN Env.poll ELSE d.poll
  BY <1>1, Zenon DEF applyEnvOverrides
<1> HIDE DEF c
<1>4. c.poll # 0
  <2>1. Env.poll \in Int
    BY ConfigAssumption DEF Number
  <2>2. d.poll # 0 /\ c.poll = IF Env.poll > 0 THEN Env.poll ELSE d.poll
    BY <1>1, <1>3, Zenon
  <2> QED  BY <2>1, <2>2
<1>5. /\ c.token # "" /\ c.url \in WellFormed /\ c.level \in WellFormed /\ c.modems # <<>>
      /\ \A i \in DOMAIN c.modems : c.modems[i].port \in WellFormed
  BY <1>2, Zenon DEF validate
<1> QED  BY <1>1, <1>2, <1>3, <1>4, <1>5, ZenonT(30) DEF OrEnv, IsComplete

(* Every step keeps the types. *)
LEMMA ConfigTypes ==
  ASSUME ConfigTypeOK, [ConfigNext]_configVars
  PROVE  ConfigTypeOK'
<1>1. hup' \in BOOLEAN
  BY Zenon DEF ConfigTypeOK, ConfigNext, Reload, Edit, HangUp, TakeSignal, ContextEnds,
     ReadFile, Apply,
               configVars
<1>2. CASE Edit
  BY <1>1, <1>2, ConfigAssumption DEF ConfigTypeOK, Edit
<1>3. CASE ReadFile
  <2>1. file.version \in 0 .. MaxEdits
    BY Zenon DEF ConfigTypeOK
  <2>2. loaded' = loaded \/ loaded' = [cfg |-> Load(file.content), version |-> file.version]
    BY <1>3, Zenon DEF ReadFile
  <2>3. DOMAIN loaded' = {"cfg", "version"} /\ loaded'.version \in 0 .. MaxEdits
    BY <2>1, <2>2 DEF ConfigTypeOK
  <2> QED  BY <1>1, <1>3, <2>3, Zenon DEF ConfigTypeOK, ReadFile
<1>4. CASE Apply
  BY <1>1, <1>4, Zenon DEF ConfigTypeOK, Apply
<1>5. CASE HangUp
  BY <1>1, <1>5, ConfigAssumption DEF ConfigTypeOK, HangUp
<1>6. CASE TakeSignal \/ ContextEnds
  BY <1>1, <1>6, Zenon DEF ConfigTypeOK, TakeSignal, ContextEnds
<1>7. CASE UNCHANGED configVars
  BY <1>1, <1>7, Zenon DEF ConfigTypeOK, configVars
<1> QED  BY <1>2, <1>3, <1>4, <1>5, <1>6, <1>7, Zenon DEF ConfigNext, Reload

(* Every step of the watcher, of the editor and of the signals keeps the invariant. *)
LEMMA ConfigStep ==
  ASSUME ConfigInv, [ConfigNext]_configVars
  PROVE  ConfigInv'
<1>1. ConfigTypeOK'
  BY ConfigTypes, Zenon DEF ConfigInv
<1>2. ASSUME UNCHANGED <<file, loaded, applied>>
      PROVE  ConfigInv'
  BY <1>1, <1>2, Zenon DEF ConfigInv
<1>3. CASE Edit
  <2>1. /\ UNCHANGED <<loaded, applied>> /\ file'.version = file.version + 1
        /\ file.version \in Nat
    BY <1>3, ConfigAssumption DEF ConfigInv, ConfigTypeOK, Edit
  <2>2. loaded.version # file'.version /\ applied.version # file'.version
        /\ loaded.version <= file'.version /\ applied.version <= file'.version
    BY <2>1, ConfigAssumption DEF ConfigInv, ConfigTypeOK
  <2>3. IsComplete(loaded, file') /\ IsComplete(applied, file')
    BY <2>2, Zenon DEF ConfigInv, IsComplete
  <2> QED  BY <1>1, <2>1, <2>2, <2>3, Zenon DEF ConfigInv
<1>4. CASE ReadFile
  <2>1. CASE Load(file.content) # Invalid
    <3>1. /\ loaded' = [cfg |-> Load(file.content), version |-> file.version]
          /\ UNCHANGED <<file, applied>>
      BY <1>4, <2>1, Zenon DEF ReadFile
    <3>2. file = [content |-> file.content, version |-> file.version]
          /\ file.content \in File
          /\ file.version \in Nat
      BY ConfigAssumption DEF ConfigInv, ConfigTypeOK
    <3>3. IsComplete(loaded', file')
      BY <2>1, <3>1, <3>2, LoadIsComplete, Zenon
    <3>4. loaded'.version <= file'.version
      BY <3>1, <3>2
    <3> QED  BY <1>1, <3>1, <3>3, <3>4, Zenon DEF ConfigInv
  <2>2. CASE Load(file.content) = Invalid
    BY <1>2, <1>4, <2>2, Zenon DEF ReadFile
  <2> QED  BY <2>1, <2>2, Zenon
<1>5. CASE Apply
  BY <1>1, <1>5, Zenon DEF Apply, ConfigInv
<1> QED  BY <1>2, <1>3, <1>4, <1>5, Zenon
         DEF ConfigNext, Reload, HangUp, TakeSignal, ContextEnds, configVars

(* The configuration in use is complete and valid whatever is written to the file and
   whenever SIGHUP comes: a reload that fails leaves the old one in place. *)
THEOREM OnlyCompleteConfigs == ConfigSpec => []AppliedIsComplete
<1>1. ConfigInit => ConfigInv
  <2> SUFFICES ASSUME ConfigInit  PROVE ConfigInv
    BY Zenon
  <2>1. PICK f \in File : Load(f) # Invalid /\ file = [content |-> f, version |-> 0]
        /\ f \in Files
    BY ConfigAssumption, Zenon DEF ConfigInit
  <2>2. applied = [cfg |-> Load(f), version |-> 0] /\ loaded = applied
    BY <2>1, Zenon DEF ConfigInit
  <2>3. ConfigTypeOK
    <3>1. hup \in BOOLEAN
      BY Zenon DEF ConfigInit
    <3>2. \A c \in {loaded, applied} : DOMAIN c = {"cfg", "version"}
          /\ c.version \in 0 .. MaxEdits
      BY <2>2, ConfigAssumption
    <3> QED  BY <2>1, <3>1, <3>2, ConfigAssumption DEF ConfigInit, ConfigTypeOK
  <2> QED  BY <2>1, <2>2, <2>3, LoadIsComplete DEF ConfigInv
<1>2. ConfigInv => AppliedIsComplete
  BY Zenon DEF ConfigInv, AppliedIsComplete
<1> QED  BY <1>1, <1>2, ConfigStep, PTL DEF ConfigSpec

-----------------------------------------------------------------------------
(* Every step of Run, of the goroutines and of the timer keeps the invariant. *)
LEMMA GwStep ==
  ASSUME GwInv, [GwNext]_gwVars
  PROVE  GwInv'
<1> USE DEF GwInv, GwTypeOK
<1>0. Counted \subseteq Goroutines /\ {Scraper, Flush} \subseteq Goroutines
  BY Zenon DEF Goroutines
<1>1. CASE AllStarted
  <2>1. \A g \in Counted : routine[g] # "new"
    BY <1>1, Zenon DEF AllStarted
  <2> QED  BY <1>1, <2>1, Zenon DEF AllStarted
<1>2. CASE LeaveSelect
  BY <1>2, Zenon DEF LeaveSelect
<1>3. CASE CloseBuffer \/ Exit
  <2>1. CASE CloseBuffer
    BY <2>1, Zenon DEF CloseBuffer
  <2>2. CASE Exit
    BY <2>2, Zenon DEF Exit
  <2> QED  BY <1>3, <2>1, <2>2, Zenon
<1>4. ASSUME NEW g \in Goroutines, Launch(g)
      PROVE  GwInv'
  <2>1. main = "starting" /\ routine' = [routine EXCEPT ![g] = "running"]
    BY <1>4, Zenon DEF Launch
  <2>2. routine'[g] = "running" /\ \A h \in Goroutines : h # g => routine'[h] = routine[h]
    BY <2>1, Zenon
  <2>3. counter' = {h \in Counted : routine'[h] = "running"}
    BY <1>0, <1>4, <2>2, Zenon DEF Launch
  <2>4. GwTypeOK'
    BY <1>4, Zenon DEF Launch
  <2>5. watcherDone' => \A h \in Counted : routine'[h] = "ended"
    BY <1>0, <1>4, <2>2, Zenon DEF Launch
  <2> QED  BY <1>4, <2>3, <2>4, <2>5, Zenon DEF Launch
<1>5. CASE Terminate
  BY <1>5, Zenon DEF Terminate
<1>6. CASE ShutdownWatcher
  <2>1. \A g \in Counted : routine[g] = "ended"
    <3> SUFFICES ASSUME NEW g \in Counted
                 PROVE  routine[g] = "ended"
      BY Zenon
    <3>1. routine[g] # "running" /\ routine[g] # "new"
      BY <1>6, Zenon DEF ShutdownWatcher
    <3> QED  BY <1>0, <3>1, Zenon
  <2> QED  BY <1>6, <2>1, Zenon DEF ShutdownWatcher
<1>7. CASE TimerFires
  BY <1>7, Zenon DEF TimerFires
<1>8. ASSUME NEW g \in Goroutines, Ends(g)
      PROVE  GwInv'
  BY <1>0, <1>8, Zenon DEF Ends
<1>9. CASE UNCHANGED gwVars
  BY <1>9, Zenon DEF gwVars
<1>10. CASE StartSession
  BY <1>0, <1>10, GatewayAssumption, Zenon DEF StartSession
<1>11. ASSUME NEW g \in Goroutines, Statement(g)
       PROVE  GwInv'
  <2>1. g \in {Scraper, Flush} \/ timerUp
    BY <1>11, Zenon DEF Statement, Goroutines
  <2> QED  BY <1>11, <2>1, Zenon DEF Statement
<1> QED  BY <1>0, <1>1, <1>2, <1>3, <1>4, <1>5, <1>6, <1>7, <1>8, <1>9, <1>10, <1>11, Zenon
         DEF GwNext, Run

(* The buffer is closed after the workers and the tunnel manager have ended, unless the
   timeout of the shutdown is over; only what Run does not wait for meets it closed. *)
THEOREM BufferClosedLast == GwSpec => []BufferOutlivesUsers
<1>1. GwInit => GwInv
  BY Zenon DEF Goroutines, GwInit, GwInv, GwTypeOK
<1>2. GwInv => BufferOutlivesUsers
  BY Zenon DEF GwInv, GwTypeOK, BufferOutlivesUsers
<1> QED  BY <1>1, <1>2, GwStep, PTL DEF GwSpec

-----------------------------------------------------------------------------
(* The init sequence, command by command. *)
LEMMA InitOrder ==
  /\ DOMAIN InitSteps = 1 .. 8 /\ Len(InitSteps) = 8
  /\ InitSteps[1] = "ping" /\ InitSteps[2] = "echo" /\ InitSteps[3] = "pdu"
  /\ InitSteps[4] = "cnmi"
  /\ InitSteps[5] = "caps" /\ InitSteps[6] = "iccid" /\ InitSteps[7] = "imsi"
  /\ InitSteps[8] = "operator"
  /\ Commands = Initializing \cup Recovering \cup {"creg", "reset"} \cup Reboot
BY DEF InitSteps, Commands, Initializing, Recovering

(* What a command that takes effect does to each setting of the modem. *)
LEMMA EffectOfCommand ==
  ASSUME SetupTypeOK, NEW c \in Commands, NEW e \in Effect(c)
  PROVE  /\ e \in Settings
         /\ c \in {"pdu", "repdu"}
              \/ (set.pdu /\ c \notin {"on", "reset", "taskon", "taskreset"}) => e.pdu
         /\ c = "cnmi" \/ (set.cnmi /\ c \notin {"reset", "taskreset"}) => e.cnmi
         /\ c = "echo" \/ (~set.echo /\ c \notin {"reset", "taskreset"}) => ~e.echo
         /\ c \in {"on", "reset", "taskon", "taskreset"}
              \/ (set.radio /\ c \notin {"off", "taskoff"}) => e.radio
<1> USE DEF SetupTypeOK, Settings, Reboot
<1>1. CASE c = "echo"
  BY <1>1, Zenon DEF Effect
<1>2. CASE c \in {"pdu", "repdu"}
  BY <1>2, Zenon DEF Effect
<1>3. CASE c = "cnmi"
  BY <1>3, Zenon DEF Effect
<1>4. CASE c \in {"off", "taskoff"}
  BY <1>4, Zenon DEF Effect
<1>5. CASE c \in {"on", "taskon"}
  <2>1. Effect(c) = {[set EXCEPT !.radio = TRUE],
        [set EXCEPT !.radio = TRUE, !.pdu = FALSE]}
    BY <1>5, Zenon DEF Effect
  <2>2. CASE e = [set EXCEPT !.radio = TRUE]
    BY <1>5, <2>2, Zenon
  <2>3. CASE e = [set EXCEPT !.radio = TRUE, !.pdu = FALSE]
    BY <1>5, <2>3, Zenon
  <2> QED  BY <2>1, <2>2, <2>3, Zenon
<1>6. CASE c \in {"reset", "taskreset"}
  <2>1. e = PowerOn
    BY <1>6, Zenon DEF Effect
  <2>2. PowerOn \in Settings
    BY Zenon DEF PowerOn
  <2>3. PowerOn.radio
    BY Zenon DEF PowerOn
  <2> QED  BY <1>6, <2>1, <2>2, <2>3, Zenon
<1>7. CASE c \notin {"echo", "pdu", "repdu", "cnmi", "off", "on", "reset"} \cup Reboot
  BY <1>7, Zenon DEF Effect
<1> QED  BY <1>1, <1>2, <1>3, <1>4, <1>5, <1>6, <1>7, Zenon

(* The settings of a modem that has just been switched on. *)
LEMMA PowerOnTypes == PowerOn \in Settings
BY Zenon DEF PowerOn, Settings

(* No command is tried more than nine times. *)
LEMMA TriesInRange == \A c : Tries(c) \in 1 .. 9
BY DEF Tries

(* What a command does, whether it succeeds or fails: the settings it makes, the ones
   it keeps; a failure that was answered changes none and is counted as a refusal. *)
LEMMA CommandOutcome ==
  ASSUME SetupTypeOK, RadioSoFar, NEW c \in Commands, CommandSucceeds(c) \/ CommandFails(c)
  PROVE  /\ set' \in Settings /\ portOpen' \in BOOLEAN
         /\ {refused', unanswered'} \subseteq 0 .. MaxFailed
         /\ refused <= refused' /\ unanswered <= unanswered'
         /\ (~portOpen' => unanswered' > 0)
         /\ (set.pdu /\ c \notin {"on", "reset", "taskon", "taskreset"})
              \/ (CommandSucceeds(c) /\ c \in {"pdu", "repdu"}) => set'.pdu
         /\ (set.cnmi /\ c \notin {"reset", "taskreset"})
              \/ (CommandSucceeds(c) /\ c = "cnmi") => set'.cnmi
         /\ (~set.echo /\ c \notin {"reset", "taskreset"})
              \/ (CommandSucceeds(c) /\ c = "echo") => ~set'.echo
         /\ (set.radio /\ c \notin {"off", "taskoff"})
              \/ (CommandSucceeds(c) /\ c \in {"on", "reset", "taskon", "taskreset"})
              => set'.radio
         /\ ~(portOpen /\ UNCHANGED refused) => UNCHANGED set
         /\ CommandFails(c) => unanswered' > 0 \/ (UNCHANGED set /\ refused' = refused + 1)
<1>0. /\ set \in Settings /\ portOpen \in BOOLEAN /\ refused \in 0 .. MaxFailed
      /\ unanswered \in 0 .. MaxFailed /\ (~portOpen => unanswered > 0) /\ MaxFailed \in Nat
  BY SetupAssumption, Zenon DEF SetupTypeOK, RadioSoFar
<1>1. CASE CommandSucceeds(c)
  <2>1. /\ portOpen /\ set' \in Effect(c) /\ UNCHANGED <<portOpen, refused, unanswered>>
    BY <1>1, Zenon DEF CommandSucceeds
  <2>2. ~CommandFails(c)
    BY <1>0, <2>1 DEF CommandFails
  <2>3. /\ set' \in Settings
        /\ c \in {"pdu", "repdu"}
             \/ (set.pdu /\ c \notin {"on", "reset", "taskon", "taskreset"}) => set'.pdu
        /\ c = "cnmi" \/ (set.cnmi /\ c \notin {"reset", "taskreset"}) => set'.cnmi
        /\ c = "echo" \/ (~set.echo /\ c \notin {"reset", "taskreset"}) => ~set'.echo
        /\ c \in {"on", "reset", "taskon", "taskreset"}
             \/ (set.radio /\ c \notin {"off", "taskoff"}) => set'.radio
    BY <2>1, EffectOfCommand, Zenon
  <2>4. {refused', unanswered'} \subseteq 0 .. MaxFailed /\ refused <= refused'
        /\ unanswered <= unanswered'
    BY <1>0, <2>1
  <2> QED  BY <1>0, <2>1, <2>2, <2>3, <2>4, Zenon
<1>2. CASE ~portOpen /\ UNCHANGED <<set, portOpen, refused, unanswered>>
  <2>1. {refused', unanswered'} \subseteq 0 .. MaxFailed /\ refused <= refused'
        /\ unanswered <= unanswered'
    BY <1>0, <1>2
  <2>2. ~CommandSucceeds(c)
    BY <1>2, Zenon DEF CommandSucceeds
  <2> QED  BY <1>0, <1>2, <2>1, <2>2, Zenon
<1>3. CASE portOpen /\ refused + unanswered < MaxFailed /\ refused' = refused + 1
           /\ UNCHANGED <<set, portOpen, unanswered>>
  <2>1. {refused', unanswered'} \subseteq 0 .. MaxFailed /\ refused <= refused'
        /\ unanswered <= unanswered'
    BY <1>0, <1>3
  <2>2. ~CommandSucceeds(c)
    BY <1>0, <1>3 DEF CommandSucceeds
  <2> QED  BY <1>0, <1>3, <2>1, <2>2, Zenon
<1>4. CASE /\ portOpen /\ refused + unanswered < MaxFailed
           /\ unanswered' = unanswered + 1 /\ portOpen' = FALSE
           /\ set' \in Effect(c) \cup {set} /\ UNCHANGED refused
  <2>1. {refused', unanswered'} \subseteq 0 .. MaxFailed /\ refused <= refused'
        /\ unanswered <= unanswered'
        /\ unanswered' > 0
    BY <1>0, <1>4
  <2>2. ~CommandSucceeds(c) /\ portOpen' \in BOOLEAN
    BY <1>4, Zenon DEF CommandSucceeds
  <2>3. /\ set' \in Settings
        /\ set.pdu /\ c \notin {"on", "reset", "taskon", "taskreset"} => set'.pdu
        /\ set.cnmi /\ c \notin {"reset", "taskreset"} => set'.cnmi
        /\ ~set.echo /\ c \notin {"reset", "taskreset"} => ~set'.echo
        /\ set.radio /\ c \notin {"off", "taskoff"} => set'.radio
    <3>1. CASE set' \in Effect(c)
      BY <3>1, EffectOfCommand, Zenon
    <3>2. CASE set' = set
      BY <1>0, <3>2, Zenon
    <3> QED  BY <1>4, <3>1, <3>2, Zenon
  <2> QED  BY <1>4, <2>1, <2>2, <2>3, Zenon
<1> QED  BY <1>1, <1>2, <1>3, <1>4, Zenon DEF CommandFails

(* A recovery switches the radio off and on and pings the modem; it resets the modem
   when one of them fails. *)
LEMMA RadioOrder ==
  ASSUME RadioCycle
  PROVE  /\ cmd \in {"off", "on", "again"} /\ UNCHANGED <<restarts, prev>>
         /\ \/ CommandSucceeds(cmd) /\ cmd = "off" /\ GoOn("on", mode) /\ since' = since
            \/ CommandSucceeds(cmd) /\ cmd = "on" /\ GoOn("again", mode)
                 /\ since' = since \ {"dark"}
            \/ CommandSucceeds(cmd) /\ cmd = "again" /\ GoOn("repdu", mode) /\ since' = since
            \/ CommandFails(cmd) /\ GoOn("reset", "RESETTING") /\ since' = since
BY DEF RadioCycle, Send

(* A task resets the modem or switches the radio off and on; it ends with the first
   failure and leaves on record what may be lost. *)
LEMMA RebootOrder ==
  ASSUME doRebootModem
  PROVE  /\ cmd \in Reboot /\ UNCHANGED <<restarts, prev>>
         /\ \/ CommandSucceeds(cmd) /\ cmd = "taskoff" /\ GoOn("taskon", mode)
            \/ CommandSucceeds(cmd) /\ cmd \in {"taskreset", "taskon"} /\ GoOn("creg", prev)
            \/ CommandFails(cmd) /\ GoOn("creg", prev)
         /\ \/ portOpen /\ UNCHANGED refused /\ cmd = "taskreset"
                 /\ since' = (since \ {"dark"}) \cup {"reset", "unset"}
            \/ portOpen /\ UNCHANGED refused /\ cmd = "taskon"
                 /\ since' = (since \ {"dark"}) \cup {"unset"}
            \/ portOpen /\ UNCHANGED refused /\ cmd = "taskoff" /\ since' = since \ {"dark"}
            \/ ~(portOpen /\ UNCHANGED refused) /\ cmd = "taskon" /\ since' = since \cup {"dark"}
            \/ ~(portOpen /\ UNCHANGED refused) /\ cmd # "taskon" /\ since' = since
<1>1. cmd \in Reboot /\ UNCHANGED <<restarts, prev>>
  BY Zenon DEF doRebootModem, Send
<1>2. \/ CommandSucceeds(cmd) /\ cmd = "taskoff" /\ GoOn("taskon", mode)
      \/ CommandSucceeds(cmd) /\ cmd \in {"taskreset", "taskon"} /\ GoOn("creg", prev)
      \/ CommandFails(cmd) /\ GoOn("creg", prev)
  BY <1>1, Zenon DEF doRebootModem, Reboot
<1>3. \/ portOpen /\ UNCHANGED refused /\ cmd = "taskreset"
           /\ since' = (since \ {"dark"}) \cup {"reset", "unset"}
      \/ portOpen /\ UNCHANGED refused /\ cmd = "taskon"
           /\ since' = (since \ {"dark"}) \cup {"unset"}
      \/ portOpen /\ UNCHANGED refused /\ cmd = "taskoff" /\ since' = since \ {"dark"}
      \/ ~(portOpen /\ UNCHANGED refused) /\ cmd = "taskon" /\ since' = since \cup {"dark"}
      \/ ~(portOpen /\ UNCHANGED refused) /\ cmd # "taskon" /\ since' = since
  BY <1>1 DEF doRebootModem, Reboot
<1> QED  BY <1>1, <1>2, <1>3, Zenon

(* Every step keeps the types. *)
LEMMA SetupTypes ==
  ASSUME SetupTypeOK, ModeOfCommand, RadioSoFar, [SetupNext]_setupVars
  PROVE  SetupTypeOK'
<1> DEFINE All == {"restart", "reset", "unset", "dark"}
           Modes == {"INITIALIZING", "ACTIVE", "EXECUTING", "RECOVERING", "RESETTING", "FAILED"}
<1>1. since' \subseteq All /\ restarts' \in 0 .. MaxRestarts
  <2>1. since' \subseteq since \cup All
    <3>1. CASE doRebootModem
      BY <3>1, RebootOrder, Zenon
    <3>2. CASE RadioCycle
      BY <3>2, RadioOrder, Zenon
    <3> QED  BY <3>1, <3>2, Zenon DEF SetupNext, Dialogue, InitStep, Keepalive, SetPDUMode,
                HardReset, NextWorker, OtherUnanswered, RebootTask, ResetRequested,
                ModemRestarts, setupVars
  <2>2. restarts' = restarts \/ (restarts < MaxRestarts /\ restarts' = restarts + 1)
    BY RebootOrder, RadioOrder, Zenon DEF SetupNext, Dialogue, InitStep, Keepalive, SetPDUMode,
       HardReset, NextWorker, OtherUnanswered, RebootTask, ResetRequested, ModemRestarts,
       setupVars, Send
  <2>3. restarts \in 0 .. MaxRestarts /\ since \subseteq All
    BY Zenon DEF SetupTypeOK
  <2>4. restarts' \in 0 .. MaxRestarts
    BY <2>2, <2>3, SetupAssumption
  <2> QED  BY <2>1, <2>3, <2>4, Zenon
<1>4. prev' \in {"INITIALIZING", "ACTIVE"}
  <2>1. cmd = "creg" => mode \in {"INITIALIZING", "ACTIVE"}
    BY Zenon DEF ModeOfCommand
  <2> QED  BY <2>1, RebootOrder, RadioOrder, Zenon DEF SetupTypeOK, SetupNext, Dialogue, InitStep,
              Keepalive, SetPDUMode, HardReset, NextWorker, OtherUnanswered, RebootTask,
              ResetRequested, ModemRestarts, setupVars, Send
<1>2. /\ cmd' \in Commands \cup {"ended"} /\ attempts' \in 1 .. 9
      /\ mode' \in Modes
  <2>1. cmd \in Commands \cup {"ended"} /\ attempts \in 1 .. 9 /\ mode \in Modes /\ prev \in Modes
    BY Zenon DEF SetupTypeOK
  <2>2. \/ UNCHANGED <<cmd, attempts, mode>>
        \/ UNCHANGED <<cmd, mode>> /\ attempts > 1 /\ attempts' = attempts - 1
        \/ \E c \in Commands \cup {"ended"}, m \in Modes : GoOn(c, m)
    <3>1. ASSUME NEW k \in 1 .. 8, InitStep(k)
          PROVE  \/ UNCHANGED <<cmd, attempts, mode>>
                 \/ UNCHANGED <<cmd, mode>> /\ attempts > 1 /\ attempts' = attempts - 1
                 \/ \E c \in Commands \cup {"ended"}, m \in Modes : GoOn(c, m)
      <4>1. AfterStep(k) => \E c \in Commands, m \in {mode, "ACTIVE"} : GoOn(c, m)
        BY InitOrder DEF AfterStep, Initializing
      <4> QED  BY <2>1, <3>1, <4>1, Zenon DEF InitStep
    <3>2. {"creg", "off", "on", "again", "repdu", "reset", "ping"} \cup Reboot \subseteq Commands
      BY InitOrder, Zenon DEF Initializing, Recovering
    <3>3. CASE Keepalive \/ SetPDUMode \/ HardReset \/ NextWorker \/ ResetRequested
      BY <3>2, <3>3, Zenon DEF Keepalive, SetPDUMode, HardReset, NextWorker, ResetRequested
    <3>4. CASE RadioCycle
      BY <2>1, <3>2, <3>4, RadioOrder, Zenon
    <3>5. CASE doRebootModem
      <4>1. "taskon" \in Commands /\ "creg" \in Commands
        BY <3>2, Zenon DEF Reboot
      <4> QED  BY <2>1, <3>5, <4>1, RebootOrder, Zenon
    <3>6. CASE RebootTask
      <4>1. "taskreset" \in Commands /\ "taskoff" \in Commands
        BY <3>2, Zenon DEF Reboot
      <4> QED  BY <3>6, <4>1, Zenon DEF RebootTask
    <3> QED  BY <3>1, <3>3, <3>4, <3>5, <3>6, InitOrder, Zenon
             DEF SetupNext, Dialogue, OtherUnanswered, ModemRestarts, setupVars
  <2> QED  BY <2>1, <2>2, TriesInRange DEF GoOn
<1>3. /\ set' \in Settings /\ portOpen' \in BOOLEAN
      /\ {refused', unanswered'} \subseteq 0 .. MaxFailed
  <2>1. CASE cmd \in Commands /\ (CommandSucceeds(cmd) \/ CommandFails(cmd))
    BY <2>1, CommandOutcome, Zenon
  <2>2. CASE set' \in {set, PowerOn} /\ portOpen' \in {portOpen, TRUE}
             /\ UNCHANGED <<refused, unanswered>>
    <3>1. set' \in Settings
      BY <2>2, PowerOnTypes, Zenon DEF SetupTypeOK
    <3>2. portOpen' \in BOOLEAN
      BY <2>2, Zenon DEF SetupTypeOK
    <3> QED  BY <2>2, <3>1, <3>2, Zenon DEF SetupTypeOK
  <2>3. ASSUME NEW k \in 1 .. 8, InitStep(k)
        PROVE  cmd \in Commands /\ (CommandSucceeds(cmd) \/ CommandFails(cmd))
    BY <2>3, InitOrder DEF InitStep, Send, Initializing
  <2>4. CASE Keepalive \/ RadioCycle \/ SetPDUMode \/ HardReset \/ doRebootModem
    <3>1. {"creg", "off", "on", "again", "repdu", "reset"} \cup Reboot \subseteq Commands
      BY InitOrder, Zenon DEF Recovering
    <3>2. CASE doRebootModem
      BY <2>1, <3>1, <3>2, RebootOrder, Zenon
    <3> QED  BY <2>1, <2>4, <3>1, <3>2, RadioOrder, Zenon DEF Keepalive, SetPDUMode,
                HardReset, Send
  <2>5. CASE OtherUnanswered
    <3>1. /\ set' = set /\ portOpen' = FALSE /\ refused' = refused
          /\ unanswered' = unanswered + 1 /\ refused + unanswered < MaxFailed
      BY <2>5, Zenon DEF OtherUnanswered
    <3>2. {refused', unanswered'} \subseteq 0 .. MaxFailed
      BY <3>1, SetupAssumption DEF SetupTypeOK
    <3> QED  BY <3>1, <3>2, Zenon DEF SetupTypeOK
  <2> QED  BY <2>1, <2>2, <2>3, <2>4, <2>5, InitOrder, Zenon
           DEF SetupNext, Dialogue, RebootTask, NextWorker, ResetRequested, ModemRestarts,
               setupVars
<1> QED  BY <1>1, <1>2, <1>3, <1>4, Zenon DEF SetupTypeOK

(* Every step keeps the relation between the state of the worker and its command. *)
LEMMA ModeKept ==
  ASSUME SetupTypeOK, ModeOfCommand, [SetupNext]_setupVars
  PROVE  ModeOfCommand'
<1> USE DEF ModeOfCommand, Initializing, Recovering, Reboot
<1>1. ASSUME NEW k \in 1 .. 8, InitStep(k)
      PROVE  ModeOfCommand'
  BY <1>1, InitOrder DEF InitStep, Send, GoOn, AfterStep
<1>2. CASE Keepalive \/ RadioCycle \/ SetPDUMode
  <2>1. CASE Keepalive \/ SetPDUMode
    BY <2>1, Zenon DEF Keepalive, SetPDUMode, Send, GoOn
  <2>2. CASE RadioCycle
    BY <2>2, RadioOrder, Zenon DEF GoOn
  <2> QED  BY <1>2, <2>1, <2>2, Zenon
<1>3. CASE HardReset \/ NextWorker \/ ResetRequested
  BY <1>3, Zenon DEF HardReset, NextWorker, ResetRequested, Send, GoOn
<1>4. CASE ModemRestarts \/ OtherUnanswered \/ UNCHANGED setupVars
  BY <1>4, Zenon DEF ModemRestarts, OtherUnanswered, setupVars
<1>5. CASE RebootTask
  BY <1>5, Zenon DEF RebootTask, GoOn
<1>6. CASE doRebootModem
  BY <1>6, RebootOrder, Zenon DEF GoOn, SetupTypeOK
<1> QED  BY <1>1, <1>2, <1>3, <1>4, <1>5, <1>6, InitOrder, Zenon DEF SetupNext, Dialogue

(* Every step keeps what the commands so far have set. *)
LEMMA SettingsKept ==
  ASSUME SetupTypeOK, RadioSoFar, ModeOfCommand, SettingsSoFar, [SetupNext]_setupVars
  PROVE  SettingsSoFar'
<1> DEFINE Sent == cmd \in Commands /\ (CommandSucceeds(cmd) \/ CommandFails(cmd))
<1>1. ASSUME Sent
      PROVE  /\ (set.pdu /\ cmd \notin {"on", "reset", "taskon", "taskreset"})
                  \/ (CommandSucceeds(cmd) /\ cmd \in {"pdu", "repdu"}) => set'.pdu
             /\ (set.cnmi /\ cmd \notin {"reset", "taskreset"})
                  \/ (CommandSucceeds(cmd) /\ cmd = "cnmi") => set'.cnmi
             /\ (~set.echo /\ cmd \notin {"reset", "taskreset"})
                  \/ (CommandSucceeds(cmd) /\ cmd = "echo") => ~set'.echo
  BY <1>1, CommandOutcome, Zenon
<1>12. Sent /\ ~(portOpen /\ UNCHANGED refused) => UNCHANGED set
  BY CommandOutcome, Zenon
<1> HIDE DEF Sent
<1>2. ASSUME NEW k \in 1 .. 8, InitStep(k)
      PROVE  SettingsSoFar'
  <2>1. Sent
    BY <1>2, InitOrder DEF Sent, InitStep, Send, Initializing
  <2>2. cmd = InitSteps[k] /\ UNCHANGED since /\ mode = "INITIALIZING"
    BY <1>2, InitOrder DEF InitStep, Send, ModeOfCommand, Initializing
  <2>3. CASE cmd' = "ended" \/ UNCHANGED cmd
    BY <1>1, <2>1, <2>2, <2>3, InitOrder DEF SettingsSoFar, Recovering, Reboot
  <2>4. CASE AfterStep(k) /\ (CommandSucceeds(cmd) \/ cmd \in NonFatal)
    BY <1>1, <2>1, <2>2, <2>4, InitOrder DEF SettingsSoFar, Recovering, Reboot, AfterStep,
       GoOn, NonFatal
  <2> QED  BY <1>2, <2>3, <2>4, Zenon DEF InitStep, GoOn
<1>3. CASE Keepalive
  BY <1>1, <1>3, InitOrder, Zenon DEF Sent, Keepalive, Send, GoOn, SettingsSoFar, Recovering
<1>4. CASE RadioCycle
  <2>1. Sent
    BY <1>4, RadioOrder, InitOrder, Zenon DEF Sent, Recovering
  <2> QED  BY <1>1, <1>4, <2>1, RadioOrder, Zenon DEF GoOn, SettingsSoFar, Recovering
<1>5. CASE SetPDUMode
  BY <1>1, <1>5, InitOrder, Zenon DEF Sent, SetPDUMode, Send, GoOn, SettingsSoFar,
     Recovering
<1>6. CASE HardReset
  BY <1>6, Zenon DEF HardReset, GoOn, SettingsSoFar
<1>7. CASE NextWorker \/ ResetRequested
  BY <1>7, Zenon DEF NextWorker, ResetRequested, GoOn, SettingsSoFar
<1>8. CASE ModemRestarts
  BY <1>8, Zenon DEF ModemRestarts, SettingsSoFar
<1>9. CASE OtherUnanswered \/ UNCHANGED setupVars
  BY <1>9, Zenon DEF OtherUnanswered, Send, setupVars, SettingsSoFar
<1>10. CASE RebootTask
  BY <1>10, Zenon DEF RebootTask, GoOn, SettingsSoFar, Recovering, Reboot
<1>11. CASE doRebootModem
  <2>1. Sent
    BY <1>11, RebootOrder, InitOrder, Zenon DEF Sent
  <2>2. /\ cmd \in Reboot /\ cmd' \in {"taskon", "creg"} /\ UNCHANGED prev
        /\ cmd' = "creg" => mode' = prev
    BY <1>11, RebootOrder, Zenon DEF GoOn
  <2>3. \/ UNCHANGED set /\ since \subseteq since'
        \/ /\ since \ {"dark"} \subseteq since'
           /\ cmd # "taskoff" => "unset" \in since'
           /\ cmd = "taskreset" => "reset" \in since'
    BY <1>11, <1>12, <2>1, RebootOrder, Zenon DEF Reboot
  <2> QED  BY <1>1, <2>1, <2>2, <2>3, Zenon DEF SettingsSoFar, Recovering, Reboot
<1> QED  BY <1>2, <1>3, <1>4, <1>5, <1>6, <1>7, <1>8, <1>9, <1>10, <1>11, InitOrder, Zenon
            DEF SetupNext, Dialogue

(* Every step keeps what is known of a radio that is off. *)
LEMMA RadioKept ==
  ASSUME SetupTypeOK, RadioSoFar, [SetupNext]_setupVars
  PROVE  RadioSoFar'
<1> DEFINE Sent == cmd \in Commands /\ (CommandSucceeds(cmd) \/ CommandFails(cmd))
<1>0. refused \in Nat /\ unanswered \in Nat
  BY SetupAssumption DEF SetupTypeOK
<1>1. ASSUME Sent
      PROVE  /\ refused' \in Nat /\ unanswered' \in Nat /\ refused <= refused'
             /\ unanswered <= unanswered'
             /\ ~portOpen' => unanswered' > 0
             /\ (set.radio /\ cmd \notin {"off", "taskoff"}) \/ (CommandSucceeds(cmd)
                  /\ cmd \in {"on", "reset", "taskon", "taskreset"}) => set'.radio
             /\ CommandFails(cmd) => unanswered' > 0
                  \/ (UNCHANGED set /\ refused' = refused + 1)
  BY <1>1, CommandOutcome, SetupAssumption
<1> HIDE DEF Sent
<1>2. ASSUME Sent, cmd \notin {"off", "on", "reset"} \cup Reboot, cmd' # "off" \/ CommandFails(cmd),
             "dark" \in since => "dark" \in since'
      PROVE  RadioSoFar'
  BY <1>0, <1>1, <1>2 DEF RadioSoFar, Reboot
<1>3. ASSUME NEW k \in 1 .. 8, InitStep(k)
      PROVE  RadioSoFar'
  <2>1. Sent /\ cmd \notin {"off", "on", "reset"} \cup Reboot /\ cmd' # "off" /\ UNCHANGED since
    BY <1>3, InitOrder DEF Sent, InitStep, Send, AfterStep, GoOn, Initializing, Reboot
  <2> QED  BY <1>2, <2>1, Zenon
<1>4. CASE Keepalive
  BY <1>2, <1>4, InitOrder, Zenon DEF Sent, Keepalive, Send, GoOn, Reboot
<1>5. CASE RadioCycle
  <2>1. Sent /\ cmd \in {"off", "on", "again"} /\ cmd' # "off"
    BY <1>5, RadioOrder, InitOrder, Zenon DEF Sent, GoOn, Recovering
  <2>2. CASE cmd = "again"
    BY <1>2, <1>5, <2>1, <2>2, RadioOrder, Zenon DEF Reboot
  <2>5. CASE CommandFails(cmd) /\ cmd' = "reset" /\ since' = since /\ cmd \in {"off", "on"}
    BY <1>0, <1>1, <2>1, <2>5 DEF RadioSoFar
  <2>6. CASE CommandSucceeds(cmd) /\ cmd = "on" /\ cmd' = "again"
    BY <1>1, <2>1, <2>6, Zenon DEF RadioSoFar
  <2>7. CASE CommandSucceeds(cmd) /\ cmd = "off" /\ cmd' = "on" /\ since' = since
    BY <1>0, <1>1, <2>1, <2>7 DEF RadioSoFar
  <2>3. CASE cmd = "on"
    BY <1>5, <2>3, <2>5, <2>6, RadioOrder, Zenon DEF GoOn
  <2>4. CASE cmd = "off"
    BY <1>5, <2>4, <2>5, <2>7, RadioOrder, Zenon DEF GoOn
  <2> QED  BY <2>1, <2>2, <2>3, <2>4, Zenon
<1>6. CASE SetPDUMode
  BY <1>2, <1>6, InitOrder, Zenon DEF Sent, SetPDUMode, Send, GoOn, Recovering, Reboot
<1>7. CASE HardReset
  BY <1>0, <1>1, <1>7, InitOrder DEF Sent, HardReset, Send, GoOn, RadioSoFar
<1>8. CASE NextWorker \/ ResetRequested
  BY <1>8, Zenon DEF NextWorker, ResetRequested, Send, GoOn, RadioSoFar
<1>9. CASE ModemRestarts
  BY <1>9, Zenon DEF ModemRestarts, RadioSoFar, PowerOn
<1>10. CASE UNCHANGED setupVars
  BY <1>10, Zenon DEF setupVars, RadioSoFar
<1>11. CASE OtherUnanswered
  <2>1. unanswered' > 0 /\ cmd' = "creg"
    BY <1>0, <1>11 DEF OtherUnanswered, Send
  <2> QED  BY <2>1, Zenon DEF RadioSoFar
<1>12. CASE RebootTask
  BY <1>12, Zenon DEF RebootTask, GoOn, RadioSoFar
<1>13. CASE doRebootModem
  <2>1. Sent
    BY <1>13, RebootOrder, InitOrder, Zenon DEF Sent
  <2>2. cmd \in Reboot /\ cmd' \in {"taskon", "creg"}
    BY <1>13, RebootOrder, Zenon DEF GoOn
  <2>3. CASE CommandFails(cmd)
    <3>1. CASE unanswered' > 0
      BY <2>2, <3>1, Zenon DEF RadioSoFar
    <3>2. CASE UNCHANGED set /\ refused' = refused + 1
      <4>1. ~(UNCHANGED refused) /\ (refused > 2 => refused' > 2)
        BY <1>0, <3>2
      <4>2. since \subseteq since' /\ (cmd = "taskon" => "dark" \in since')
        BY <1>13, <4>1, RebootOrder, Zenon
      <4>3. (unanswered > 0 => unanswered' > 0) /\ (~portOpen' => unanswered' > 0)
        BY <1>0, <1>1, <2>1
      <4> QED  BY <2>2, <3>2, <4>1, <4>2, <4>3, Zenon DEF RadioSoFar, Reboot
    <3> QED  BY <1>1, <2>1, <2>3, <3>1, <3>2, Zenon
  <2>4. CASE CommandSucceeds(cmd) /\ cmd \in {"taskon", "taskreset"}
    BY <1>1, <2>1, <2>2, <2>4, Zenon DEF RadioSoFar
  <2>5. CASE cmd' = "taskon"
    BY <1>1, <2>1, <2>5, Zenon DEF RadioSoFar
  <2> QED  BY <1>13, <2>3, <2>4, <2>5, RebootOrder, Zenon DEF GoOn
<1> QED  BY <1>3, <1>4, <1>5, <1>6, <1>7, <1>8, <1>9, <1>10, <1>11, <1>12, <1>13, InitOrder, Zenon
            DEF SetupNext, Dialogue

(* The modem of an ACTIVE worker is in PDU mode, reports messages, does not echo and
   has its radio on, whatever failed before, but for the cases ActiveIsSetUp names. *)
THEOREM ActiveModemIsSetUp == SetupSpec => []ActiveIsSetUp
<1>1. SetupInit => SetupInv
  <2> SUFFICES ASSUME SetupInit PROVE SetupInv
    BY Zenon
  <2>1. SetupTypeOK
    BY SetupAssumption, TriesInRange, PowerOnTypes, InitOrder DEF SetupInit, SetupTypeOK,
       Initializing
  <2>2. ModeOfCommand /\ SettingsSoFar
    BY Zenon DEF SetupInit, ModeOfCommand, SettingsSoFar, Initializing, Recovering, Reboot
  <2>3. RadioSoFar
    BY Zenon DEF SetupInit, RadioSoFar, PowerOn
  <2> QED  BY <2>1, <2>2, <2>3, Zenon DEF SetupInv
<1>2. SetupInv => ActiveIsSetUp
  BY InitOrder, Zenon DEF SetupInv, SetupTypeOK, ModeOfCommand, SettingsSoFar, RadioSoFar,
     ActiveIsSetUp, Initializing, Recovering, Reboot
<1>3. SetupInv /\ [SetupNext]_setupVars => SetupInv'
  BY SetupTypes, ModeKept, SettingsKept, RadioKept, Zenon DEF SetupInv
<1> QED  BY <1>1, <1>2, <1>3, PTL DEF SetupSpec

-----------------------------------------------------------------------------
(* Every step of the loop, its subsystems and systemd keeps the invariant, and a ping
   comes only after all probes. *)
LEMMA DogStep ==
  ASSUME DogInv, [DogNext]_dogVars
  PROVE  DogInv' /\ ((missed' = 0 /\ missed # 0) => sickSince = {})
<1> USE WatchdogAssumption
<1>0. DogTypeOK /\ sickSince \subseteq Sick
  BY Zenon DEF DogInv
<1>1. ticked' \in BOOLEAN /\ restarted' \in BOOLEAN
  BY <1>0, Zenon DEF DogTypeOK, DogNext, RunLoop, Interval, Restart, TakeTick, RunProbe,
     Notify, Stop, Flap, dogVars
<1>2. CASE Interval \/ Restart
  <2>1. /\ UNCHANGED <<health, probe, flaps, sickSince>>
        /\ missed' = missed \/ (missed < Patience /\ missed' = missed + 1)
    BY <1>2, Zenon DEF Interval, Restart
  <2> QED  BY <1>0, <1>1, <2>1 DEF DogInv, DogTypeOK, Sick
<1>3. CASE Stop
  BY <1>1, <1>3 DEF DogInv, DogTypeOK, Stop, Stopped, Sick
<1>4. CASE TakeTick
  BY <1>1, <1>4 DEF DogInv, DogTypeOK, TakeTick, Stopped, Subsystem, Sick
<1>5. CASE RunProbe
  <2>1. probe \in Subsystem /\ health[probe] # "hung" /\ probe < Stopped
        /\ UNCHANGED <<health, ticked, missed, restarted, flaps, sickSince>>
        /\ probe' = IF health[probe] = "failing" THEN 0 ELSE probe + 1
    BY <1>5 DEF RunProbe, Stopped, Subsystem
  <2>2. health[probe] # "failing" => probe \notin sickSince
    BY <1>0, <2>1 DEF DogTypeOK, Sick
  <2> QED  BY <1>0, <1>1, <2>1, <2>2 DEF DogInv, DogTypeOK, Stopped, Subsystem, Sick
<1>6. CASE Notify
  BY <1>1, <1>6 DEF DogInv, DogTypeOK, Notify, Stopped, Subsystem, Sick
<1>7. ASSUME NEW k \in Subsystem, Flap(k)
      PROVE  DogInv' /\ ((missed' = 0 /\ missed # 0) => sickSince = {})
  <2>1. PICK h \in {"ok", "failing", "hung"} : health' = [health EXCEPT ![k] = h]
    BY <1>7, Zenon DEF Flap
  <2>2. /\ sickSince' = IF h = "ok" THEN sickSince \ {k} ELSE sickSince
        /\ flaps' = flaps + 1 /\ flaps < MaxFlaps
        /\ UNCHANGED <<ticked, probe, missed, restarted>>
    BY <1>0, <1>7, <2>1 DEF Flap, DogTypeOK
  <2>3. health' \in [Subsystem -> {"ok", "failing", "hung"}] /\ sickSince' \subseteq sickSince
    BY <1>0, <2>1, <2>2 DEF DogTypeOK
  <2>4. sickSince' \subseteq Sick'
    BY <1>0, <2>1, <2>2 DEF DogTypeOK, Sick
  <2> QED  BY <1>0, <1>1, <2>2, <2>3, <2>4 DEF DogInv, DogTypeOK, Stopped, Subsystem
<1>8. CASE UNCHANGED dogVars
  BY <1>0, <1>8 DEF DogInv, DogTypeOK, Stopped, Subsystem, Sick, dogVars
<1> QED  BY <1>2, <1>3, <1>4, <1>5, <1>6, <1>7, <1>8, Zenon DEF DogNext, RunLoop

(* systemd hears no ping after a tick since which a subsystem has been failing or hung,
   however many probes there are and whatever the other subsystems do meanwhile. *)
THEOREM PingsAreHonest == DogSpec => PingIsHonest
<1>1. DogInit => DogInv
  <2>1. DogInit => ticked \in BOOLEAN /\ restarted \in BOOLEAN
    BY Zenon DEF DogInit
  <2> QED  BY <2>1, WatchdogAssumption DEF DogInit, DogInv, DogTypeOK, Stopped, Subsystem, Sick
<1>2. DogInv /\ [DogNext]_dogVars =>
        DogInv' /\ [(missed' = 0 /\ missed # 0) => sickSince = {}]_dogVars
  BY DogStep, Zenon
<1> QED  BY <1>1, <1>2, PTL DEF DogSpec, PingIsHonest
=============================================================================
