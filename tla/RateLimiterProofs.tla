------------------------- MODULE RateLimiterProofs --------------------------
(* RateLimiter keeps its limits for every number of limiters and callers, every
   window and every clock: the invariant, and each kind of step of a call. *)
EXTENDS RateLimiter, FiniteSetTheorems, TLAPS

-----------------------------------------------------------------------------
(* Storing one window of one limiter leaves the others as they are. *)
LEMMA PutEvents ==
  ASSUME RateTypeOK, NEW l \in Limiters, NEW w \in Windows, NEW S \in SUBSET Event,
         events' = Put(events, l, w, S)
  PROVE  /\ events' \in [Limiters -> [Windows -> SUBSET Event]]
         /\ events'[l][w] = S
         /\ \A m \in Limiters, v \in Windows : m # l \/ v # w
              => events'[m][v] = events[m][v]
<1> DEFINE f == [events[l] EXCEPT ![w] = S]
<1>1. events[l] \in [Windows -> SUBSET Event]
  BY Zenon DEF RateTypeOK
<1>2. f \in [Windows -> SUBSET Event] /\ f[w] = S /\ \A v \in Windows : v # w
      => f[v] = events[l][v]
  BY <1>1, Zenon
<1>3. events' = [events EXCEPT ![l] = f]
  BY Zenon DEF Put
<1> HIDE DEF f
<1>4. events'[l] = f /\ \A m \in Limiters : m # l => events'[m] = events[m]
  BY <1>3, Zenon DEF RateTypeOK
<1>5. events' \in [Limiters -> [Windows -> SUBSET Event]]
  BY <1>2, <1>3, Zenon DEF RateTypeOK
<1> QED  BY <1>2, <1>4, <1>5

(* The steps of a call are calls. *)
LEMMA CallTypes ==
  /\ NoCall \in Calls /\ NoCall.step = 0
  /\ \A call \in Calls : call.step < 6 =>
       /\ NextWindow(call) \in Calls /\ NextWindow(call).step = call.step + 1
       /\ NextWindow(call).ev = call.ev /\ NextWindow(call).lim = call.lim
  /\ \A i \in SendIds, t \in Time, l \in Limiters :
       [step |-> 1, ev |-> [id |-> i, at |-> t], lim |-> l] \in Calls
<1>1. NoCall \in Calls /\ NoCall.step = 0
  BY RateAssumption DEF NoCall, Calls, Event, Time, Limiters
<1>2. ASSUME NEW call \in Calls, call.step < 6
      PROVE  /\ NextWindow(call) \in Calls /\ NextWindow(call).step = call.step + 1
             /\ NextWindow(call).ev = call.ev /\ NextWindow(call).lim = call.lim
  BY <1>2 DEF NextWindow, Calls
<1>3. ASSUME NEW i \in SendIds, NEW t \in Time, NEW l \in Limiters
      PROVE  [step |-> 1, ev |-> [id |-> i, at |-> t], lim |-> l] \in Calls
  <2>1. [id |-> i, at |-> t] \in Event
    BY RateAssumption DEF Event, SendIds
  <2> QED  BY <2>1 DEF Calls
<1> QED  BY <1>1, <1>2, <1>3, Zenon

(* What the three kinds of step of a call do. *)
LEMMA BeginFacts ==
  ASSUME RateTypeOK, NEW c \in Callers, AllowBegins(c)
  PROVE  /\ allow[c].step = 0
         /\ \E i \in SendIds :
              allow' = [allow EXCEPT ![c] = [step |-> 1, ev |-> [id |-> i, at |-> now],
              lim |-> last]]
         /\ allow' \in [Callers -> Calls] /\ allow'[c].step = 1 /\ allow'[c].ev.at = now
         /\ \A d \in Callers : d # c => allow'[d] = allow[d]
         /\ ~shared' => ~shared /\ \A d \in Callers : allow[d].step = 0
         /\ UNCHANGED <<now, last, events, granted, refusal>>
<1> DEFINE i == CHOOSE i \in FreeIds : TRUE
           call == [step |-> 1, ev |-> [id |-> i, at |-> now], lim |-> last]
<1>1. i \in SendIds
  <2>1. FreeIds # {} => i \in FreeIds
    BY Zenon
  <2> QED  BY <2>1, Zenon DEF AllowBegins, BeginsAt, FreeIds
<1>2. allow[c].step = 0 /\ allow' = [allow EXCEPT ![c] = call]
      /\ UNCHANGED <<now, last, events, granted, refusal>>
  BY Zenon DEF AllowBegins, BeginsAt
<1>3. ~shared' => ~shared /\ \A d \in Callers : allow[d].step = 0
  BY Zenon DEF AllowBegins, BeginsAt
<1> HIDE DEF i
<1>4. call \in Calls
  BY <1>1, CallTypes, Zenon DEF RateTypeOK
<1>5. call.step = 1 /\ call.ev.at = now
  BY Zenon
<1>6. \E j \in SendIds :
        allow' = [allow EXCEPT ![c] = [step |-> 1, ev |-> [id |-> j, at |-> now],
        lim |-> last]]
  BY <1>1, <1>2, Zenon
<1> HIDE DEF call
<1>7. allow' \in [Callers -> Calls] /\ allow'[c] = call /\ \A d \in Callers : d # c
      => allow'[d] = allow[d]
  BY <1>2, <1>4, Zenon DEF RateTypeOK
<1> QED  BY <1>2, <1>3, <1>5, <1>6, <1>7, Zenon

(* A refusal ends the call, and is justified when a window is full. *)
LEMMA RefuseFacts ==
  ASSUME RateTypeOK, NEW c \in Callers, Refuse(c)
  PROVE  /\ allow' \in [Callers -> Calls] /\ allow'[c].step = 0
         /\ \A d \in Callers : d # c => allow'[d] = allow[d]
         /\ refusal' \in {"full", "unjust"} /\ granted' = granted
         /\ Full(allow[c].lim, allow[c].ev.at) => refusal' = "full"
BY CallTypes, Zenon DEF Refuse, RateTypeOK

(* The first pass looks at one window: it goes on while there is room, and refuses
   the send otherwise. *)
LEMMA WouldAllowFacts ==
  ASSUME RateTypeOK, NEW c \in Callers, WouldAllow(c)
  PROVE  LET w == allow[c].step
             n == Cardinality(Valid(events[allow[c].lim][w], w, allow[c].ev.at)) IN
         /\ w \in Windows /\ UNCHANGED <<now, last, events, shared, granted>>
         /\ allow' \in [Callers -> Calls]
         /\ \A d \in Callers : d # c => allow'[d] = allow[d]
         /\ \/ /\ n < Limit[w] /\ UNCHANGED refusal
               /\ allow'[c].step = w + 1 /\ allow'[c].ev = allow[c].ev
               /\ allow'[c].lim = allow[c].lim
            \/ /\ n >= Limit[w] /\ allow'[c].step = 0 /\ refusal' \in {"full", "unjust"}
               /\ Full(allow[c].lim, allow[c].ev.at) => refusal' = "full"
<1> DEFINE w == allow[c].step
           n == Cardinality(Valid(events[allow[c].lim][w], w, allow[c].ev.at))
<1>0. allow \in [Callers -> Calls] /\ allow[c] \in Calls
  BY Zenon DEF RateTypeOK
<1>1. w \in Windows /\ UNCHANGED <<now, last, events, shared>>
      /\ \/ n < Limit[w] /\ allow' = [allow EXCEPT ![c] = NextWindow(allow[c])]
            /\ UNCHANGED <<granted, refusal>>
         \/ n >= Limit[w] /\ Refuse(c)
  BY Zenon DEF WouldAllow
<1> HIDE DEF n
<1>2. CASE n < Limit[w] /\ allow' = [allow EXCEPT ![c] = NextWindow(allow[c])]
           /\ UNCHANGED <<granted, refusal>>
  <2>1. allow[c].step < 6
    BY <1>1 DEF Windows
  <2>2. /\ NextWindow(allow[c]) \in Calls /\ NextWindow(allow[c]).step = w + 1
        /\ NextWindow(allow[c]).ev = allow[c].ev /\ NextWindow(allow[c]).lim = allow[c].lim
    BY <1>0, <2>1, CallTypes, Zenon
  <2> QED  BY <1>0, <1>1, <1>2, <2>2, Zenon DEF n
<1>3. CASE n >= Limit[w] /\ Refuse(c)
  BY <1>1, <1>3, RefuseFacts, Zenon DEF n
<1> QED  BY <1>1, <1>2, <1>3, Zenon

(* The second pass purges one window and counts the send in it, or refuses it; after
   the last window the send is granted. *)
LEMMA AllowFacts ==
  ASSUME RateTypeOK, NEW c \in Callers, Allow(c)
  PROVE  LET w == allow[c].step - 3
             l == allow[c].lim
             e == allow[c].ev
             valid == Valid(events[l][w], w, e.at) IN
         /\ w \in Windows /\ l \in Limiters /\ e \in Event
         /\ UNCHANGED <<now, last, shared>>
         /\ allow' \in [Callers -> Calls]
         /\ \A d \in Callers : d # c => allow'[d] = allow[d]
         /\ events' \in [Limiters -> [Windows -> SUBSET Event]]
         /\ \A m \in Limiters, v \in Windows : m # l \/ v # w
              => events'[m][v] = events[m][v]
         /\ \/ /\ Cardinality(valid) >= Limit[w] /\ events'[l][w] = valid
               /\ allow'[c].step = 0 /\ refusal' \in {"full", "unjust"} /\ UNCHANGED granted
            \/ /\ Cardinality(valid) < Limit[w] /\ events'[l][w] = valid \cup {e}
               /\ UNCHANGED refusal
               /\ \/ /\ w < 3 /\ allow'[c].step = allow[c].step + 1 /\ allow'[c].ev = e
                     /\ allow'[c].lim = l /\ UNCHANGED granted
                  \/ /\ w = 3 /\ allow'[c].step = 0
                     /\ granted' = [granted EXCEPT ![l] = @ \cup {e}]
<1> DEFINE w == allow[c].step - 3
           l == allow[c].lim
           e == allow[c].ev
           valid == Valid(events[l][w], w, e.at)
           refused == Cardinality(valid) >= Limit[w]
           fits == Cardinality(valid) < Limit[w]
<1>0. /\ allow \in [Callers -> Calls] /\ allow[c] \in Calls /\ l \in Limiters /\ e \in Event
      /\ allow[c].step \in 0 .. 6 /\ w \in Int
  BY DEF RateTypeOK, Calls
<1>1. /\ w \in Windows /\ UNCHANGED <<now, last, shared>>
      /\ \/ refused /\ events' = Put(events, l, w, valid) /\ Refuse(c)
         \/ /\ fits /\ events' = Put(events, l, w, valid \cup {e}) /\ UNCHANGED refusal
            /\ IF w < 3
               THEN allow' = [allow EXCEPT ![c] = NextWindow(allow[c])] /\ UNCHANGED granted
               ELSE /\ allow' = [allow EXCEPT ![c] = NoCall]
                    /\ granted' = [granted EXCEPT ![l] = @ \cup {e}]
  BY Zenon DEF Allow
<1> HIDE DEF w, l, e
<1>2. valid \in SUBSET Event /\ valid \cup {e} \in SUBSET Event
  <2>1. events[l][w] \in SUBSET Event
    BY <1>0, <1>1 DEF RateTypeOK
  <2> QED  BY <1>0, <2>1, Zenon DEF Valid
<1> HIDE DEF refused, fits, valid
<1>3. CASE refused /\ events' = Put(events, l, w, valid) /\ Refuse(c)
  <2>1. /\ events' \in [Limiters -> [Windows -> SUBSET Event]] /\ events'[l][w] = valid
        /\ \A m \in Limiters, v \in Windows : m # l \/ v # w => events'[m][v] = events[m][v]
    BY <1>0, <1>1, <1>2, <1>3, PutEvents
  <2>2. /\ allow' \in [Callers -> Calls] /\ allow'[c].step = 0
        /\ \A d \in Callers : d # c => allow'[d] = allow[d]
        /\ refusal' \in {"full", "unjust"} /\ granted' = granted
    BY <1>3, RefuseFacts, Zenon
  <2> QED  BY <1>0, <1>1, <1>3, <2>1, <2>2, Zenon DEF refused, valid, e, l, w
<1>4. ASSUME fits, events' = Put(events, l, w, valid \cup {e}), UNCHANGED refusal
      PROVE  /\ events' \in [Limiters -> [Windows -> SUBSET Event]]
             /\ events'[l][w] = valid \cup {e}
             /\ \A m \in Limiters, v \in Windows : m # l \/ v # w
                  => events'[m][v] = events[m][v]
  <2> DEFINE S == valid \cup {e}
  <2>1. S \in SUBSET Event /\ events' = Put(events, l, w, S)
    BY <1>2, <1>4, Zenon
  <2> HIDE DEF S
  <2>2. /\ events' \in [Limiters -> [Windows -> SUBSET Event]] /\ events'[l][w] = S
        /\ \A m \in Limiters, v \in Windows : m # l \/ v # w => events'[m][v] = events[m][v]
    BY <1>0, <1>1, <2>1, PutEvents
  <2> QED  BY <2>2, Zenon DEF S
<1>5. CASE /\ fits /\ events' = Put(events, l, w, valid \cup {e}) /\ UNCHANGED refusal
           /\ w < 3 /\ allow' = [allow EXCEPT ![c] = NextWindow(allow[c])]
           /\ UNCHANGED granted
  <2>1. allow[c].step < 6
    BY <1>0, <1>5 DEF w
  <2>2. /\ NextWindow(allow[c]) \in Calls /\ NextWindow(allow[c]).step = allow[c].step + 1
        /\ NextWindow(allow[c]).ev = e /\ NextWindow(allow[c]).lim = l
    BY <1>0, <2>1, CallTypes, Zenon DEF e, l
  <2>3. /\ allow' \in [Callers -> Calls] /\ allow'[c] = NextWindow(allow[c])
        /\ \A d \in Callers : d # c => allow'[d] = allow[d]
    BY <1>0, <1>5, <2>2, Zenon
  <2> QED  BY <1>0, <1>1, <1>4, <1>5, <2>2, <2>3, Zenon DEF fits, valid, e, l, w
<1>6. CASE /\ fits /\ events' = Put(events, l, w, valid \cup {e}) /\ UNCHANGED refusal
           /\ ~(w < 3) /\ allow' = [allow EXCEPT ![c] = NoCall]
           /\ granted' = [granted EXCEPT ![l] = @ \cup {e}]
  <2>1. w = 3
    BY <1>1, <1>6 DEF Windows
  <2>2. /\ allow' \in [Callers -> Calls] /\ allow'[c].step = 0
        /\ \A d \in Callers : d # c => allow'[d] = allow[d]
    BY <1>0, <1>6, CallTypes, Zenon
  <2> QED  BY <1>0, <1>1, <1>4, <1>6, <2>1, <2>2, Zenon DEF fits, valid, e, l, w
<1> QED  BY <1>1, <1>3, <1>5, <1>6, Zenon

(* Every step keeps the types. *)
LEMMA RateTypes ==
  ASSUME RateTypeOK, [RateNext]_<<now, rateVars>>
  PROVE  RateTypeOK'
<1> USE RateAssumption
<1>1. shared' \in BOOLEAN
  BY Zenon DEF RateNext, RateTypeOK, RateTick, Register, AllowBegins, BeginsAt,
     WouldAllow, Allow, rateVars
<1>2. CASE RateTick
  BY <1>1, <1>2 DEF RateTypeOK, RateTick, Advance, Time
<1>3. CASE Register
  BY <1>1, <1>3 DEF RateTypeOK, Register, Limiters
<1>4. ASSUME NEW c \in Callers, AllowBegins(c)
      PROVE  RateTypeOK'
  BY <1>1, <1>4, BeginFacts, Zenon DEF RateTypeOK
<1>5. ASSUME NEW c \in Callers, WouldAllow(c)
      PROVE  RateTypeOK'
  BY <1>1, <1>5, WouldAllowFacts, Zenon DEF RateTypeOK
<1>6. ASSUME NEW c \in Callers, Allow(c)
      PROVE  RateTypeOK'
  <2>1. granted' \in [Limiters -> SUBSET Event]
    BY <1>6, AllowFacts DEF RateTypeOK
  <2>2. refusal' \in {"none", "full", "unjust"}
    BY <1>6, AllowFacts, Zenon DEF RateTypeOK
  <2> QED  BY <1>1, <1>6, <2>1, <2>2, AllowFacts, Zenon DEF RateTypeOK
<1>7. CASE UNCHANGED <<now, rateVars>>
  BY <1>7, Zenon DEF RateTypeOK, rateVars
<1> QED  BY <1>2, <1>3, <1>4, <1>5, <1>6, <1>7, Zenon DEF RateNext

(* What is left of a window after the purge is no more than there was. *)
LEMMA ValidIsPart ==
  ASSUME NEW S, NEW w, NEW t, IsFiniteSet(S)
  PROVE  /\ IsFiniteSet(Valid(S, w, t)) /\ Cardinality(Valid(S, w, t)) <= Cardinality(S)
         /\ Cardinality(S) \in Nat /\ Cardinality(Valid(S, w, t)) \in Nat
<1>1. Valid(S, w, t) \subseteq S
  BY Zenon DEF Valid
<1> QED  BY <1>1, FS_Subset, FS_CardinalityType, Zenon

(* No window ever counts more than its limit, whatever calls overlap: each is purged,
   compared and extended under its own lock. *)
LEMMA CountsKept ==
  ASSUME RateTypeOK, CountsWithinLimit, FiniteSends, [RateNext]_<<now, rateVars>>
  PROVE  CountsWithinLimit' /\ FiniteSends'
<1>1. CASE UNCHANGED <<events, granted>>
  BY <1>1, Zenon DEF CountsWithinLimit, FiniteSends
<1>2. ASSUME NEW c \in Callers, Allow(c)
      PROVE  CountsWithinLimit' /\ FiniteSends'
  <2> DEFINE w == allow[c].step - 3
             l == allow[c].lim
             e == allow[c].ev
             valid == Valid(events[l][w], w, e.at)
  <2>1. /\ w \in Windows /\ l \in Limiters
        /\ \A m \in Limiters, v \in Windows : m # l \/ v # w => events'[m][v] = events[m][v]
        /\ \/ events'[l][w] = valid
           \/ Cardinality(valid) < Limit[w] /\ events'[l][w] = valid \cup {e}
        /\ granted' = granted \/ granted' = [granted EXCEPT ![l] = @ \cup {e}]
    BY <1>2, AllowFacts, Zenon
  <2> HIDE DEF w, l, e
  <2>2. /\ IsFiniteSet(valid) /\ Cardinality(valid) <= Cardinality(events[l][w])
        /\ Cardinality(valid) \in Nat /\ Cardinality(events[l][w]) \in Nat
        /\ Cardinality(events[l][w]) <= Limit[w] /\ Limit[w] \in Nat
    BY <2>1, ValidIsPart, RateAssumption, Zenon DEF FiniteSends, CountsWithinLimit
  <2> HIDE DEF valid
  <2>3. /\ IsFiniteSet(valid \cup {e})
        /\ Cardinality(valid \cup {e}) \in {Cardinality(valid), Cardinality(valid) + 1}
    BY <2>2, FS_AddElement, Zenon
  <2>4. IsFiniteSet(events'[l][w]) /\ Cardinality(events'[l][w]) <= Limit[w]
    <3>1. CASE events'[l][w] = valid
      <4>1. Cardinality(valid) <= Limit[w]
        BY <2>2
      <4> QED  BY <2>2, <3>1, <4>1, Zenon
    <3>2. CASE Cardinality(valid) < Limit[w] /\ events'[l][w] = valid \cup {e}
      <4>1. Cardinality(valid \cup {e}) <= Limit[w]
        BY <2>2, <2>3, <3>2
      <4> QED  BY <2>3, <3>2, <4>1, Zenon
    <3> QED  BY <2>1, <3>1, <3>2, Zenon
  <2>5. \A m \in Limiters : IsFiniteSet(granted'[m])
    <3>1. IsFiniteSet(granted[l] \cup {e})
      BY <2>1, FS_AddElement, Zenon DEF FiniteSends
    <3>2. \A m \in Limiters : granted'[m] \in {granted[m], granted[l] \cup {e}}
      BY <2>1, Zenon DEF RateTypeOK
    <3> QED  BY <3>1, <3>2, Zenon DEF FiniteSends
  <2>6. \A m \in Limiters, v \in Windows : IsFiniteSet(events'[m][v])
        /\ Cardinality(events'[m][v]) <= Limit[v]
    BY <2>1, <2>4, Zenon DEF FiniteSends, CountsWithinLimit
  <2> QED  BY <2>5, <2>6, Zenon DEF FiniteSends, CountsWithinLimit
<1>3. UNCHANGED <<events, granted>> \/ \E c \in Callers : Allow(c)
  BY BeginFacts, WouldAllowFacts, Zenon DEF RateNext, RateTick, Register, rateVars
<1> QED  BY <1>1, <1>2, <1>3, Zenon

(* With calls that do not overlap: a call begins. *)
LEMMA BeginsAlone ==
  ASSUME RateTypeOK, FiniteSends, CountsWithinLimit, AllOrNothing, NeverOverLimit,
         RefusedOnlyWhenFull, OneAtATime, Forgotten, Checked,
         ~shared, RateTypeOK', NEW c \in Callers, AllowBegins(c), ~shared'
  PROVE  OneAtATime' /\ Forgotten' /\ Checked' /\ AllOrNothing' /\ NeverOverLimit'
         /\ RefusedOnlyWhenFull'
<1>1. /\ allow'[c].step = 1 /\ allow'[c].ev.at = now
      /\ UNCHANGED <<now, events, granted, refusal>>
      /\ \A d \in Callers : allow[d].step = 0
      /\ \A d \in Callers : d # c => allow'[d].step = 0
  BY BeginFacts, Zenon
<1>2. now \in Nat
  BY RateAssumption DEF RateTypeOK, Time
<1>3. OneAtATime'
  BY <1>1, <1>2 DEF OneAtATime, Busy
<1>4. Forgotten'
  BY <1>1, Zenon DEF Forgotten, Busy
<1>5. Checked'
  BY <1>1 DEF Checked, Windows
<1>6. AllOrNothing'
  BY <1>1 DEF AllOrNothing, Windows
<1>7. NeverOverLimit' /\ RefusedOnlyWhenFull'
  BY <1>1, Zenon DEF NeverOverLimit, RefusedOnlyWhenFull
<1> QED  BY <1>3, <1>4, <1>5, <1>6, <1>7, Zenon

(* With calls that do not overlap: the first pass refuses only when a window is full
   of granted sends. *)
LEMMA WouldAllowAlone ==
  ASSUME RateTypeOK, FiniteSends, CountsWithinLimit, AllOrNothing, NeverOverLimit,
         RefusedOnlyWhenFull, OneAtATime, Forgotten, Checked,
         ~shared, NEW c \in Callers, WouldAllow(c)
  PROVE  OneAtATime' /\ Forgotten' /\ Checked' /\ AllOrNothing' /\ NeverOverLimit'
         /\ RefusedOnlyWhenFull'
<1> DEFINE w == allow[c].step
           l == allow[c].lim
           e == allow[c].ev
           n == Cardinality(Valid(events[l][w], w, e.at))
           full == Full(l, e.at)
<1>1. /\ w \in Windows /\ UNCHANGED <<now, last, events, shared, granted>>
      /\ allow' \in [Callers -> Calls]
      /\ \A d \in Callers : d # c => allow'[d] = allow[d]
      /\ \/ n < Limit[w] /\ UNCHANGED refusal /\ allow'[c].step = w + 1
              /\ allow'[c].ev = e /\ allow'[c].lim = l
         \/ /\ n >= Limit[w] /\ allow'[c].step = 0
            /\ full => refusal' = "full"
  BY WouldAllowFacts, Zenon
<1> HIDE DEF w, l, e, n, full
<1>2. w # 0 /\ w \in 1 .. 3 /\ l \in Limiters /\ e \in Event
  BY <1>1 DEF Windows, RateTypeOK, Calls, w, l, e
<1>3. \A d \in Callers : d # c => allow[d].step = 0 /\ allow'[d].step = 0
  BY <1>1, <1>2, Zenon DEF OneAtATime, Busy, w
<1>4. \A d \in Callers : Busy(d)' => Busy(d) /\ allow'[d].ev = allow[d].ev
  BY <1>1, <1>2, <1>3, Zenon DEF Busy, w, e
<1>5. OneAtATime' /\ Forgotten'
  BY <1>1, <1>4 DEF OneAtATime, Forgotten
<1>6. AllOrNothing'
  <2>1. \A v \in Windows, d \in Callers : ~(allow[d].step > 3 + v)
    BY <1>2, <1>3 DEF Windows, w
  <2>2. UNCHANGED <<events, granted>>
    BY <1>1, Zenon
  <2> QED  BY <2>1, <2>2 DEF AllOrNothing
<1>7. NeverOverLimit'
  BY <1>1, Zenon DEF NeverOverLimit
<1>8. Checked'
  <2>1. CASE allow'[c].step = 0
    BY <1>3, <2>1 DEF Checked, Windows
  <2>2. CASE n < Limit[w] /\ allow'[c].step = w + 1 /\ allow'[c].ev = e /\ allow'[c].lim = l
    <3>1. \A v \in Windows : w > v => Cardinality(Valid(events[l][v], v, e.at)) < Limit[v]
      <4>1. \A v \in Windows : w > v => allow[c].step > v /\ allow[c].step <= 3 + v
        BY <1>2 DEF Windows, w
      <4> QED  BY <4>1, Zenon DEF Checked, e, l
    <3>2. \A v \in Windows : w + 1 > v => v = w \/ w > v
      BY <1>2 DEF Windows
    <3>3. \A v \in Windows : w + 1 > v => Cardinality(Valid(events[l][v], v,
          e.at)) < Limit[v]
      BY <2>2, <3>1, <3>2, Zenon DEF n
    <3>4. \A v \in Windows : ~(w + 1 > 3 + v) /\ ~(0 > 3 + v) /\ ~(0 > v)
      BY <1>2 DEF Windows
    <3> QED  BY <1>1, <1>3, <2>2, <3>3, <3>4, ZenonT(30) DEF Checked
  <2> QED  BY <1>1, <2>1, <2>2, Zenon
<1>9. RefusedOnlyWhenFull'
  <2>1. CASE n >= Limit[w] /\ (full => refusal' = "full")
    <3>1. Valid(events[l][w], w, e.at) \subseteq Valid(granted[l], w, e.at)
      <4>1. events[l][w] \subseteq granted[l]
        <5>1. \A d \in Callers : ~(allow[d].step > 3 + w)
          BY <1>2, <1>3 DEF Windows, w
        <5> QED  BY <1>1, <1>2, <5>1, Zenon DEF AllOrNothing
      <4> QED  BY <4>1, Zenon DEF Valid
    <3>2. IsFiniteSet(Valid(granted[l], w, e.at))
          /\ Cardinality(Valid(granted[l], w, e.at)) \in Nat
      BY <1>2, ValidIsPart, Zenon DEF FiniteSends
    <3>3. n <= Cardinality(Valid(granted[l], w, e.at)) /\ n \in Nat
      BY <3>1, <3>2, FS_Subset, FS_CardinalityType, Zenon DEF n
    <3>4. Limit[w] \in Nat
      BY <1>1, RateAssumption, Zenon
    <3>5. full
      <4>1. Cardinality(Valid(granted[l], w, e.at)) >= Limit[w]
        BY <2>1, <3>2, <3>3, <3>4
      <4> QED  BY <1>1, <4>1, Zenon DEF Full, full, l, e
    <3> QED  BY <2>1, <3>5, Zenon DEF RefusedOnlyWhenFull
  <2>2. CASE UNCHANGED refusal
    BY <1>1, <2>2, Zenon DEF RefusedOnlyWhenFull
  <2> QED  BY <1>1, <2>1, <2>2, Zenon
<1> QED  BY <1>5, <1>6, <1>7, <1>8, <1>9, SMTT(30)

(* With calls that do not overlap: the second pass finds the room the first one saw, so
   that it counts the send in every window or in none. *)
LEMMA AllowAlone ==
  ASSUME RateTypeOK, FiniteSends, CountsWithinLimit, AllOrNothing, NeverOverLimit,
         RefusedOnlyWhenFull, OneAtATime, Forgotten, Checked,
         ~shared, NEW c \in Callers, Allow(c), CountsWithinLimit', FiniteSends'
  PROVE  OneAtATime' /\ Forgotten' /\ Checked' /\ AllOrNothing' /\ NeverOverLimit'
         /\ RefusedOnlyWhenFull'
<1> DEFINE w == allow[c].step - 3
           l == allow[c].lim
           e == allow[c].ev
           valid == Valid(events[l][w], w, e.at)
           next == /\ w < 3 /\ allow'[c].step = allow[c].step + 1 /\ allow'[c].ev = e
                   /\ allow'[c].lim = l /\ UNCHANGED granted
           grant == w = 3 /\ allow'[c].step = 0
           /\ granted' = [granted EXCEPT ![l] = @ \cup {e}]
<1>0. allow[c] \in Calls
  BY Zenon DEF RateTypeOK
<1>1. /\ w \in Windows /\ l \in Limiters /\ e \in Event /\ UNCHANGED <<now, last, shared>>
      /\ \A d \in Callers : d # c => allow'[d] = allow[d]
      /\ \A m \in Limiters, v \in Windows : m # l \/ v # w => events'[m][v] = events[m][v]
      /\ \/ Cardinality(valid) >= Limit[w]
         \/ events'[l][w] = valid \cup {e} /\ UNCHANGED refusal /\ (next \/ grant)
  BY AllowFacts, Zenon
<1> HIDE DEF w, l, e, valid, next, grant
<1>2. /\ allow[c].step = w + 3 /\ w \in 1 .. 3 /\ allow[c].step # 0 /\ e.at \in Nat
      /\ now \in Nat
      /\ e.at <= now
  <2>1. allow[c].step \in 0 .. 6
    BY <1>0, Zenon DEF Calls
  <2>2. allow[c].step = w + 3 /\ w \in 1 .. 3 /\ allow[c].step # 0
    BY <1>1, <2>1 DEF Windows, w
  <2>3. e.at <= now
    BY <2>2, Zenon DEF OneAtATime, Busy, e
  <2>4. e.at \in Nat /\ now \in Nat
    BY <1>1, RateAssumption DEF RateTypeOK, Event, Time
  <2> QED  BY <2>2, <2>3, <2>4, Zenon
<1>3. Cardinality(valid) < Limit[w]
  <2>1. allow[c].step > w /\ allow[c].step <= 3 + w
    BY <1>2
  <2> QED  BY <1>1, <2>1, Zenon DEF Checked, l, e, valid
<1>4. events'[l][w] = valid \cup {e} /\ UNCHANGED refusal /\ (next \/ grant)
  <2>1. Cardinality(valid) \in Nat /\ Limit[w] \in Nat
    BY <1>1, ValidIsPart, RateAssumption, Zenon DEF FiniteSends, valid
  <2>2. ~(Cardinality(valid) >= Limit[w])
    BY <1>3, <2>1
  <2> QED  BY <1>1, <2>2, Zenon
<1>5. \A d \in Callers : d # c => allow[d].step = 0 /\ allow'[d].step = 0
  BY <1>1, <1>2 DEF OneAtATime, Busy
<1>6. \A v \in Windows : v < w => e \in events[l][v]
  <2>1. \A v \in Windows : v < w => allow[c].step > 3 + v
    BY <1>2 DEF Windows
  <2> QED  BY <2>1, Zenon DEF Checked, e, l
<1>7. \A g \in granted[l] : /\ g \in Event /\ g.at \in Nat /\ g.at <= e.at /\ g.at <= now
                            /\ \A v \in Windows : g \in events[l][v]
                                 \/ g.at + Duration[v] <= e.at
  <2>1. \A g \in granted[l] : g \in Event /\ g.at \in Nat
    BY <1>1, RateAssumption DEF RateTypeOK, Event, Time
  <2>2. Busy(c)
    BY <1>2, Zenon DEF Busy
  <2>3. \A g \in granted[l] : g.at <= e.at /\ g.at <= now
    BY <1>1, <2>2, Zenon DEF OneAtATime, e
  <2>4. \A g \in granted[l] : \A v \in Windows : g \in events[l][v]
        \/ g.at + Duration[v] <= e.at
    BY <1>1, <2>2, Zenon DEF Forgotten, e
  <2> QED  BY <2>1, <2>3, <2>4, Zenon
<1>8. \A g \in granted[l] : \A v \in Windows : g \in events'[l][v]
      \/ g.at + Duration[v] <= e.at
  <2> SUFFICES ASSUME NEW g \in granted[l], NEW v \in Windows, ~(g.at + Duration[v] <= e.at)
               PROVE  g \in events'[l][v]
    BY Zenon
  <2>1. g \in events[l][v]
    BY <1>7, Zenon
  <2>2. CASE v = w
    <3>1. g.at + Duration[w] > e.at
      <4>1. g.at \in Nat /\ Duration[v] \in Nat
        BY <1>7, RateAssumption, Zenon
      <4> QED  BY <1>2, <2>2, <4>1
    <3>2. g \in valid
      BY <2>1, <2>2, <3>1, Zenon DEF Valid, valid
    <3> QED  BY <1>4, <2>2, <3>2, Zenon
  <2>3. CASE v # w
    BY <1>1, <2>1, <2>3, Zenon
  <2> QED  BY <2>2, <2>3, Zenon
<1>9. \A v \in Windows : v <= w => e \in events'[l][v]
  BY <1>1, <1>2, <1>4, <1>6 DEF Windows
<1>10. \A m \in Limiters, v \in Windows : events'[m][v] \subseteq events[m][v] \cup {e}
  <2>1. valid \subseteq events[l][w]
    BY Zenon DEF Valid, valid
  <2> QED  BY <1>1, <1>4, <2>1, Zenon
<1>11. \A m \in Limiters, v \in Windows : \A g \in granted[m] :
         g \in events'[m][v] \/ g.at + Duration[v] <= now
  <2>1. \A g \in granted[l] : \A v \in Windows : g \in events'[l][v]
        \/ g.at + Duration[v] <= now
    BY <1>2, <1>7, <1>8, RateAssumption
  <2>2. \A m \in Limiters, v \in Windows : m # l => events'[m][v] = events[m][v]
    BY <1>1, Zenon
  <2> QED  BY <2>1, <2>2, Zenon DEF Forgotten
<1>12. RefusedOnlyWhenFull'
  BY <1>1, <1>4, Zenon DEF RefusedOnlyWhenFull
<1>13. CASE next
  <2>1. /\ allow'[c].step = w + 4 /\ allow'[c].ev = e /\ allow'[c].lim = l
        /\ UNCHANGED granted
        /\ w \in 1 .. 2
    BY <1>2, <1>13 DEF next
  <2>2. OneAtATime'
    <3>1. \A d \in Callers : Busy(d)' => d = c
      BY <1>5, Zenon DEF Busy
    <3>2. \A m \in Limiters : \A g \in granted[m] : g.at <= e.at /\ g.at <= now
      BY <1>2, Zenon DEF OneAtATime, Busy, e
    <3> QED  BY <1>1, <1>2, <2>1, <3>1, <3>2, Zenon DEF OneAtATime
  <2>3. Forgotten'
    <3>1. \A m \in Limiters, v \in Windows : \A g \in granted[m] :
            g \in events'[m][v] \/ g.at + Duration[v] <= e.at
      <4>1. Busy(c)
        BY <1>2, Zenon DEF Busy
      <4>2. \A m \in Limiters, v \in Windows : \A g \in granted[m] :
              g \in events[m][v] \/ g.at + Duration[v] <= e.at
        BY <4>1, Zenon DEF Forgotten, e
      <4>3. \A m \in Limiters, v \in Windows : m # l => events'[m][v] = events[m][v]
        BY <1>1, Zenon
      <4> QED  BY <1>8, <4>2, <4>3, Zenon
    <3>2. \A d \in Callers : Busy(d)' => d = c
      BY <1>5, Zenon DEF Busy
    <3> QED  BY <1>1, <1>11, <2>1, <3>1, <3>2, Zenon DEF Forgotten
  <2>4. Checked'
    <3> SUFFICES ASSUME NEW v \in Windows
                 PROVE  /\ w + 4 > 3 + v => e \in events'[l][v]
                        /\ w + 4 > v /\ w + 4 <= 3 + v =>
                             Cardinality(Valid(events'[l][v], v, e.at)) < Limit[v]
      BY <1>5, <2>1 DEF Checked, Windows
    <3>1. CASE v <= w
      BY <1>9, <2>1, <3>1 DEF Windows
    <3>2. CASE v > w
      <4>1. allow[c].step > v /\ allow[c].step <= 3 + v /\ ~(w + 4 > 3 + v)
        BY <1>2, <2>1, <3>2 DEF Windows
      <4>2. Cardinality(Valid(events[l][v], v, e.at)) < Limit[v]
        BY <4>1, Zenon DEF Checked, l, e
      <4>3. events'[l][v] = events[l][v]
        BY <1>1, <2>1, <3>2 DEF Windows
      <4> QED  BY <4>1, <4>2, <4>3, Zenon
    <3> QED  BY <2>1, <3>1, <3>2, SMTT(30) DEF Windows
  <2>5. AllOrNothing'
    <3> SUFFICES ASSUME NEW m \in Limiters, NEW v \in Windows, NEW f \in events'[m][v],
                        f \notin granted[m]
                 PROVE  allow'[c].ev = f /\ allow'[c].lim = m /\ allow'[c].step > 3 + v
      BY <2>1, Zenon DEF AllOrNothing
    <3>1. CASE f \in events[m][v]
      <4>1. PICK d \in Callers : allow[d].ev = f /\ allow[d].lim = m
            /\ allow[d].step > 3 + v
        BY <3>1 DEF AllOrNothing
      <4>2. d = c
        BY <1>5, <4>1 DEF Windows
      <4> QED  BY <1>2, <2>1, <4>1, <4>2 DEF e, l, Windows
    <3>2. CASE f \notin events[m][v]
      <4>1. m = l /\ v = w /\ f = e
        BY <1>1, <1>10, <3>2, Zenon
      <4> QED  BY <2>1, <4>1
    <3> QED  BY <3>1, <3>2, Zenon
  <2>6. NeverOverLimit'
    BY <1>1, <2>1, SMTT(30) DEF NeverOverLimit
  <2> QED  BY <1>12, <2>2, <2>3, <2>4, <2>5, <2>6, Zenon
<1>14. CASE grant
  <2>1. /\ w = 3 /\ \A d \in Callers : allow'[d].step = 0
        /\ granted'[l] = granted[l] \cup {e} /\ \A m \in Limiters : m # l
             => granted'[m] = granted[m]
    BY <1>1, <1>5, <1>14, Zenon DEF RateTypeOK, grant
  <2>2. OneAtATime'
    <3>1. \A d \in Callers : ~Busy(d)'
      BY <2>1, Zenon DEF Busy
    <3>2. \A m \in Limiters : \A g \in granted'[m] : g.at <= now
      BY <1>2, <2>1, Zenon DEF OneAtATime
    <3> QED  BY <1>1, <3>1, <3>2, Zenon DEF OneAtATime
  <2>3. \A v \in Windows : e \in events'[l][v]
    BY <1>9, <2>1 DEF Windows
  <2>4. Forgotten'
    <3>1. \A d \in Callers : ~Busy(d)'
      BY <2>1, Zenon DEF Busy
    <3>2. \A m \in Limiters, v \in Windows : \A g \in granted'[m] :
            g \in events'[m][v] \/ g.at + Duration[v] <= now
      <4> SUFFICES ASSUME NEW m \in Limiters, NEW v \in Windows, NEW g \in granted'[m]
                   PROVE  g \in events'[m][v] \/ g.at + Duration[v] <= now
        BY Zenon
      <4>1. CASE g \in granted[m]
        BY <1>11, <4>1, Zenon
      <4>2. CASE m = l /\ g = e
        BY <2>3, <4>2, Zenon
      <4> QED  BY <2>1, <4>1, <4>2, Zenon
    <3> QED  BY <1>1, <3>1, <3>2, Zenon DEF Forgotten
  <2>5. Checked'
    BY <2>1 DEF Checked, Windows
  <2>6. AllOrNothing'
    <3> SUFFICES ASSUME NEW m \in Limiters, NEW v \in Windows, NEW f \in events'[m][v]
                 PROVE  f \in granted'[m]
      BY Zenon DEF AllOrNothing
    <3>1. CASE f \in events[m][v] /\ f \notin granted[m]
      <4>1. PICK d \in Callers : allow[d].ev = f /\ allow[d].lim = m
            /\ allow[d].step > 3 + v
        BY <3>1 DEF AllOrNothing
      <4>2. d = c
        BY <1>5, <4>1 DEF Windows
      <4> QED  BY <2>1, <4>1, <4>2, Zenon DEF e, l
    <3>2. CASE f \notin events[m][v]
      <4>1. m = l /\ f = e
        BY <1>1, <1>10, <3>2, Zenon
      <4> QED  BY <2>1, <4>1, Zenon
    <3>3. CASE f \in granted[m]
      BY <2>1, <3>3, Zenon
    <3> QED  BY <3>1, <3>2, <3>3, Zenon
  <2>7. NeverOverLimit'
    <3> SUFFICES ASSUME NEW m \in Limiters, NEW v \in Windows, NEW f \in granted'[m]
                 PROVE  Cardinality({g \in granted'[m] : g.at <= f.at
                        /\ g.at + Duration[v] > f.at})
                          <= Limit[v]
      BY Zenon DEF NeverOverLimit
    <3>1. CASE m # l
      BY <2>1, <3>1, Zenon DEF NeverOverLimit
    <3>2. CASE m = l /\ f.at = e.at
      <4> DEFINE S == {g \in granted'[l] : g.at <= f.at /\ g.at + Duration[v] > f.at}
      <4>1. S \subseteq events'[l][v]
        <5> SUFFICES ASSUME NEW g \in granted'[l], g.at + Duration[v] > e.at
                     PROVE  g \in events'[l][v]
          BY <3>2, Zenon
        <5>1. CASE g = e
          BY <2>3, <5>1, Zenon
        <5>2. CASE g \in granted[l]
          <6>1. ~(g.at + Duration[v] <= e.at)
            BY <1>2, <1>7, <5>2, RateAssumption
          <6> QED  BY <1>8, <5>2, <6>1, Zenon
        <5> QED  BY <2>1, <5>1, <5>2, Zenon
      <4> HIDE DEF S
      <4>2. IsFiniteSet(events'[l][v]) /\ Cardinality(events'[l][v]) <= Limit[v]
        BY <1>1, Zenon DEF FiniteSends, CountsWithinLimit
      <4>3. Cardinality(S) <= Cardinality(events'[l][v]) /\ Cardinality(S) \in Nat
            /\ Cardinality(events'[l][v]) \in Nat /\ Limit[v] \in Nat
        BY <4>1, <4>2, FS_Subset, FS_CardinalityType, RateAssumption, Zenon
      <4>4. Cardinality(S) <= Limit[v]
        BY <4>2, <4>3
      <4> QED  BY <3>2, <4>4, Zenon DEF S
    <3>3. CASE m = l /\ f.at # e.at
      <4>1. f \in granted[l]
        BY <2>1, <3>3, Zenon
      <4>2. ~(e.at <= f.at)
        BY <1>2, <1>7, <3>3, <4>1
      <4>3. {g \in granted'[l] : g.at <= f.at /\ g.at + Duration[v] > f.at}
              = {g \in granted[l] : g.at <= f.at /\ g.at + Duration[v] > f.at}
        BY <2>1, <4>2, Zenon
      <4> QED  BY <1>1, <3>3, <4>1, <4>3, Zenon DEF NeverOverLimit
    <3> QED  BY <3>1, <3>2, <3>3, Zenon
  <2> QED  BY <1>12, <2>2, <2>4, <2>5, <2>6, <2>7, Zenon
<1> QED  BY <1>4, <1>13, <1>14, Zenon

(* Every step keeps the invariant. *)
LEMMA LimiterStep ==
  ASSUME RateInv, [RateNext]_<<now, rateVars>>
  PROVE  RateInv'
<1>1. RateTypeOK' /\ CountsWithinLimit' /\ FiniteSends'
  BY RateTypes, CountsKept, Zenon DEF RateInv, LimitsEnforced
<1>2. ASSUME ~shared'
      PROVE  /\ ~shared /\ OneAtATime' /\ Forgotten' /\ Checked'
             /\ AllOrNothing' /\ NeverOverLimit' /\ RefusedOnlyWhenFull'
  <2>1. ~shared
    BY <1>2, Zenon DEF RateNext, RateTick, Register, AllowBegins, BeginsAt, WouldAllow,
       Allow, rateVars
  <2>2. /\ RateTypeOK /\ FiniteSends /\ CountsWithinLimit /\ AllOrNothing /\ NeverOverLimit
        /\ RefusedOnlyWhenFull /\ OneAtATime /\ Forgotten /\ Checked
    BY <2>1, Zenon DEF RateInv, LimitsEnforced
  <2>3. CASE RateTick
    <3>1. now' = now + 1 /\ now \in Nat /\ UNCHANGED <<last, events, allow, granted,
          refusal, shared>>
      BY <2>2, <2>3, RateAssumption DEF RateTick, Advance, RateTypeOK, Time
    <3>2. \A l \in Limiters : \A g \in granted[l] : g.at \in Nat
      BY <2>2, RateAssumption DEF RateTypeOK, Event, Time
    <3>3. \A c \in Callers : allow[c].ev.at \in Nat
      BY <2>2, RateAssumption DEF RateTypeOK, Calls, Event, Time
    <3>4. OneAtATime'
      BY <2>2, <3>1, <3>2, <3>3 DEF OneAtATime, Busy
    <3>5. Forgotten'
      BY <2>2, <3>1, <3>2, RateAssumption DEF Forgotten, Busy
    <3>6. Checked'
      BY <2>2, <3>1, Zenon DEF Checked
    <3>7. AllOrNothing'
      BY <2>1, <2>2, <3>1 DEF AllOrNothing
    <3>8. NeverOverLimit' /\ RefusedOnlyWhenFull'
      BY <2>1, <2>2, <3>1, Zenon DEF NeverOverLimit, RefusedOnlyWhenFull
    <3> QED  BY <2>1, <3>4, <3>5, <3>6, <3>7, <3>8, Zenon
  <2>4. CASE UNCHANGED <<now, events, allow, granted, refusal, shared>>
    <3>1. OneAtATime' /\ Forgotten'
      BY <2>2, <2>4, Zenon DEF OneAtATime, Busy, Forgotten
    <3>2. Checked'
      BY <2>2, <2>4, Zenon DEF Checked
    <3>3. AllOrNothing'
      BY <2>1, <2>2, <2>4 DEF AllOrNothing
    <3>4. NeverOverLimit' /\ RefusedOnlyWhenFull'
      BY <2>1, <2>2, <2>4, Zenon DEF NeverOverLimit, RefusedOnlyWhenFull
    <3> QED  BY <2>1, <3>1, <3>2, <3>3, <3>4, Zenon
  <2>5. ASSUME NEW c \in Callers, AllowBegins(c)
        PROVE  /\ OneAtATime' /\ Forgotten' /\ Checked'
               /\ AllOrNothing' /\ NeverOverLimit' /\ RefusedOnlyWhenFull'
    BY <1>1, <1>2, <2>1, <2>2, <2>5, BeginsAlone, Zenon
  <2>6. ASSUME NEW c \in Callers, WouldAllow(c)
        PROVE  /\ OneAtATime' /\ Forgotten' /\ Checked'
               /\ AllOrNothing' /\ NeverOverLimit' /\ RefusedOnlyWhenFull'
    BY <1>1, <1>2, <2>1, <2>2, <2>6, WouldAllowAlone, Zenon
  <2>7. ASSUME NEW c \in Callers, Allow(c)
        PROVE  /\ OneAtATime' /\ Forgotten' /\ Checked'
               /\ AllOrNothing' /\ NeverOverLimit' /\ RefusedOnlyWhenFull'
    BY <1>1, <1>2, <2>1, <2>2, <2>7, AllowAlone, Zenon
  <2> QED  BY <2>1, <2>3, <2>4, <2>5, <2>6, <2>7, Zenon DEF RateNext, Register, rateVars
<1>3. (AllOrNothing /\ NeverOverLimit /\ RefusedOnlyWhenFull)'
  BY <1>2, Zenon DEF AllOrNothing, NeverOverLimit, RefusedOnlyWhenFull
<1> QED  BY <1>1, <1>2, <1>3, Zenon DEF RateInv, LimitsEnforced

(* The limiter enforces its limits and nothing more: no window counts more sends than
   its limit whatever overlaps, and with calls that do not overlap no more are granted
   in any window, a send is counted in all windows or in none, and refused only while
   one of them is full. *)
THEOREM LimiterEnforces == RateSpec => []LimitsEnforced
<1>1. RateInit => RateInv
  <2> SUFFICES ASSUME RateInit PROVE RateInv
    BY Zenon
  <2>1. RateTypeOK
    <3>1. shared \in BOOLEAN /\ ~shared
      BY Zenon DEF RateInit
    <3>2. allow \in [Callers -> Calls]
      BY CallTypes, Zenon DEF RateInit
    <3> QED  BY <3>1, <3>2, RateAssumption DEF RateInit, RateTypeOK, Time, Limiters
  <2>2. /\ now = 0 /\ refusal = "none" /\ \A c \in Callers : allow[c].step = 0
        /\ \A l \in Limiters : granted[l] = {} /\ \A w \in Windows : events[l][w] = {}
    BY CallTypes, Zenon DEF RateInit
  <2>3. IsFiniteSet({}) /\ Cardinality({}) = 0
    BY FS_EmptySet, Zenon
  <2>4. CountsWithinLimit
    <3>1. \A w \in Windows : 0 <= Limit[w]
      BY RateAssumption, SMTT(30)
    <3> QED  BY <2>2, <2>3, <3>1, Zenon DEF CountsWithinLimit
  <2>5. OneAtATime /\ Forgotten /\ Checked
    <3>1. \A c \in Callers, w \in Windows : ~(allow[c].step > 3 + w) /\ ~(allow[c].step > w)
      BY <2>2 DEF Windows
    <3> QED  BY <2>2, <3>1, Zenon DEF OneAtATime, Busy, Forgotten, Checked
  <2>6. AllOrNothing /\ NeverOverLimit /\ RefusedOnlyWhenFull
    BY <2>2, Zenon DEF AllOrNothing, NeverOverLimit, RefusedOnlyWhenFull
  <2>7. FiniteSends
    BY <2>2, <2>3, Zenon DEF FiniteSends
  <2> QED  BY <2>1, <2>4, <2>5, <2>6, <2>7, Zenon DEF RateInv, LimitsEnforced
<1>2. RateInv => LimitsEnforced
  BY Zenon DEF RateInv, LimitsEnforced
<1> QED  BY <1>1, <1>2, LimiterStep, PTL DEF RateSpec
=============================================================================
