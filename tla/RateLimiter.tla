----------------------------- MODULE RateLimiter ----------------------------
(***************************************************************************)
(* The per-SIM send limiter (internal/modem/ratelimit.go): three sliding   *)
(* windows, checked one by one and then advanced one by one, each under    *)
(* its own lock. A caller is a worker sending for the ICCID; two workers   *)
(* may share one while a SIM moves from a modem to another. Register gives *)
(* the ICCID a new limiter, whatever the old one remembers; a caller that  *)
(* has looked up the old one goes on with it. An event is the time of a    *)
(* send and a number that tells sends at the same time apart; the code     *)
(* keeps a list of times, but never looks at their order.                  *)
(***************************************************************************)
EXTENDS Clock, FiniteSets

CONSTANTS Callers,     \* goroutines that may call Allow
          Duration,    \* <<minute, hour, day>> in ticks
          Limit,       \* <<PerMin, PerHour, PerDay>>
          MaxTime,     \* bound: ticks
          MaxLimiters, \* bound: calls of Register
          MaxSends     \* bound: sends remembered or being granted

Windows == 1 .. 3
Time == 0 .. MaxTime
Limiters == 1 .. MaxLimiters
SendIds == 1 .. MaxSends

ASSUME RateAssumption ==
  /\ Duration \in [Windows -> Nat \ {0}] /\ Limit \in [Windows -> Nat]
  /\ MaxTime \in Nat /\ MaxLimiters \in Nat \ {0} /\ MaxSends \in Nat

VARIABLES last,    \* the limiter registered for the ICCID
          events,  \* [Limiters -> [Windows -> the events counted]]
          allow,   \* [Callers -> the Allow in progress]
          granted, \* [Limiters -> the sends it granted] (history)
          refusal, \* history: the last refusal, and whether a window was full
          shared   \* history: two calls of Allow have overlapped

rateVars == <<last, events, allow, granted, refusal, shared>>

Event == [id : 0 .. MaxSends, at : Time]

(* step 0: idle; 1..3: wouldAllow of that window; 4..6: Allow of window step - 3. *)
Calls == [step : 0 .. 6, ev : Event, lim : Limiters]
NoCall == [step |-> 0, ev |-> [id |-> 0, at |-> 0], lim |-> 1]

RateTypeOK ==
  /\ now \in Time /\ last \in Limiters
  /\ events \in [Limiters -> [Windows -> SUBSET Event]]
  /\ allow \in [Callers -> Calls]
  /\ granted \in [Limiters -> SUBSET Event]
  /\ refusal \in {"none", "full", "unjust"}
  /\ shared \in BOOLEAN

RateInit ==
  /\ now = 0 /\ last = 1
  /\ events = [l \in Limiters |-> [w \in Windows |-> {}]]
  /\ allow = [c \in Callers |-> NoCall]
  /\ granted = [l \in Limiters |-> {}] /\ refusal = "none" /\ shared = FALSE

(* The events after the cutoff. *)
ValidTooShort(S, w, t) == {e \in S : e.at + Duration[w] > t + 1}
Valid(S, w, t) == {e \in S : e.at + Duration[w] > t}

RateTick == /\ Advance(MaxTime)
            /\ UNCHANGED <<last, events, allow, granted, refusal, shared>>

(* RateLimiterRegistry.Register. *)
Register == /\ last < MaxLimiters /\ last' = last + 1
            /\ UNCHANGED <<now, events, allow, granted, refusal, shared>>

(* The numbers that no send in sight has. *)
FreeIds ==
  {i \in SendIds :
     /\ \A c \in Callers : allow[c].ev.id # i
     /\ \A l \in Limiters : \A e \in granted[l] \cup UNION {events[l][w] : w \in Windows} : e.id # i}

(* RateLimiterRegistry.Allow finds the limiter; SIMRateLimiter.Allow reads the clock. *)
BeginsAt(c, t) ==
  /\ allow[c].step = 0 /\ FreeIds # {}
  /\ LET i == CHOOSE i \in FreeIds : TRUE
     IN allow' = [allow EXCEPT ![c] = [step |-> 1, ev |-> [id |-> i, at |-> t], lim |-> last]]
  /\ shared' = (shared \/ \E d \in Callers : allow[d].step # 0)
  /\ UNCHANGED <<now, last, events, granted, refusal>>
AllowBeginsEarlier(c) == BeginsAt(c, now - 1)
AllowBegins(c) == BeginsAt(c, now)

(* Is some window of limiter l full of granted sends? *)
Full(l, t) == \E w \in Windows : Cardinality(Valid(granted[l], w, t)) >= Limit[w]

Refuse(c) == /\ allow' = [allow EXCEPT ![c] = NoCall]
             /\ refusal' = IF Full(allow[c].lim, allow[c].ev.at) THEN "full" ELSE "unjust"
             /\ UNCHANGED granted

(* The next window, for the same call. *)
NextWindow(call) == [step |-> call.step + 1, ev |-> call.ev, lim |-> call.lim]

(* wouldAllow, window by window. *)
WouldAllow(c) ==
  LET w == allow[c].step
      valid == Valid(events[allow[c].lim][w], w, allow[c].ev.at)
  IN /\ w \in Windows
     /\ \/ /\ Cardinality(valid) < Limit[w]
           /\ allow' = [allow EXCEPT ![c] = NextWindow(@)]
           /\ UNCHANGED <<granted, refusal>>
        \/ Cardinality(valid) >= Limit[w] /\ Refuse(c)
     /\ UNCHANGED <<now, last, events, shared>>

(* window.Allow: evict, count, append. *)
Put(E, l, w, S) == [E EXCEPT ![l][w] = S]
Allow(c) ==
  LET w == allow[c].step - 3
      l == allow[c].lim
      valid == Valid(events[l][w], w, allow[c].ev.at)
  IN /\ w \in Windows
     /\ \/ /\ Cardinality(valid) >= Limit[w]
           /\ events' = Put(events, l, w, valid)
           /\ Refuse(c)
        \/ /\ Cardinality(valid) < Limit[w]
           /\ events' = Put(events, l, w, valid \cup {allow[c].ev})
           /\ IF w < 3
              THEN allow' = [allow EXCEPT ![c] = NextWindow(@)] /\ UNCHANGED granted
              ELSE /\ allow' = [allow EXCEPT ![c] = NoCall]
                   /\ granted' = [granted EXCEPT ![l] = @ \cup {allow[c].ev}]
           /\ UNCHANGED refusal
     /\ UNCHANGED <<now, last, shared>>

RateNext ==
  \/ RateTick \/ Register
  \/ \E c \in Callers : AllowBegins(c) \/ WouldAllow(c) \/ Allow(c)

RateSpec == RateInit /\ [][RateNext]_<<now, rateVars>>

-----------------------------------------------------------------------------
(* No window of a limiter, wherever it ends, holds more granted sends than its
   limit: the three lists, evicted at different times, forget no send too early.
   Calls that overlap may use clock readings out of order and are left out. *)
NeverOverLimit ==
  ~shared => \A l \in Limiters, w \in Windows : \A e \in granted[l] :
    Cardinality({g \in granted[l] : g.at <= e.at /\ g.at + Duration[w] > e.at}) <= Limit[w]

(* Two workers that pass the checks together do not both take the last place:
   what a window counts stays within its limit. *)
CountsWithinLimit ==
  \A l \in Limiters, w \in Windows : Cardinality(events[l][w]) <= Limit[w]

(* "If any window would be exceeded, none of them are advanced": with calls that
   do not overlap, an event that a window counts is a granted send, or one that
   is being granted. *)
AllOrNothing ==
  ~shared => \A l \in Limiters, w \in Windows : \A e \in events[l][w] :
    \/ e \in granted[l]
    \/ \E c \in Callers : allow[c].ev = e /\ allow[c].lim = l /\ allow[c].step > 3 + w

(* With calls that do not overlap, a send is refused only while some window is
   full of granted sends. *)
RefusedOnlyWhenFull == ~shared => refusal # "unjust"

(* The limiter enforces its limits, and nothing more: counts within the limits
   whatever overlaps, and for calls that do not overlap exactly the sends that the
   three windows allow. *)
LimitsEnforced ==
  CountsWithinLimit /\ NeverOverLimit /\ AllOrNothing /\ RefusedOnlyWhenFull

Busy(c) == allow[c].step # 0

(* Calls that do not overlap read the clock in order. *)
OneAtATime ==
  /\ \A c, d \in Callers : Busy(c) /\ Busy(d) => c = d
  /\ \A c \in Callers : Busy(c) =>
       /\ allow[c].ev.at <= now
       /\ \A l \in Limiters : \A g \in granted[l] : g.at <= allow[c].ev.at
  /\ \A l \in Limiters : \A g \in granted[l] : g.at <= now

(* A window has forgotten a granted send only when it is too old to count, for the
   call in progress as well. *)
Forgotten ==
  \A l \in Limiters, w \in Windows : \A g \in granted[l] :
    \/ g \in events[l][w]
    \/ /\ g.at + Duration[w] <= now
       /\ \A c \in Callers : Busy(c) => g.at + Duration[w] <= allow[c].ev.at

(* A window that the call in progress has passed counts it; one it has only looked
   at still has room. *)
Checked ==
  \A c \in Callers, w \in Windows :
    /\ allow[c].step > 3 + w => allow[c].ev \in events[allow[c].lim][w]
    /\ allow[c].step > w /\ allow[c].step <= 3 + w =>
         Cardinality(Valid(events[allow[c].lim][w], w, allow[c].ev.at)) < Limit[w]

FiniteSends ==
  \A l \in Limiters : IsFiniteSet(granted[l]) /\ \A w \in Windows : IsFiniteSet(events[l][w])

(* The inductive invariant. *)
RateInv ==
  /\ RateTypeOK /\ FiniteSends /\ LimitsEnforced
  /\ ~shared => OneAtATime /\ Forgotten /\ Checked
=============================================================================
