------------------------------- MODULE Watchdog -----------------------------
(***************************************************************************)
(* The software watchdog (internal/watchdog): a loop that at each tick     *)
(* runs the probes one after the other and pings systemd if all of them    *)
(* pass. Subsystems fail, hang and recover on their own. The ticker and    *)
(* systemd, which restarts a service that has not pinged for Patience      *)
(* intervals, are external.                                                *)
(***************************************************************************)
EXTENDS Naturals

CONSTANTS Probes,    \* number of probes
          Patience,  \* WatchdogSec, in intervals
          MaxFlaps   \* bound: changes of health

ASSUME WatchdogAssumption == Probes \in Nat \ {0} /\ Patience \in Nat \ {0} /\ MaxFlaps \in Nat

VARIABLES health,    \* [1 .. Probes -> health of the subsystem]
          ticked,    \* ticker.C holds a tick
          probe,     \* 0: in the select; k: probe k is next; Probes + 1: notifyFn is;
                     \* Stopped: Run has returned
          missed,    \* intervals since the last ping, as systemd counts them
          restarted, \* systemd has restarted the service
          flaps,
          sickSince  \* history: the subsystems that have been failing since the tick was taken

dogVars == <<health, ticked, probe, missed, restarted, flaps, sickSince>>

Subsystem == 1 .. Probes
Stopped == Probes + 2
Sick == {k \in Subsystem : health[k] # "ok"}

DogTypeOK ==
  /\ health \in [Subsystem -> {"ok", "failing", "hung"}] /\ ticked \in BOOLEAN
  /\ probe \in 0 .. Stopped /\ missed \in 0 .. Patience /\ restarted \in BOOLEAN
  /\ flaps \in 0 .. MaxFlaps /\ sickSince \in SUBSET Subsystem

DogInit ==
  /\ health = [k \in Subsystem |-> "ok"] /\ ticked = FALSE /\ probe = 0 /\ missed = 0
  /\ restarted = FALSE /\ flaps = 0 /\ sickSince = {}

(* external: an interval passes; a tick nobody has taken is dropped. *)
Interval ==
  /\ ~restarted /\ missed < Patience
  /\ ticked' = TRUE /\ missed' = missed + 1
  /\ UNCHANGED <<health, probe, restarted, flaps, sickSince>>

(* external: systemd loses patience. *)
Restart ==
  /\ missed = Patience /\ restarted' = TRUE
  /\ UNCHANGED <<health, ticked, probe, missed, flaps, sickSince>>

(* external: the health of a subsystem changes. *)
Flap(k) ==
  /\ ~restarted /\ flaps < MaxFlaps /\ flaps' = flaps + 1
  /\ \E h \in {"ok", "failing", "hung"} \ {health[k]} : health' = [health EXCEPT ![k] = h]
  /\ sickSince' = IF health'[k] = "ok" THEN sickSince \ {k} ELSE sickSince
  /\ UNCHANGED <<ticked, probe, missed, restarted>>

(* Run takes a tick. *)
TakeTick ==
  /\ ~restarted /\ probe = 0 /\ ticked
  /\ ticked' = FALSE /\ probe' = 1 /\ sickSince' = Sick
  /\ UNCHANGED <<health, missed, restarted, flaps>>

(* Run returns when its context is cancelled; between a tick and its ping it does not look. *)
Stop ==
  /\ ~restarted /\ probe = 0
  /\ probe' = Stopped
  /\ UNCHANGED <<health, ticked, missed, restarted, flaps, sickSince>>

(* tick: one probe; a hung one does not return. *)
RunProbeToTheEnd ==
  /\ ~restarted /\ probe \in Subsystem /\ health[probe] # "hung"
  /\ probe' = IF health[probe] = "failing" /\ probe = Probes THEN 0 ELSE probe + 1
  /\ UNCHANGED <<health, ticked, missed, restarted, flaps, sickSince>>

RunProbe ==
  /\ ~restarted /\ probe \in Subsystem /\ health[probe] # "hung"
  /\ probe' = IF health[probe] = "failing" THEN 0 ELSE probe + 1
  /\ UNCHANGED <<health, ticked, missed, restarted, flaps, sickSince>>

(* notifyFn; a write to the socket that fails is only logged. *)
Notify ==
  /\ ~restarted /\ probe = Probes + 1
  /\ probe' = 0 /\ missed' \in {0, missed}
  /\ UNCHANGED <<health, ticked, restarted, flaps, sickSince>>

RunLoop == TakeTick \/ RunProbe \/ Notify
DogNext == \/ Interval \/ Restart \/ RunLoop \/ Stop
           \/ \E k \in Subsystem : Flap(k)
DogSpec == DogInit /\ [][DogNext]_dogVars

-----------------------------------------------------------------------------
(* systemd hears a ping only from a service whose subsystems all worked at some time
   since the tick: a subsystem that fails throughout, or hangs, stops the pings
   whatever the others do meanwhile. *)
PingIsHonest == [][(missed' = 0 /\ missed # 0) => sickSince = {}]_dogVars

(* A subsystem that fails or hangs for good gets the service restarted. *)
SickIsRestarted == \A k \in Subsystem : (<>[](health[k] # "ok")) => []<>restarted

(* A sick subsystem is found out: it is not covered by a ping, and for good it means
   a restart. *)
SickIsFoundOut == PingIsHonest /\ SickIsRestarted

(* The inductive invariant: a subsystem whose probe has passed since the tick has
   worked since the tick. *)
DogInv ==
  /\ DogTypeOK /\ sickSince \subseteq Sick
  /\ probe # Stopped => \A k \in Subsystem : k < probe => k \notin sickSince
=============================================================================
