----------------------------- MODULE MCPackages -----------------------------
(***************************************************************************)
(* Small instances of the components that stand alone: the serializer, the *)
(* send limiter, the codec, the configuration, the life cycle of the       *)
(* gateway, and the packages the gateway does not use yet. They share no   *)
(* state, so a behaviour exercises one of them, chosen at the start, and   *)
(* what is checked of each is what a run of its own would check.           *)
(***************************************************************************)
EXTENDS Serializer, RateLimiter, Breaker, TokenBucket, Dedup, DiskQueue, Dlq, Webhook,
        Watchdog, Config, Gateway, ModemSetup, MCPdu

VARIABLE active

Durations == <<1, 2, 3>>
Limits == <<1, 2, 2>>

ModemPorts == {"m1", "m2"}

AFile == [readable |-> TRUE, token |-> "", url |-> "good", level |-> "", poll |-> 0, ack |-> 1,
          modems |-> <<[port |-> "good", baud |-> 0]>>]
SomeFiles == {AFile, [AFile EXCEPT !.token = "good", !.poll = -1, !.ack = 0],
              [AFile EXCEPT !.url = "bad"], [AFile EXCEPT !.level = "bad"],
              [AFile EXCEPT !.level = "other", !.poll = 1],
              [AFile EXCEPT !.modems = <<[port |-> "good", baud |-> 1], [port |-> "", baud |-> 1]>>],
              [AFile EXCEPT !.modems = <<>>], [AFile EXCEPT !.readable = FALSE]}
AnEnv == [token |-> "bad", url |-> "other", level |-> "", poll |-> -1]

Packages == {"serializer", "rate", "breaker", "bucket", "dedup", "disk", "dlq", "webhook",
             "watchdog", "config", "gateway", "modem", "pdu"}
Timed == {"rate", "bucket", "dedup"}

all == <<active, now, sVars, rateVars, breakerVars, bucketVars, dedupVars, diskVars, dlqVars,
         hookVars, dogVars, configVars, gwVars, setupVars, pduVars>>

(* The components other than c stay as they are. *)
OthersUnchanged(c) ==
  /\ UNCHANGED active
  /\ IF c \in Timed THEN TRUE ELSE UNCHANGED now
  /\ IF c = "serializer" THEN TRUE ELSE UNCHANGED sVars
  /\ IF c = "rate" THEN TRUE ELSE UNCHANGED rateVars
  /\ IF c = "breaker" THEN TRUE ELSE UNCHANGED breakerVars
  /\ IF c = "bucket" THEN TRUE ELSE UNCHANGED bucketVars
  /\ IF c = "dedup" THEN TRUE ELSE UNCHANGED dedupVars
  /\ IF c = "disk" THEN TRUE ELSE UNCHANGED diskVars
  /\ IF c = "dlq" THEN TRUE ELSE UNCHANGED dlqVars
  /\ IF c = "webhook" THEN TRUE ELSE UNCHANGED hookVars
  /\ IF c = "watchdog" THEN TRUE ELSE UNCHANGED dogVars
  /\ IF c = "config" THEN TRUE ELSE UNCHANGED configVars
  /\ IF c = "gateway" THEN TRUE ELSE UNCHANGED gwVars
  /\ IF c = "modem" THEN TRUE ELSE UNCHANGED setupVars
  /\ IF c = "pdu" THEN TRUE ELSE UNCHANGED pduVars

Step(c, A) == active = c /\ A /\ OthersUnchanged(c)

(* The input of a component that is not exercised does not matter. *)
PackagesInit ==
  /\ active \in Packages
  /\ PduInit /\ (active # "pdu" => sent = CHOOSE m \in OctetMessages : TRUE)
  /\ ConfigInit /\ (active # "config" => file.content = AFile)
  /\ SerInit /\ RateInit /\ BreakerInit /\ BucketInit /\ DedupInit /\ DiskInit /\ DlqInit
  /\ HookInit /\ DogInit /\ GwInit /\ SetupInit

PackagesNext ==
  \/ Step("serializer", SerNext) \/ Step("rate", RateNext) \/ Step("breaker", BreakerNext)
  \/ Step("bucket", BucketNext) \/ Step("dedup", DedupNext) \/ Step("disk", DiskNext)
  \/ Step("dlq", DlqNext) \/ Step("webhook", HookNext) \/ Step("watchdog", DogNext)
  \/ Step("config", ConfigNext) \/ Step("gateway", GwNext) \/ Step("modem", SetupNext)
  \/ Step("pdu", PduNext)

(* What goes on by itself: the reader, the modem and the calls of the serializer;
   clients that keep calling and the time-out of an open breaker; the loops of the
   notifier (whose client has a timeout), of the watchdog with its ticker and of the
   configuration watcher; Run and its timer; the worker that sets up its modem, whose
   select takes the keepalive in the end, however many tasks there are. *)
Fairness ==
  /\ WF_sVars(active = "serializer" /\ Reader) /\ WF_sVars(active = "serializer" /\ Caller)
  /\ WF_sVars(active = "serializer" /\ ModemAnswers)
  /\ WF_breakerVars(active = "breaker" /\ CoolDown)
  /\ \A c \in Clients : WF_breakerVars(active = "breaker" /\ Client(c))
  /\ WF_hookVars(active = "webhook" /\ Notifier) /\ WF_hookVars(active = "webhook" /\ Endpoint)
  /\ WF_dogVars(active = "watchdog" /\ RunLoop) /\ WF_dogVars(active = "watchdog" /\ Interval)
  /\ WF_dogVars(active = "watchdog" /\ Restart)
  /\ WF_configVars(active = "config" /\ TakeSignal) /\ WF_configVars(active = "config" /\ Reload)
  /\ WF_gwVars(active = "gateway" /\ Run) /\ WF_gwVars(active = "gateway" /\ TimerFires)
  /\ WF_setupVars(active = "modem" /\ Dialogue) /\ SF_setupVars(active = "modem" /\ Keepalive)

PackagesSpec == PackagesInit /\ [][PackagesNext]_all /\ Fairness

(* Every component keeps the inductive invariant of its proof; Pdu, the types of its
   declarations. *)
PackagesInv ==
  /\ active \in Packages
  /\ CASE active = "serializer" -> SerInv [] active = "rate" -> RateInv
       [] active = "breaker" -> BreakerInv [] active = "bucket" -> BucketInv
       [] active = "dedup" -> DedupInv [] active = "disk" -> DiskInv
       [] active = "dlq" -> DlqInv [] active = "webhook" -> HookInv
       [] active = "watchdog" -> DogInv [] active = "config" -> ConfigInv
       [] active = "gateway" -> GwInv [] active = "modem" -> SetupInv
       [] active = "pdu" -> PduTypeOK
=============================================================================
