------------------------------- MODULE Workers ------------------------------
(***************************************************************************)
(* Tasks from the cloud and the workers that execute them: the router and  *)
(* the registry (internal/router, internal/modem/registry.go), the worker  *)
(* state machine with its watchdog (internal/modem/worker.go) and the      *)
(* supervisor that replaces a worker that failed (supervisor.go).          *)
(*                                                                         *)
(* A port has one worker at a time. wpc is where its goroutine is: in the  *)
(* main loop's select ("loop"), in a handler ("turn", "task", "recover",  *)
(* "reset"), at the bottom of the loop ("check"), draining its queue at    *)
(* shutdown ("drain"), or before it ("start", "init", "registered",        *)
(* "backoff"); "over" is a supervisor that has returned. The other         *)
(* variables of a port belong to its current Worker object; tasks left in  *)
(* the queue of an earlier one are stranded.                               *)
(***************************************************************************)
EXTENDS Integers, Sequences, FiniteSets

CONSTANTS Ports,    \* configured modems
          Sims,     \* ICCIDs
          Tasks,    \* task message ids
          None,     \* no SIM, no worker, no task, no answer
          Guarded,  \* ports with an expected_iccid
          QueueCap, \* InboundQueueSize (64 by default)
          MaxAt,     \* bound: failed AT commands and port opens
          MaxBans,   \* bound: registrations denied
          MaxStalls, \* bound: handlers the watchdog finds stuck
          MaxSwaps,  \* bound: SIMs moved between modems
          MaxResets, \* bound: POST /modems/reset
          MaxTerms   \* bound: SIGTERM, 0 or 1

Injective(f) == \A p, q \in DOMAIN f : f[p] = f[q] => p = q

FaultKinds == {"at", "ban", "stall", "swap", "reset", "term"}

ASSUME WorkersAssumption ==
  /\ Guarded \subseteq Ports
  /\ QueueCap \in Nat \ {0}
  /\ {MaxAt, MaxBans, MaxStalls, MaxSwaps, MaxResets, MaxTerms} \subseteq Nat
  /\ None \notin Ports \cup Sims \cup Tasks
  /\ IsFiniteSet(Ports)
  /\ \E f \in [Ports -> Sims] : Injective(f)

(* The SIM each modem has when the gateway is configured. *)
HomeSim == CHOOSE f \in [Ports -> Sims] : Injective(f)

VARIABLES wpc, wstate, prev, iccid, queue, cur, open, wd, resetReq,
          simIn,     \* the SIM in each modem
          registry,  \* Registry.workers
          disp,      \* the Dispatch in progress: task, worker found, worker gone
          target,    \* [Tasks -> ICCID in the payload, None before it arrives]
          answer,    \* [Tasks -> sequence of TASK_ACKs pushed]
          ran,       \* [Tasks -> how often the modem carried it out]
          stranded,  \* tasks in queues nobody reads any more
          ctxDone,   \* SIGTERM
          fired,     \* ports whose worker the watchdog has declared stuck
          gauge,     \* metrics.ActiveConnections
          faults     \* faults that may still happen

portVars == <<wpc, wstate, prev, iccid, queue, cur, open, wd, resetReq>>
taskVars == <<target, answer, ran, stranded>>
wVars == <<portVars, simIn, registry, disp, taskVars, ctxDone, fired, gauge, faults>>

States == {"INITIALIZING", "ACTIVE", "EXECUTING", "RECOVERING", "RESETTING",
           "BANNED", "FAILED"}
Handlers == {"turn", "task", "recover", "reset"}
Answers == {"SUCCESS", "FAILED", "NACK", "NOT_FOUND"}
InLoop(p) == wpc[p] \in Handlers \cup {"loop", "check"}
NoDispatch == [task |-> None, to |-> None, gone |-> FALSE]

WorkersTypeOK ==
  /\ wpc \in [Ports -> Handlers \cup {"start", "init", "registered", "loop", "check",
                                      "drain", "backoff", "over"}]
  /\ wstate \in [Ports -> States] /\ prev \in [Ports -> States]
  /\ iccid \in [Ports -> Sims \cup {None}]
  /\ queue \in [Ports -> Seq(Tasks)] /\ \A p \in Ports : Len(queue[p]) <= QueueCap
  /\ cur \in [Ports -> Tasks \cup {None}]
  /\ open \in [Ports -> BOOLEAN] /\ resetReq \in [Ports -> BOOLEAN]
  /\ wd \in [Ports -> {"off", "watch", "fire"}]
  /\ simIn \in [Ports -> Sims \cup {None}]
  /\ registry \in [Sims -> Ports \cup {None}]
  /\ disp \in [task : Tasks \cup {None}, to : Ports \cup {None}, gone : BOOLEAN]
  /\ target \in [Tasks -> Sims \cup {None}]
  /\ answer \in [Tasks -> Seq(Answers)]
  /\ ran \in [Tasks -> Nat]
  /\ stranded \subseteq Tasks
  /\ ctxDone \in BOOLEAN
  /\ fired \subseteq Ports
  /\ gauge \in Int
  /\ faults \in [FaultKinds -> Nat]

WorkersInit ==
  /\ wpc = [p \in Ports |-> "start"]
  /\ wstate = [p \in Ports |-> "INITIALIZING"] /\ prev = wstate
  /\ iccid = [p \in Ports |-> None]
  /\ queue = [p \in Ports |-> <<>>] /\ cur = iccid
  /\ open = [p \in Ports |-> FALSE] /\ resetReq = open
  /\ wd = [p \in Ports |-> "off"]
  /\ simIn = HomeSim
  /\ registry = [s \in Sims |-> None]
  /\ disp = NoDispatch
  /\ target = [t \in Tasks |-> None]
  /\ answer = [t \in Tasks |-> <<>>]
  /\ ran = [t \in Tasks |-> 0]
  /\ stranded = {} /\ ctxDone = FALSE /\ fired = {} /\ gauge = 0
  /\ faults = [at |-> MaxAt, ban |-> MaxBans, stall |-> MaxStalls,
               swap |-> MaxSwaps, reset |-> MaxResets, term |-> MaxTerms]

Fault(kind) == faults[kind] > 0 /\ faults' = [faults EXCEPT ![kind] = @ - 1]

(* One or more AT commands on p. Once a command has timed out the port is closed
   and every later one fails. *)
AtOK(p) == open[p] /\ UNCHANGED <<open, faults>>
AtFails(p) == \/ ~open[p] /\ UNCHANGED <<open, faults>>
              \/ /\ open[p] /\ Fault("at")
                 /\ open' \in {open, [open EXCEPT ![p] = FALSE]}

Ack(t, status) == answer' = [answer EXCEPT ![t] = Append(@, status)]

-----------------------------------------------------------------------------
(* Router.Dispatch, called by the reader of the tunnel, one task at a time. *)

(* A payload without an ICCID. *)
DispatchMalformed(t) ==
  /\ disp = NoDispatch /\ target[t] = None /\ answer[t] = <<>>
  /\ Ack(t, "NOT_FOUND")
  /\ UNCHANGED <<portVars, simIn, registry, disp, target, ran, stranded, ctxDone,
                 fired, gauge, faults>>

(* Registry.Dispatch finds the worker and releases the lock. *)
DispatchLookup(t, s) ==
  /\ disp = NoDispatch /\ target[t] = None /\ answer[t] = <<>>
  /\ target' = [target EXCEPT ![t] = s]
  /\ IF registry[s] = None
     THEN Ack(t, "NOT_FOUND") /\ UNCHANGED disp
     ELSE disp' = [task |-> t, to |-> registry[s], gone |-> FALSE] /\ UNCHANGED answer
  /\ UNCHANGED <<portVars, simIn, registry, ran, stranded, ctxDone, fired, gauge, faults>>

(* Then it sends to the worker's channel without blocking, also when that worker
   has ended. Every error is answered with the code MODEM_NOT_FOUND. *)
DispatchSendDroppingBusy ==
  /\ disp # NoDispatch
  /\ IF ~disp.gone /\ Len(queue[disp.to]) < QueueCap
     THEN queue' = [queue EXCEPT ![disp.to] = Append(@, disp.task)]
     ELSE UNCHANGED queue
  /\ UNCHANGED <<answer, stranded>>
  /\ disp' = NoDispatch
  /\ UNCHANGED <<wpc, wstate, prev, iccid, cur, open, wd, resetReq, simIn, registry,
                 target, ran, ctxDone, fired, gauge, faults>>
DispatchSend ==
  /\ disp # NoDispatch
  /\ \/ /\ ~disp.gone /\ Len(queue[disp.to]) < QueueCap
        /\ queue' = [queue EXCEPT ![disp.to] = Append(@, disp.task)]
        /\ UNCHANGED <<answer, stranded>>
     \/ /\ disp.gone
        /\ stranded' = stranded \cup {disp.task}
        /\ UNCHANGED <<queue, answer>>
     \/ /\ disp.gone \/ Len(queue[disp.to]) >= QueueCap
        /\ Ack(disp.task, "NOT_FOUND")
        /\ UNCHANGED <<queue, stranded>>
  /\ disp' = NoDispatch
  /\ UNCHANGED <<wpc, wstate, prev, iccid, cur, open, wd, resetReq, simIn, registry,
                 target, ran, ctxDone, fired, gauge, faults>>

-----------------------------------------------------------------------------
(* Supervisor and Worker.Run, up to the main loop. *)

(* Run returns: its queue is abandoned, its watchdog stopped. *)
ExitLeavingQueue(p, next) ==
  /\ wpc' = [wpc EXCEPT ![p] = next]
  /\ wd' = [wd EXCEPT ![p] = "off"]
  /\ resetReq' = [resetReq EXCEPT ![p] = FALSE]
  /\ iccid' = [iccid EXCEPT ![p] = None]
  /\ UNCHANGED <<queue, stranded, disp>>
  /\ fired' = fired \ {p}
Exit(p, next) ==
  /\ wpc' = [wpc EXCEPT ![p] = next]
  /\ stranded' = stranded \cup {queue[p][k] : k \in DOMAIN queue[p]}
  /\ queue' = [queue EXCEPT ![p] = <<>>]
  /\ wd' = [wd EXCEPT ![p] = "off"]
  /\ resetReq' = [resetReq EXCEPT ![p] = FALSE]
  /\ iccid' = [iccid EXCEPT ![p] = None]
  /\ disp' = IF disp.to = p THEN [task |-> disp.task, to |-> p, gone |-> TRUE]
           ELSE disp
  /\ fired' = fired \ {p}

(* RunSupervised after Run: BANNED, or a done context, ends it. *)
AfterRunIgnoringBan(final) == IF ctxDone THEN "over" ELSE "backoff"
AfterRun(final) == IF ctxDone \/ final = "BANNED" THEN "over" ELSE "backoff"

OpenPort(p) ==
  /\ wpc[p] = "start"
  /\ \/ /\ open' = [open EXCEPT ![p] = TRUE]
        /\ wpc' = [wpc EXCEPT ![p] = "init"]
        /\ UNCHANGED <<wstate, faults>>
     \/ /\ Fault("at")
        /\ wstate' = [wstate EXCEPT ![p] = "FAILED"]
        /\ wpc' = [wpc EXCEPT ![p] = AfterRun("FAILED")]
        /\ UNCHANGED open
  /\ UNCHANGED <<prev, iccid, queue, cur, wd, resetReq, simIn, registry, disp, taskVars,
                 ctxDone, fired, gauge>>

(* runInitSequence and Register. *)
InitSequence(p) ==
  /\ wpc[p] = "init"
  /\ AtOK(p)
  /\ p \in Guarded => simIn[p] = HomeSim[p]
  /\ iccid' = [iccid EXCEPT ![p] = simIn[p]]
  /\ registry' = [registry EXCEPT ![simIn[p]] = p]
  /\ wpc' = [wpc EXCEPT ![p] = "registered"]
  /\ UNCHANGED <<wstate, prev, queue, cur, wd, resetReq, simIn, disp, taskVars, ctxDone,
                 fired, gauge>>

InitFailsCounted(p) ==
  /\ wpc[p] = "init"
  /\ \/ AtFails(p)
     \/ p \in Guarded /\ simIn[p] # HomeSim[p] /\ AtOK(p)
  /\ wstate' = [wstate EXCEPT ![p] = "FAILED"]
  /\ wpc' = [wpc EXCEPT ![p] = AfterRun("FAILED")]
  /\ gauge' = gauge - 1
  /\ UNCHANGED <<prev, iccid, queue, cur, wd, resetReq, simIn, registry, disp, taskVars,
                 ctxDone, fired>>
InitFailsDeregistering(p) ==
  /\ wpc[p] = "init"
  /\ \/ AtFails(p)
     \/ p \in Guarded /\ simIn[p] # HomeSim[p] /\ AtOK(p)
  /\ wstate' = [wstate EXCEPT ![p] = "FAILED"]
  /\ wpc' = [wpc EXCEPT ![p] = AfterRun("FAILED")]
  /\ registry' = [registry EXCEPT ![HomeSim[p]] = None]
  /\ UNCHANGED <<prev, iccid, queue, cur, wd, resetReq, simIn, disp, taskVars,
                 ctxDone, fired, gauge>>
InitFails(p) ==
  /\ wpc[p] = "init"
  /\ \/ AtFails(p)
     \/ p \in Guarded /\ simIn[p] # HomeSim[p] /\ AtOK(p)
  /\ wstate' = [wstate EXCEPT ![p] = "FAILED"]
  /\ wpc' = [wpc EXCEPT ![p] = AfterRun("FAILED")]
  /\ UNCHANGED <<prev, iccid, queue, cur, wd, resetReq, simIn, registry, disp, taskVars,
                 ctxDone, fired, gauge>>

Activate(p) ==
  /\ wpc[p] = "registered"
  /\ wstate' = [wstate EXCEPT ![p] = "ACTIVE"]
  /\ wd' = [wd EXCEPT ![p] = "watch"]
  /\ wpc' = [wpc EXCEPT ![p] = "loop"]
  /\ gauge' = gauge + 1
  /\ UNCHANGED <<prev, iccid, queue, cur, open, resetReq, simIn, registry, disp, taskVars,
                 ctxDone, fired, faults>>

(* The back-off ends: the next Worker, or the end of the supervisor. *)
RestartWithoutOpening(p) ==
  /\ wpc[p] = "backoff"
  /\ wpc' = [wpc EXCEPT ![p] = "init"]
  /\ wstate' = [wstate EXCEPT ![p] = "INITIALIZING"]
  /\ UNCHANGED <<prev, iccid, queue, cur, open, wd, resetReq, simIn, registry, disp,
                 taskVars, ctxDone, fired, gauge, faults>>
Restart(p) ==
  /\ wpc[p] = "backoff"
  /\ \/ /\ wpc' = [wpc EXCEPT ![p] = "start"]
        /\ wstate' = [wstate EXCEPT ![p] = "INITIALIZING"]
     \/ ctxDone /\ wpc' = [wpc EXCEPT ![p] = "over"] /\ UNCHANGED wstate
  /\ UNCHANGED <<prev, iccid, queue, cur, open, wd, resetReq, simIn, registry, disp,
                 taskVars, ctxDone, fired, gauge, faults>>

-----------------------------------------------------------------------------
(* The main loop. *)

(* A keepalive, capacity check, signal poll or notification is taken up. *)
TurnBegins(p) ==
  /\ wpc[p] = "loop"
  /\ wpc' = [wpc EXCEPT ![p] = "turn"]
  /\ UNCHANGED <<wstate, prev, iccid, queue, cur, open, wd, resetReq, simIn, registry,
                 disp, taskVars, ctxDone, fired, gauge, faults>>

(* It ends without touching the state; its commands may fail. *)
TurnEnds(p) ==
  /\ wpc[p] = "turn"
  /\ AtOK(p) \/ AtFails(p)
  /\ wpc' = [wpc EXCEPT ![p] = "check"]
  /\ UNCHANGED <<wstate, prev, iccid, queue, cur, wd, resetReq, simIn, registry, disp,
                 taskVars, ctxDone, fired, gauge>>

(* runKeepalive: the registration is denied, enterBanned. *)
KeepaliveDenied(p) ==
  /\ wpc[p] = "turn" /\ open[p] /\ Fault("ban")
  /\ wstate' = [wstate EXCEPT ![p] = "BANNED"]
  /\ wpc' = [wpc EXCEPT ![p] = "check"]
  /\ UNCHANGED <<prev, iccid, queue, cur, open, wd, resetReq, simIn, registry, disp,
                 taskVars, ctxDone, fired, gauge>>

(* runKeepalive: the query fails, enterRecovery begins. *)
KeepaliveFails(p) ==
  /\ wpc[p] = "turn" /\ AtFails(p)
  /\ wstate' = [wstate EXCEPT ![p] = "RECOVERING"]
  /\ wpc' = [wpc EXCEPT ![p] = "recover"]
  /\ UNCHANGED <<prev, iccid, queue, cur, wd, resetReq, simIn, registry, disp,
                 taskVars, ctxDone, fired, gauge>>

(* The radio cycle succeeds; a failure to set PDU mode again is only logged. *)
RecoverySucceeds(p) ==
  /\ wpc[p] = "recover" /\ open[p]
  /\ AtOK(p) \/ AtFails(p)
  /\ wstate' = [wstate EXCEPT ![p] = "ACTIVE"]
  /\ wpc' = [wpc EXCEPT ![p] = "check"]
  /\ UNCHANGED <<prev, iccid, queue, cur, wd, resetReq, simIn, registry, disp,
                 taskVars, ctxDone, fired, gauge>>

(* enterReset, after a failed radio cycle or on request. *)
RecoveryFails(p) ==
  /\ wpc[p] = "recover" /\ AtFails(p)
  /\ wstate' = [wstate EXCEPT ![p] = "RESETTING"]
  /\ wpc' = [wpc EXCEPT ![p] = "reset"]
  /\ UNCHANGED <<prev, iccid, queue, cur, wd, resetReq, simIn, registry, disp,
                 taskVars, ctxDone, fired, gauge>>

ResetBegins(p) ==
  /\ wpc[p] = "loop" /\ resetReq[p]
  /\ resetReq' = [resetReq EXCEPT ![p] = FALSE]
  /\ wstate' = [wstate EXCEPT ![p] = "RESETTING"]
  /\ wpc' = [wpc EXCEPT ![p] = "reset"]
  /\ UNCHANGED <<prev, iccid, queue, cur, open, wd, simIn, registry, disp, taskVars,
                 ctxDone, fired, gauge, faults>>

(* A worker that is INITIALIZING again does not repeat its init sequence. *)
ResetEnds(p) ==
  /\ wpc[p] = "reset"
  /\ \/ AtOK(p) /\ wstate' = [wstate EXCEPT ![p] = "INITIALIZING"]
     \/ AtFails(p) /\ wstate' = [wstate EXCEPT ![p] = "FAILED"]
  /\ wpc' = [wpc EXCEPT ![p] = "check"]
  /\ UNCHANGED <<prev, iccid, queue, cur, wd, resetReq, simIn, registry, disp, taskVars,
                 ctxDone, fired, gauge>>

(* executeTask begins: the state is saved. *)
TaskBegins(p) ==
  /\ wpc[p] = "loop" /\ queue[p] # <<>>
  /\ cur' = [cur EXCEPT ![p] = Head(queue[p])]
  /\ queue' = [queue EXCEPT ![p] = Tail(@)]
  /\ prev' = [prev EXCEPT ![p] = wstate[p]]
  /\ wstate' = [wstate EXCEPT ![p] = "EXECUTING"]
  /\ wpc' = [wpc EXCEPT ![p] = "task"]
  /\ UNCHANGED <<iccid, open, wd, resetReq, simIn, registry, disp, taskVars, ctxDone,
                 fired, gauge, faults>>

(* It ends: the action succeeds; is refused (payload, rate limit, encoding);
   or fails at a command, with some of it possibly done. The acknowledgement is
   pushed and the deferred statement restores the state. *)
TaskEndsRetrying(p) ==
  LET t == cur[p] IN
  /\ wpc[p] = "task"
  /\ \/ /\ AtOK(p) /\ ran' = [ran EXCEPT ![t] = @ + 1] /\ Ack(t, "SUCCESS")
        /\ wpc' = [wpc EXCEPT ![p] = "check"]
        /\ cur' = [cur EXCEPT ![p] = None]
        /\ wstate' = [wstate EXCEPT ![p] = prev[p]]
     \/ /\ AtFails(p) /\ ran' = [ran EXCEPT ![t] = @ + 1]
        /\ UNCHANGED <<answer, wpc, cur, wstate>>
  /\ UNCHANGED <<prev, iccid, queue, wd, resetReq, simIn, registry, disp, target,
                 stranded, ctxDone, fired, gauge>>
TaskEnds(p) ==
  LET t == cur[p] IN
  /\ wpc[p] = "task"
  /\ \/ AtOK(p) /\ ran' = [ran EXCEPT ![t] = @ + 1] /\ Ack(t, "SUCCESS")
     \/ UNCHANGED <<open, faults, ran>> /\ Ack(t, "FAILED")
     \/ AtFails(p) /\ ran' \in {ran, [ran EXCEPT ![t] = @ + 1]} /\ Ack(t, "FAILED")
  /\ wstate' = [wstate EXCEPT ![p] = prev[p]]
  /\ cur' = [cur EXCEPT ![p] = None]
  /\ wpc' = [wpc EXCEPT ![p] = "check"]
  /\ UNCHANGED <<prev, iccid, queue, wd, resetReq, simIn, registry, disp, target,
                 stranded, ctxDone, fired, gauge>>

Deregister(p) == registry' = [registry EXCEPT ![iccid[p]] = None]

(* The bottom of the loop: a terminal state ends the worker. *)
Continues(p) ==
  /\ wpc[p] = "check" /\ wstate[p] \notin {"FAILED", "BANNED"}
  /\ wpc' = [wpc EXCEPT ![p] = "loop"]
  /\ UNCHANGED <<wstate, prev, iccid, queue, cur, open, wd, resetReq, simIn, registry,
                 disp, taskVars, ctxDone, fired, gauge, faults>>
TerminatesRegistered(p) ==
  /\ wpc[p] = "check" /\ wstate[p] \in {"FAILED", "BANNED"}
  /\ Exit(p, AfterRun(wstate[p]))
  /\ open' = [open EXCEPT ![p] = FALSE]
  /\ UNCHANGED <<wstate, prev, cur, simIn, registry, target, answer, ran, ctxDone, gauge, faults>>
Terminates(p) ==
  /\ wpc[p] = "check" /\ wstate[p] \in {"FAILED", "BANNED"}
  /\ Deregister(p)
  /\ Exit(p, AfterRun(wstate[p]))
  /\ open' = [open EXCEPT ![p] = FALSE]
  /\ UNCHANGED <<wstate, prev, cur, simIn, target, answer, ran, ctxDone, gauge, faults>>

(* ctx.Done: deregister, then NACK what is queued. *)
ShutdownBeginsIfActive(p) ==
  /\ wpc[p] = "loop" /\ ctxDone /\ wstate[p] = "ACTIVE"
  /\ Deregister(p)
  /\ wpc' = [wpc EXCEPT ![p] = "drain"]
  /\ UNCHANGED <<wstate, prev, iccid, queue, cur, open, wd, resetReq, simIn, disp,
                 taskVars, ctxDone, fired, gauge, faults>>
ShutdownBegins(p) ==
  /\ wpc[p] = "loop" /\ ctxDone
  /\ Deregister(p)
  /\ wpc' = [wpc EXCEPT ![p] = "drain"]
  /\ UNCHANGED <<wstate, prev, iccid, queue, cur, open, wd, resetReq, simIn, disp,
                 taskVars, ctxDone, fired, gauge, faults>>

DrainOne(p) ==
  /\ wpc[p] = "drain" /\ queue[p] # <<>>
  /\ Ack(Head(queue[p]), "NACK")
  /\ queue' = [queue EXCEPT ![p] = Tail(@)]
  /\ UNCHANGED <<wpc, wstate, prev, iccid, cur, open, wd, resetReq, simIn, registry, disp,
                 target, ran, stranded, ctxDone, fired, gauge, faults>>

DrainEnds(p) ==
  /\ wpc[p] = "drain" /\ queue[p] = <<>>
  /\ Exit(p, "over")
  /\ open' = [open EXCEPT ![p] = FALSE]
  /\ gauge' = gauge - 1
  /\ UNCHANGED <<wstate, prev, cur, simIn, registry, target, answer, ran, ctxDone, faults>>

-----------------------------------------------------------------------------
(* The watchdog goroutine: it finds a handler stuck, and then stores FAILED,
   by which time the handler may have ended. *)
WatchdogDetects(p) ==
  /\ wd[p] = "watch" /\ wpc[p] \in Handlers /\ Fault("stall")
  /\ wd' = [wd EXCEPT ![p] = "fire"]
  /\ UNCHANGED <<wpc, wstate, prev, iccid, queue, cur, open, resetReq, simIn, registry,
                 disp, taskVars, ctxDone, fired, gauge>>

WatchdogStores(p) ==
  /\ wd[p] = "fire"
  /\ wstate' = [wstate EXCEPT ![p] = "FAILED"]
  /\ wd' = [wd EXCEPT ![p] = "off"]
  /\ fired' = fired \cup {p}
  /\ UNCHANGED <<wpc, prev, iccid, queue, cur, open, resetReq, simIn, registry, disp,
                 taskVars, ctxDone, gauge, faults>>

(* modemResetHandler. *)
RequestReset(s) ==
  /\ registry[s] # None /\ Fault("reset")
  /\ resetReq' = [resetReq EXCEPT ![registry[s]] = TRUE]
  /\ UNCHANGED <<wpc, wstate, prev, iccid, queue, cur, open, wd, simIn, registry, disp,
                 taskVars, ctxDone, fired, gauge>>

(* The operator exchanges the SIMs of two modems. *)
SwapSims(p, q) ==
  /\ p # q /\ Fault("swap")
  /\ simIn' = [simIn EXCEPT ![p] = simIn[q], ![q] = simIn[p]]
  /\ UNCHANGED <<portVars, registry, disp, taskVars, ctxDone, fired, gauge>>

(* SIGTERM cancels the context. *)
Sigterm ==
  /\ ~ctxDone /\ Fault("term")
  /\ ctxDone' = TRUE
  /\ UNCHANGED <<portVars, simIn, registry, disp, taskVars, fired, gauge>>

WorkerStep(p) ==
  \/ OpenPort(p) \/ InitSequence(p) \/ InitFails(p) \/ Activate(p) \/ Restart(p)
  \/ TurnBegins(p) \/ TurnEnds(p) \/ KeepaliveDenied(p) \/ KeepaliveFails(p)
  \/ RecoverySucceeds(p) \/ RecoveryFails(p) \/ ResetBegins(p) \/ ResetEnds(p)
  \/ TaskBegins(p) \/ TaskEnds(p) \/ Continues(p) \/ Terminates(p)
  \/ ShutdownBegins(p) \/ DrainOne(p) \/ DrainEnds(p)

WorkersNext ==
  \/ \E t \in Tasks : DispatchMalformed(t)
  \/ \E t \in Tasks, s \in Sims : DispatchLookup(t, s)
  \/ DispatchSend
  \/ \E p \in Ports : WorkerStep(p)
  \/ \E p \in Ports : WatchdogDetects(p) \/ WatchdogStores(p)
  \/ \E s \in Sims : RequestReset(s)
  \/ \E p, q \in Ports : SwapSims(p, q)
  \/ Sigterm

WorkersSpec == WorkersInit /\ [][WorkersNext]_wVars

(* Goroutines keep running. The select of the main loop picks at random among
   its ready cases, so a case that stays ready is taken in the end; a watchdog
   that decided to store does so. *)
WorkersFair ==
  /\ WorkersSpec
  /\ WF_wVars(DispatchSend)
  /\ \A p \in Ports : /\ WF_wVars(WorkerStep(p)) /\ WF_wVars(WatchdogStores(p))
                      /\ SF_wVars(TaskBegins(p)) /\ SF_wVars(ResetBegins(p))
                      /\ SF_wVars(ShutdownBegins(p))

-----------------------------------------------------------------------------
(* Where a task that was handed to Dispatch is. *)
Places(t) ==
  {<<None, 0>> : x \in {disp.task} \cap {t}}
  \cup {x \in Ports \X (1 .. QueueCap) : x[2] \in DOMAIN queue[x[1]] /\ queue[x[1]][x[2]] = t}
  \cup {<<p, 0>> : p \in {q \in Ports : cur[q] = t}}
  \cup {<<t, k>> : k \in DOMAIN answer[t]}
  \cup {<<t, 0>> : x \in stranded \cap {t}}

Handed(t) == target[t] # None \/ answer[t] # <<>>

(* A task is in exactly one place: on its way to a queue, in one queue, in
   execution, stranded, or answered once. No interleaving of Dispatch, a worker
   that ends, its successor and the drain at shutdown duplicates a task, answers
   it twice or drops it without leaving it in an abandoned queue. *)
OnePlace ==
  \A t \in Tasks : Cardinality(Places(t)) = IF Handed(t) THEN 1 ELSE 0

(* A task the gateway refused, or reported as not executed at shutdown, is never
   executed: the cloud may retry it. A task answered SUCCESS ran exactly once. *)
AnswersAreTrue ==
  \A t \in Tasks :
    /\ answer[t] # <<>> /\ Head(answer[t]) \in {"NACK", "NOT_FOUND"} => ran[t] = 0
    /\ answer[t] # <<>> /\ Head(answer[t]) = "SUCCESS" => ran[t] = 1
    /\ ran[t] <= 1

Holds(p, t) == \E k \in DOMAIN queue[p] : queue[p][k] = t

(* A worker only ever has tasks for the ICCID it is registered under, whatever
   was registered, deregistered or swapped between lookup and send. *)
RoutedToItsSim ==
  \A p \in Ports, t \in Tasks : cur[p] = t \/ Holds(p, t) => target[t] = iccid[p]

(* The registry never leads to a worker that has ended. *)
RegisteredIsRunning ==
  \A s \in Sims :
    registry[s] # None => /\ iccid[registry[s]] = s
                          /\ InLoop(registry[s]) \/ wpc[registry[s]] = "registered"

(* A worker in its main loop can be reached by its ICCID: not in general, see AtHome
   and StaysReachable. *)
RunningIsRegistered ==
  \A p \in Ports : InLoop(p) => registry[iccid[p]] # None

(* A worker that runs with its SIM and is registered under it stays registered, whoever
   fails, restarts or is refused its SIM meanwhile. It can lose its entry only when
   another worker ends that registered under the same SIM before the SIM was moved:
   Deregister does not look whose entry it removes. *)
Reached(p) == InLoop(p) /\ registry[iccid[p]] = p
FormerHolderEnds(p) ==
  \E q \in Ports \ {p} : /\ iccid[q] = iccid[p] /\ simIn[q] # iccid[q]
                         /\ InLoop(q) /\ ~InLoop(q)'
StaysReachable ==
  [][\A p \in Ports :
       Reached(p) /\ simIn[p] = iccid[p] /\ InLoop(p)' =>
         Reached(p)' \/ FormerHolderEnds(p)]_wVars

(* The gauge of active modems never shows fewer than there are, although a worker
   that fails leaves it as it is and its successor counts again. *)
GaugeCoversRunning == gauge >= Cardinality({p \in Ports : InLoop(p)})

(* The invariant behind these. A worker has an ICCID, and may have tasks, from its
   registration to its end; a Dispatch under way either knows that its worker has
   ended or has found the worker of the task's ICCID; and a task is nowhere twice. *)
WorkerInv ==
  \A p \in Ports :
    /\ simIn[p] # None
    /\ iccid[p] = None <=> wpc[p] \in {"start", "init", "backoff", "over"}
    /\ iccid[p] = None => queue[p] = <<>>
    /\ cur[p] # None <=> wpc[p] = "task"

DispInv ==
  IF disp.task = None THEN disp = NoDispatch
  ELSE /\ disp.to # None /\ target[disp.task] # None
       /\ ~disp.gone => target[disp.task] = iccid[disp.to]

QueuedOnce ==
  \A p, q \in Ports : \A k \in DOMAIN queue[p], l \in DOMAIN queue[q] :
    queue[p][k] = queue[q][l] => p = q /\ k = l
ExecutedOnce == \A p, q \in Ports : cur[p] = cur[q] /\ cur[p] # None => p = q

Queued(t) == \E p \in Ports : Holds(p, t)
Executed(t) == \E p \in Ports : cur[p] = t

TaskOK(t) ==
  /\ Len(answer[t]) <= 1 /\ (answer[t] = <<>> => ran[t] = 0)
  /\ disp.task = t => ~Queued(t) /\ ~Executed(t)
  /\ Queued(t) => ~Executed(t)
  /\ disp.task = t \/ Queued(t) \/ Executed(t) => t \notin stranded /\ answer[t] = <<>>
  /\ t \in stranded => answer[t] = <<>>
  /\ Handed(t) <=> \/ disp.task = t \/ Queued(t) \/ Executed(t)
                   \/ t \in stranded \/ answer[t] # <<>>
TaskInv == \A t \in Tasks : TaskOK(t)

WInv == /\ WorkersTypeOK /\ WorkerInv /\ DispInv /\ QueuedOnce /\ ExecutedOnce /\ TaskInv
        /\ RegisteredIsRunning /\ RoutedToItsSim /\ AnswersAreTrue

(* As long as no SIM has changed its modem, and with an expected_iccid on every port
   whatever happens, a worker only ever registers under the SIM of its port. No SIM is
   ever in two modems. *)
AtHome == Guarded = Ports \/ faults["swap"] = MaxSwaps
HomeInv ==
  /\ Injective(simIn)
  /\ faults["swap"] <= MaxSwaps
  /\ faults["swap"] = MaxSwaps => simIn = HomeSim
  /\ AtHome => \A p \in Ports :
                 /\ iccid[p] \in {None, HomeSim[p]}
                 /\ InLoop(p) \/ wpc[p] = "registered" => registry[HomeSim[p]] = p

(* As long as no watchdog has fired, a worker that is BANNED has nothing left to do
   but to end, and no task will restore that state. *)
BanOK(p) ==
  /\ wd[p] # "fire"
  /\ wstate[p] = "BANNED" => wpc[p] \in {"check", "over"}
  /\ wpc[p] = "task" => prev[p] # "BANNED"
BanInv ==
  /\ faults["stall"] <= MaxStalls
  /\ faults["stall"] = MaxStalls => \A p \in Ports : BanOK(p)

(* All of it: what the proofs carry from step to step. *)
WorkersInv == WInv /\ HomeInv /\ BanInv

(* A SIM that was refused by the network is left alone: the state is final and
   the supervisor starts no other worker on the port. *)
BannedIsFinal ==
  [][\A p \in Ports : wstate[p] = "BANNED" =>
       wstate'[p] = "BANNED" /\ wpc'[p] # "start"]_wVars

(* Every task handed to Dispatch is answered, or left in the queue of a worker
   that has ended: none waits for ever in a queue that is served, whatever fails. *)
AnsweredOrStranded ==
  \A t \in Tasks : Handed(t) ~> (answer[t] # <<>> \/ t \in stranded)

(* The supervisor brings a failed modem back into service. *)
Restarted == \A p \in Ports : wpc[p] = "backoff" ~> (wpc[p] = "loop" \/ ctxDone)

(* A worker the watchdog has declared stuck ends, so that it can be replaced. *)
StallEndsWorker == \A p \in Ports : p \in fired ~> p \notin fired

(* At shutdown every supervisor returns. *)
ShutdownCompletes == ctxDone ~> \A p \in Ports : wpc[p] = "over"
=============================================================================
