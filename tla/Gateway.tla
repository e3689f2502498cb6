------------------------------- MODULE Gateway ------------------------------
(***************************************************************************)
(* The gateway's life cycle (internal/gateway Run, internal/safe, cmd):    *)
(* the goroutines that Run and the tunnel start, those counted by the      *)
(* WaitGroup and those that are not, the statements they send to the       *)
(* buffer, the 30-second timer and the closing of the buffer. The work of  *)
(* a worker, of the tunnel and of the requests are in other modules: here  *)
(* they end, may be slow and may panic.                                    *)
(***************************************************************************)
EXTENDS FiniteSets

CONSTANT Modems

Counted == Modems \cup {"tunnel-manager", "metrics-server"}

(* Started with safe.Go, which counts nothing. *)
Scraper == "queue-depth-scraper"
Flush == "tunnel-flush" \* the two flushes and the purge of a session
Goroutines == Counted \cup {Scraper, Flush}

ASSUME GatewayAssumption == Scraper \notin Counted /\ Flush \notin Counted

VARIABLES ctxDone,   \* SIGINT or SIGTERM arrived
          routine,   \* [Goroutines -> life of the goroutine]
          counter,   \* the goroutines the WaitGroup counts
          timerUp,   \* time.After(shutdownTimeout) has fired
          watcherDone, \* shutdown-watcher has closed done
          main,      \* Run and main.run
          bufOpen,   \* the SQLite buffer is open
          usedClosed \* history: goroutines that used the buffer after it was closed

gwVars == <<ctxDone, routine, counter, timerUp, watcherDone, main, bufOpen, usedClosed>>

GwTypeOK ==
  /\ ctxDone \in BOOLEAN /\ routine \in [Goroutines -> {"new", "running", "ended"}]
  /\ counter \in SUBSET Counted /\ timerUp \in BOOLEAN /\ watcherDone \in BOOLEAN
  /\ main \in {"starting", "waiting", "closing", "closed", "exited"} /\ bufOpen \in BOOLEAN
  /\ usedClosed \in SUBSET Goroutines

(* gateway.New has opened the buffer. *)
GwInit ==
  /\ ctxDone = FALSE /\ routine = [g \in Goroutines |-> "new"] /\ counter = {}
  /\ timerUp = FALSE /\ watcherDone = FALSE /\ main = "starting" /\ bufOpen = TRUE
  /\ usedClosed = {}

(* wg.Add(1) and safe.GoWithWaitGroup, or safe.Go for the scraper. *)
LaunchUncounted(g) ==
  /\ main = "starting" /\ routine[g] = "new"
  /\ routine' = [routine EXCEPT ![g] = "running"]
  /\ counter' = IF g \in Modems \cup {"metrics-server"} THEN counter \cup {g} ELSE counter
  /\ UNCHANGED <<ctxDone, timerUp, watcherDone, main, bufOpen, usedClosed>>

Launch(g) ==
  /\ main = "starting" /\ routine[g] = "new"
  /\ routine' = [routine EXCEPT ![g] = "running"]
  /\ counter' = IF g \in Counted THEN counter \cup {g} ELSE counter
  /\ UNCHANGED <<ctxDone, timerUp, watcherDone, main, bufOpen, usedClosed>>

(* runSession of the tunnel: one flush of each session, which the manager does not
   wait for when the session, or the manager itself, ends. *)
StartSession ==
  /\ main # "exited" /\ routine["tunnel-manager"] = "running"
  /\ routine[Flush] # "running" /\ routine' = [routine EXCEPT ![Flush] = "running"]
  /\ UNCHANGED <<ctxDone, counter, timerUp, watcherDone, main, bufOpen, usedClosed>>

(* The final select is reached when everything has been started. *)
AllStarted ==
  /\ main = "starting" /\ \A g \in Counted \cup {Scraper} : routine[g] # "new"
  /\ main' = "waiting"
  /\ UNCHANGED <<ctxDone, routine, counter, timerUp, watcherDone, bufOpen, usedClosed>>

(* A goroutine ends after the context, or on its own: a port that cannot be listened
   on, a banned SIM, a panic that safe recovers. Its deferred Done runs last. *)
Ends(g) ==
  /\ main # "exited" /\ routine[g] = "running"
  /\ routine' = [routine EXCEPT ![g] = "ended"]
  /\ counter' = counter \ {g}
  /\ UNCHANGED <<ctxDone, timerUp, watcherDone, main, bufOpen, usedClosed>>

(* A statement that a worker, the tunnel, a flush or the scraper sends to the buffer
   once it is closed, which the buffer refuses. *)
Statement(g) ==
  /\ main # "exited" /\ routine[g] = "running" /\ g # "metrics-server"
  /\ ~bufOpen /\ usedClosed' = usedClosed \cup {g}
  /\ UNCHANGED <<ctxDone, routine, counter, timerUp, watcherDone, main, bufOpen>>

Terminate == /\ ~ctxDone /\ ctxDone' = TRUE
             /\ UNCHANGED <<routine, counter, timerUp, watcherDone, main, bufOpen, usedClosed>>

(* shutdown-watcher: wg.Wait, then close(done). *)
ShutdownWatcher ==
  /\ main = "waiting" /\ ~watcherDone /\ counter = {} /\ watcherDone' = TRUE
  /\ UNCHANGED <<ctxDone, routine, counter, timerUp, main, bufOpen, usedClosed>>

(* time.After: the time counts from the select, whether or not the context has ended. *)
TimerFires ==
  /\ main = "waiting" /\ ~timerUp /\ timerUp' = TRUE
  /\ UNCHANGED <<ctxDone, routine, counter, watcherDone, main, bufOpen, usedClosed>>

LeaveSelectOnDone ==
  /\ main = "waiting" /\ watcherDone
  /\ main' = "closing"
  /\ UNCHANGED <<ctxDone, routine, counter, timerUp, watcherDone, bufOpen, usedClosed>>
LeaveSelect ==
  /\ main = "waiting" /\ (watcherDone \/ timerUp)
  /\ main' = "closing"
  /\ UNCHANGED <<ctxDone, routine, counter, timerUp, watcherDone, bufOpen, usedClosed>>

(* buf.Close. *)
CloseBuffer ==
  /\ main = "closing"
  /\ bufOpen' = FALSE /\ main' = "closed"
  /\ UNCHANGED <<ctxDone, routine, counter, timerUp, watcherDone, usedClosed>>

(* Run returns and with it main.run: the process ends, and every goroutine with it. *)
Exit ==
  /\ main = "closed" /\ main' = "exited"
  /\ UNCHANGED <<ctxDone, routine, counter, timerUp, watcherDone, bufOpen, usedClosed>>

Run == AllStarted \/ LeaveSelect \/ CloseBuffer \/ Exit
         \/ \E g \in Counted \cup {Scraper} : Launch(g)
GwNext == \/ Run \/ Terminate \/ ShutdownWatcher \/ TimerFires \/ StartSession
          \/ \E g \in Goroutines : Ends(g) \/ Statement(g)
GwSpec == GwInit /\ [][GwNext]_gwVars

-----------------------------------------------------------------------------
(* The buffer is closed under a worker or the tunnel manager only by the timeout:
   otherwise they have ended before, on their own, by a panic or at shutdown, and no
   message of theirs meets a closed buffer. That is not so of what Run does not wait
   for, the scraper and the flushes of a session: they may use it when it is closed. *)
BufferOutlivesUsers == ~timerUp =>
  /\ usedClosed \subseteq {Scraper, Flush}
  /\ ~bufOpen => \A g \in Counted : routine[g] = "ended"

(* A worker or a tunnel that never ends does not keep the process from ending once
   it has been told to, which it is for good: "so we don't hang the process
   indefinitely". *)
ExitsWhenTold == []<>(ctxDone => main = "exited")

(* "Run starts all goroutines and blocks until ctx is canceled": the process does
   not end before it is told to while a worker, the tunnel or the metrics server
   still runs. *)
BlocksUntilCanceled ==
  main = "exited" => (ctxDone \/ \A g \in Counted : routine[g] = "ended")

(* The inductive invariant: the wait group counts the goroutines that run, all of
   them are started before Run waits, and Run closes the buffer last. *)
GwInv ==
  /\ GwTypeOK
  /\ counter = {g \in Counted : routine[g] = "running"}
  /\ main # "starting" => \A g \in Counted : routine[g] # "new"
  /\ watcherDone => \A g \in Counted : routine[g] = "ended"
  /\ main \in {"closing", "closed", "exited"} => watcherDone \/ timerUp
  /\ bufOpen \/ main \in {"closed", "exited"}
  /\ usedClosed \subseteq {Scraper, Flush} \/ timerUp
=============================================================================
