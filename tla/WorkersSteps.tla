---------------------------- MODULE WorkersSteps ----------------------------
(* Every step of Workers keeps the types, and every step of a worker keeps the
   invariant, for every value of the constants. *)
EXTENDS Workers, TLAPS

(* Where a worker has no ICCID, and where it can be reached. *)
Outside == {"start", "init", "backoff", "over"}
Reachable == Handlers \cup {"registered", "loop", "check"}
Pcs == Outside \cup Reachable \cup {"drain"}

-----------------------------------------------------------------------------
(* Types. *)

(* The faults that may still happen are numbers, and only become fewer. *)
LEMMA FaultType ==
  ASSUME WorkersTypeOK, NEW kind \in FaultKinds, Fault(kind)
  PROVE  faults' \in [FaultKinds -> Nat]
  BY DEF WorkersTypeOK, Fault

(* A command that is answered or fails. *)
LEMMA AtType ==
  ASSUME WorkersTypeOK, NEW p \in Ports, AtOK(p) \/ AtFails(p)
  PROVE  faults' \in [FaultKinds -> Nat] /\ open' \in [Ports -> BOOLEAN]
<1>1. CASE UNCHANGED <<open, faults>>
  BY <1>1, Zenon DEF WorkersTypeOK
<1>2. CASE Fault("at") /\ open' \in {open, [open EXCEPT ![p] = FALSE]}
  BY <1>2, FaultType, Zenon DEF WorkersTypeOK, FaultKinds
<1> QED  BY <1>1, <1>2, Zenon DEF AtOK, AtFails

(* An answer to a task that has none. *)
LEMMA AckStep ==
  ASSUME WorkersTypeOK, NEW t \in Tasks, NEW status \in Answers, Ack(t, status)
  PROVE  /\ answer' \in [Tasks -> Seq(Answers)]
         /\ answer[t] = <<>> => /\ answer'[t] # <<>> /\ Len(answer'[t]) <= 1
                                /\ Head(answer'[t]) = status
         /\ \A u \in Tasks : u # t => answer'[u] = answer[u]
  BY DEF WorkersTypeOK, Ack

(* What the end of a worker does to the types. *)
LEMMA ExitType ==
  ASSUME WorkersTypeOK, NEW p \in Ports, NEW next \in Outside, Exit(p, next)
  PROVE  /\ wpc' \in [Ports -> Pcs]
         /\ stranded' \subseteq Tasks
         /\ queue' \in [Ports -> Seq(Tasks)] /\ \A q \in Ports : Len(queue'[q]) <= QueueCap
         /\ wd' \in [Ports -> {"off", "watch", "fire"}]
         /\ resetReq' \in [Ports -> BOOLEAN]
         /\ iccid' \in [Ports -> Sims \cup {None}]
         /\ disp' \in [task : Tasks \cup {None}, to : Ports \cup {None}, gone : BOOLEAN]
         /\ fired' \subseteq Ports
<1>1. wpc' \in [Ports -> Pcs]
  BY Zenon DEF WorkersTypeOK, Exit, Pcs, Outside, Reachable, Handlers
<1>2. stranded' \subseteq Tasks
  BY DEF WorkersTypeOK, Exit
<1>3. queue' \in [Ports -> Seq(Tasks)] /\ \A q \in Ports : Len(queue'[q]) <= QueueCap
  BY WorkersAssumption, SMTT(20) DEF WorkersTypeOK, Exit
<1>4. disp' \in [task : Tasks \cup {None}, to : Ports \cup {None}, gone : BOOLEAN]
  BY Zenon DEF WorkersTypeOK, Exit
<1> QED  BY <1>1, <1>2, <1>3, <1>4, Zenon DEF WorkersTypeOK, Exit

(* The places of a worker, as WorkersTypeOK lists them. *)
LEMMA PcsAre == Pcs = Handlers \cup {"start", "init", "registered", "loop", "check",
                                     "drain", "backoff", "over"}
  BY Zenon DEF Pcs, Outside, Reachable

(* The steps of a worker that leave its queue and the answers alone. *)
LEMMA QuietTypes ==
  ASSUME WInv, NEW p \in Ports,
         \/ OpenPort(p) \/ InitSequence(p) \/ InitFails(p) \/ Activate(p) \/ Restart(p)
         \/ TurnBegins(p) \/ TurnEnds(p) \/ KeepaliveDenied(p) \/ KeepaliveFails(p)
         \/ RecoverySucceeds(p) \/ RecoveryFails(p) \/ ResetBegins(p) \/ ResetEnds(p)
         \/ Continues(p) \/ ShutdownBegins(p) \/ WatchdogDetects(p) \/ WatchdogStores(p)
  PROVE  WorkersTypeOK'
<1> USE DEF WInv, WorkersTypeOK, States, Handlers, taskVars
<1>1. CASE OpenPort(p)
  <2>1. wpc' \in [Ports -> Handlers \cup {"start", "init", "registered", "loop", "check",
                                         "drain", "backoff", "over"}]
    <3>1. AfterRun("FAILED") \in {"over", "backoff"}
      BY Zenon DEF AfterRun
    <3>2. \E x \in {"init", "over", "backoff"} : wpc' = [wpc EXCEPT ![p] = x]
      BY <1>1, <3>1, Zenon DEF OpenPort
    <3> QED  BY <3>2, Zenon
  <2>2. wstate' \in [Ports -> States] /\ open' \in [Ports -> BOOLEAN]
    <3>1. wstate' = wstate \/ wstate' = [wstate EXCEPT ![p] = "FAILED"]
      BY <1>1, Zenon DEF OpenPort
    <3>2. open' = open \/ open' = [open EXCEPT ![p] = TRUE]
      BY <1>1, Zenon DEF OpenPort
    <3> QED  BY <3>1, <3>2, ZenonT(30) DEF States
  <2>3. faults' \in [FaultKinds -> Nat]
    BY <1>1, FaultType, Zenon DEF OpenPort, FaultKinds
  <2> QED  BY <1>1, <2>1, <2>2, <2>3, Zenon DEF OpenPort
<1>2. CASE InitSequence(p)
  BY <1>2, AtType, Zenon DEF InitSequence, WorkerInv
<1>3. CASE InitFails(p)
  BY <1>3, AtType, Zenon DEF InitFails, AfterRun
<1>4. CASE Activate(p)
  BY <1>4 DEF Activate
<1>5. CASE Restart(p)
  <2>1. wpc' \in [Ports -> Handlers \cup {"start", "init", "registered", "loop", "check",
                                         "drain", "backoff", "over"}]
    BY <1>5 DEF Restart
  <2>2. wstate' \in [Ports -> States]
    BY <1>5, Zenon DEF Restart
  <2> QED  BY <1>5, <2>1, <2>2, Zenon DEF Restart
<1>6. CASE TurnBegins(p)
  BY <1>6, Zenon DEF TurnBegins
<1>7. CASE TurnEnds(p)
  BY <1>7, AtType, Zenon DEF TurnEnds
<1>8. CASE KeepaliveDenied(p)
  BY <1>8, FaultType, Zenon DEF KeepaliveDenied, FaultKinds
<1>9. CASE KeepaliveFails(p)
  BY <1>9, AtType, Zenon DEF KeepaliveFails
<1>10. CASE RecoverySucceeds(p)
  BY <1>10, AtType, Zenon DEF RecoverySucceeds
<1>11. CASE RecoveryFails(p)
  BY <1>11, AtType, Zenon DEF RecoveryFails
<1>12. CASE ResetBegins(p)
  BY <1>12, Zenon DEF ResetBegins
<1>13. CASE ResetEnds(p)
  BY <1>13, AtType, ZenonT(30) DEF ResetEnds
<1>14. CASE Continues(p)
  BY <1>14, Zenon DEF Continues
<1>15. CASE ShutdownBegins(p)
  BY <1>15, Zenon DEF ShutdownBegins, Deregister
<1>16. CASE WatchdogDetects(p)
  BY <1>16, FaultType, Zenon DEF WatchdogDetects, FaultKinds
<1>17. CASE WatchdogStores(p)
  BY <1>17, SMTT(20) DEF WatchdogStores
<1> QED
  BY <1>1, <1>2, <1>3, <1>4, <1>5, <1>6, <1>7, <1>8, <1>9, <1>10, <1>11, <1>12, <1>13,
     <1>14, <1>15, <1>16, <1>17, Zenon

(* The steps that move a task. *)
LEMMA MovingTypes ==
  ASSUME WInv, NEW p \in Ports,
         TaskBegins(p) \/ TaskEnds(p) \/ DrainOne(p) \/ Terminates(p) \/ DrainEnds(p)
  PROVE  WorkersTypeOK'
<1> USE DEF WInv, WorkersTypeOK, taskVars
<1>1. CASE TaskBegins(p)
  <2>1. /\ Head(queue[p]) \in Tasks
        /\ Tail(queue[p]) \in Seq(Tasks) /\ Len(Tail(queue[p])) <= QueueCap
    BY <1>1, WorkersAssumption DEF TaskBegins
  <2>2. /\ cur' \in [Ports -> Tasks \cup {None}]
        /\ queue' \in [Ports -> Seq(Tasks)] /\ \A q \in Ports : Len(queue'[q]) <= QueueCap
    BY <1>1, <2>1, SMTT(20) DEF TaskBegins
  <2> QED  BY <1>1, <2>2, Zenon DEF TaskBegins, States, Handlers
<1>2. CASE TaskEnds(p)
  <2>1. cur[p] \in Tasks
    BY <1>2 DEF TaskEnds, WorkerInv
  <2>2. answer' \in [Tasks -> Seq(Answers)]
    BY <1>2, <2>1, AckStep, Zenon DEF TaskEnds, Answers
  <2>3. ran' \in [Tasks -> Nat]
    BY <1>2, <2>1 DEF TaskEnds
  <2>4. faults' \in [FaultKinds -> Nat] /\ open' \in [Ports -> BOOLEAN]
    BY <1>2, AtType, Zenon DEF TaskEnds
  <2>5. wpc' \in [Ports -> Pcs] /\ wstate' \in [Ports -> States]
        /\ cur' \in [Ports -> Tasks \cup {None}]
    BY <1>2, PcsAre, Zenon DEF TaskEnds
  <2> QED  BY <1>2, <2>2, <2>3, <2>4, <2>5, PcsAre, Zenon DEF TaskEnds
<1>3. CASE DrainOne(p)
  <2>1. /\ Head(queue[p]) \in Tasks
        /\ Tail(queue[p]) \in Seq(Tasks) /\ Len(Tail(queue[p])) <= QueueCap
    BY <1>3, WorkersAssumption DEF DrainOne
  <2>2. answer' \in [Tasks -> Seq(Answers)]
    BY <1>3, <2>1, AckStep, SMTT(20) DEF DrainOne, Answers
  <2>3. queue' \in [Ports -> Seq(Tasks)] /\ \A q \in Ports : Len(queue'[q]) <= QueueCap
    BY <1>3, <2>1, Zenon DEF DrainOne
  <2> QED  BY <1>3, <2>2, <2>3, Zenon DEF DrainOne
<1>4. CASE Terminates(p)
  <2>1. Exit(p, AfterRun(wstate[p])) /\ AfterRun(wstate[p]) \in Outside
    BY <1>4, Zenon DEF Terminates, AfterRun, Outside
  <2>2. registry' \in [Sims -> Ports \cup {None}]
    BY <1>4, Zenon DEF Terminates, Deregister
  <2> QED  BY <1>4, <2>1, <2>2, ExitType, PcsAre, Zenon DEF Terminates
<1>5. CASE DrainEnds(p)
  <2>1. Exit(p, "over") /\ "over" \in Outside
    BY <1>5, Zenon DEF DrainEnds, Outside
  <2>2. gauge' \in Int /\ open' \in [Ports -> BOOLEAN]
    BY <1>5 DEF DrainEnds
  <2> QED  BY <1>5, <2>1, <2>2, ExitType, PcsAre, Zenon DEF DrainEnds
<1> QED  BY <1>1, <1>2, <1>3, <1>4, <1>5, Zenon

(* The steps of Dispatch. *)
LEMMA DispatchTypes ==
  ASSUME WInv,
         \/ \E t \in Tasks : DispatchMalformed(t)
         \/ \E t \in Tasks, s \in Sims : DispatchLookup(t, s)
         \/ DispatchSend
  PROVE  WorkersTypeOK'
<1> USE DEF WInv, WorkersTypeOK, portVars
<1>1. ASSUME NEW t \in Tasks, DispatchMalformed(t)  PROVE WorkersTypeOK'
  BY <1>1, AckStep, Zenon DEF DispatchMalformed, Answers
<1>2. ASSUME NEW t \in Tasks, NEW s \in Sims, DispatchLookup(t, s)  PROVE WorkersTypeOK'
  <2>1. answer' \in [Tasks -> Seq(Answers)]
    BY <1>2, AckStep, Zenon DEF DispatchLookup, Answers
  <2>2. disp' \in [task : Tasks \cup {None}, to : Ports \cup {None}, gone : BOOLEAN]
    <3>1. registry[s] \in Ports \cup {None}
      BY Zenon
    <3>2. disp' = disp \/ (registry[s] # None /\ disp'
          = [task |-> t, to |-> registry[s], gone |-> FALSE])
      BY <1>2, Zenon DEF DispatchLookup
    <3>3. [task |-> t, to |-> registry[s], gone |-> FALSE]
             \in [task : Tasks \cup {None}, to : Ports \cup {None}, gone : BOOLEAN]
      BY <1>2, <3>1, Zenon
    <3>4. disp \in [task : Tasks \cup {None}, to : Ports \cup {None}, gone : BOOLEAN]
      BY Zenon
    <3> QED  BY <3>2, <3>3, <3>4, Zenon
  <2>3. target' \in [Tasks -> Sims \cup {None}]
    BY <1>2, Zenon DEF DispatchLookup
  <2> QED  BY <1>2, <2>1, <2>2, <2>3, SMTT(20) DEF DispatchLookup
<1>3. ASSUME DispatchSend  PROVE WorkersTypeOK'
  <2>1. disp.task \in Tasks /\ disp.to \in Ports
    BY <1>3, Zenon DEF DispatchSend, DispInv
  <2>2. answer' \in [Tasks -> Seq(Answers)]
    BY <1>3, <2>1, AckStep, Zenon DEF DispatchSend, Answers
  <2>3. queue' \in [Ports -> Seq(Tasks)] /\ \A q \in Ports : Len(queue'[q]) <= QueueCap
    <3>1. CASE UNCHANGED queue
      BY <3>1, Zenon
    <3>2. CASE /\ Len(queue[disp.to]) < QueueCap
               /\ queue' = [queue EXCEPT ![disp.to] = Append(@, disp.task)]
      <4>1. /\ Append(queue[disp.to], disp.task) \in Seq(Tasks)
            /\ Len(Append(queue[disp.to], disp.task)) <= QueueCap
        BY <2>1, <3>2, WorkersAssumption
      <4> QED  BY <2>1, <3>2, <4>1, Zenon
    <3> QED  BY <1>3, <3>1, <3>2, Zenon DEF DispatchSend
  <2>4. stranded' \subseteq Tasks
    BY <1>3, <2>1 DEF DispatchSend
  <2>5. disp' \in [task : Tasks \cup {None}, to : Ports \cup {None}, gone : BOOLEAN]
    BY <1>3, Zenon DEF DispatchSend, NoDispatch
  <2> QED  BY <1>3, <2>2, <2>3, <2>4, <2>5, Zenon DEF DispatchSend
<1> QED  BY <1>1, <1>2, <1>3, Zenon

(* The steps of the world around. *)
LEMMA OtherTypes ==
  ASSUME WInv,
         \/ \E s \in Sims : RequestReset(s)
         \/ \E p, q \in Ports : SwapSims(p, q)
         \/ Sigterm
  PROVE  WorkersTypeOK'
<1> USE DEF WInv, WorkersTypeOK, portVars, taskVars
<1>1. ASSUME NEW s \in Sims, RequestReset(s)  PROVE WorkersTypeOK'
  BY <1>1, FaultType, Zenon DEF RequestReset, FaultKinds
<1>2. ASSUME NEW p \in Ports, NEW q \in Ports, SwapSims(p, q)  PROVE WorkersTypeOK'
  BY <1>2, FaultType, Zenon DEF SwapSims, FaultKinds
<1>3. ASSUME Sigterm  PROVE WorkersTypeOK'
  BY <1>3, FaultType, Zenon DEF Sigterm, FaultKinds
<1> QED  BY <1>1, <1>2, <1>3, Zenon

(* Every step keeps the types. *)
LEMMA TypesPreserved ==
  ASSUME WInv, [WorkersNext]_wVars
  PROVE  WorkersTypeOK'
<1>1. CASE UNCHANGED wVars
  BY <1>1, Zenon DEF WInv, WorkersTypeOK, wVars, portVars, taskVars
<1>2. CASE WorkersNext
  BY <1>2, QuietTypes, MovingTypes, DispatchTypes, OtherTypes, Zenon DEF WorkersNext,
     WorkerStep
<1> QED  BY <1>1, <1>2, Zenon

-----------------------------------------------------------------------------
(* Steps that move no task. *)

(* A worker may move, but only where the same is true of it as before. *)
Stays ==
  \A p \in Ports : /\ wpc'[p] \in Outside <=> wpc[p] \in Outside
                   /\ wpc'[p] \in Reachable <=> wpc[p] \in Reachable
                   /\ wpc'[p] = "task" <=> wpc[p] = "task"

(* Nothing that concerns a task or the registry changes. *)
PlainStep ==
  /\ UNCHANGED <<iccid, queue, cur, registry, disp, taskVars>>
  /\ Stays
  /\ \A p \in Ports : simIn'[p] # None

(* The steps of a worker of this kind. *)
Plain(p) ==
  \/ OpenPort(p) \/ InitFails(p) \/ Activate(p) \/ Restart(p)
  \/ TurnBegins(p) \/ TurnEnds(p) \/ KeepaliveDenied(p) \/ KeepaliveFails(p)
  \/ RecoverySucceeds(p) \/ RecoveryFails(p) \/ ResetBegins(p) \/ ResetEnds(p)
  \/ Continues(p) \/ WatchdogDetects(p) \/ WatchdogStores(p)

(* A worker that moves among the places where it has no ICCID, or where it is reachable. *)
LEMMA Move ==
  ASSUME WorkersTypeOK, NEW p \in Ports, NEW x \in Pcs, wpc' = [wpc EXCEPT ![p] = x],
         \/ x \in Outside /\ wpc[p] \in Outside
         \/ x \in Reachable \ {"task"} /\ wpc[p] \in Reachable \ {"task"}
  PROVE  Stays
  BY Zenon DEF WorkersTypeOK, Stays, Outside, Reachable, Handlers

(* They are. *)
LEMMA PlainSteps ==
  ASSUME WInv, NEW p \in Ports, Plain(p)
  PROVE  PlainStep
<1>1. UNCHANGED <<iccid, queue, cur, registry, disp, taskVars>> /\ UNCHANGED simIn
  BY Zenon DEF Plain, OpenPort, InitFails, Activate, Restart, TurnBegins, TurnEnds,
     KeepaliveDenied,
         KeepaliveFails, RecoverySucceeds, RecoveryFails, ResetBegins, ResetEnds, Continues,
         WatchdogDetects, WatchdogStores
<1>2. Stays
  <2>1. CASE UNCHANGED wpc
    BY <2>1, Zenon DEF Stays
  <2>2. CASE \E x \in {"start", "init", "backoff", "over"} :
               wpc' = [wpc EXCEPT ![p] = x] /\ wpc[p] \in Outside
    BY <2>2, Move, Zenon DEF WInv, Outside, Pcs
  <2>3. CASE \E x \in {"turn", "recover", "reset", "loop", "check"} :
               /\ wpc' = [wpc EXCEPT ![p] = x]
               /\ wpc[p] \in {"turn", "recover", "reset", "loop", "check", "registered"}
    BY <2>3, Move, Zenon DEF WInv, Reachable, Handlers, Pcs
  <2>4. CASE OpenPort(p) \/ InitFails(p) \/ Restart(p)
    <3>1. \A f : AfterRun(f) \in {"over", "backoff"}
      BY Zenon DEF AfterRun
    <3> QED  BY <2>2, <2>4, <3>1, Zenon DEF OpenPort, InitFails, Restart, Outside
  <2>5. CASE Activate(p) \/ TurnBegins(p) \/ TurnEnds(p) \/ KeepaliveDenied(p)
             \/ Continues(p)
    BY <2>3, <2>5, Zenon DEF Activate, TurnBegins, TurnEnds, KeepaliveDenied, Continues
  <2>6. CASE \/ KeepaliveFails(p) \/ RecoverySucceeds(p) \/ RecoveryFails(p)
             \/ ResetBegins(p) \/ ResetEnds(p)
    BY <2>3, <2>6, Zenon DEF KeepaliveFails, RecoverySucceeds, RecoveryFails, ResetBegins,
       ResetEnds
  <2>7. CASE WatchdogDetects(p) \/ WatchdogStores(p)
    BY <2>1, <2>7, Zenon DEF WatchdogDetects, WatchdogStores
  <2> QED  BY <2>4, <2>5, <2>6, <2>7, Zenon DEF Plain
<1> QED  BY <1>1, <1>2, Zenon DEF PlainStep, WInv, WorkerInv

(* The steps of the world around are of this kind too. *)
LEMMA OtherPlainSteps ==
  ASSUME WInv,
         \/ \E s \in Sims : RequestReset(s)
         \/ \E p, q \in Ports : SwapSims(p, q)
         \/ Sigterm
         \/ UNCHANGED wVars
  PROVE  PlainStep
<1>1. UNCHANGED <<wpc, iccid, queue, cur, registry, disp, taskVars>>
  BY Zenon DEF RequestReset, SwapSims, Sigterm, wVars, portVars
<1>2. \A p \in Ports : simIn'[p] # None
  <2>1. CASE UNCHANGED simIn
    BY <2>1, Zenon DEF WInv, WorkerInv
  <2>2. ASSUME NEW p \in Ports, NEW q \in Ports, SwapSims(p, q)
        PROVE  \A r \in Ports : simIn'[r] # None
    BY <2>2, Zenon DEF SwapSims, WInv, WorkerInv, WorkersTypeOK
  <2> QED  BY <2>1, <2>2, Zenon DEF RequestReset, Sigterm, wVars
<1> QED  BY <1>1, <1>2, Zenon DEF PlainStep, Stays

(* Where no task moves, all that is said of tasks stays true. *)
LEMMA TasksStay ==
  ASSUME WInv, UNCHANGED <<queue, cur, disp, taskVars>>
  PROVE  QueuedOnce' /\ ExecutedOnce' /\ TaskInv' /\ AnswersAreTrue'
<1>1. QueuedOnce' /\ ExecutedOnce' /\ AnswersAreTrue'
  BY DEF WInv, taskVars, QueuedOnce, ExecutedOnce, AnswersAreTrue
<1>2. TaskInv'
  BY DEF WInv, taskVars, TaskInv, TaskOK, Queued, Executed, Holds, Handed
<1> QED  BY <1>1, <1>2, Zenon

(* WInv without the types. *)
Rest == /\ WorkerInv /\ DispInv /\ QueuedOnce /\ ExecutedOnce /\ TaskInv
        /\ RegisteredIsRunning /\ RoutedToItsSim /\ AnswersAreTrue

(* A step of this kind keeps the invariant. *)
LEMMA PlainKeeps ==
  ASSUME WInv, PlainStep
  PROVE  Rest'
<1> USE DEF WInv, PlainStep, taskVars
<1>1. WorkerInv'
  BY Zenon DEF WorkerInv, Stays, Outside
<1>2. RegisteredIsRunning'
  <2>1. \A p \in Ports : wpc'[p] \in Reachable <=> wpc[p] \in Reachable
    BY Zenon DEF Stays
  <2> QED  BY <2>1 DEF RegisteredIsRunning, InLoop, Reachable, WorkersTypeOK
<1>3. DispInv' /\ RoutedToItsSim'
  BY Zenon DEF DispInv, RoutedToItsSim, Holds
<1>4. QueuedOnce' /\ ExecutedOnce' /\ TaskInv' /\ AnswersAreTrue'
  BY TasksStay, Zenon
<1> QED  BY <1>1, <1>2, <1>3, <1>4, Zenon DEF Rest

-----------------------------------------------------------------------------
(* What a queue holds after the operations on its channel. *)

(* A task is received from the channel. *)
LEMMA Taken ==
  ASSUME WorkersTypeOK, QueuedOnce, NEW p \in Ports, queue[p] # <<>>,
         queue' = [queue EXCEPT ![p] = Tail(@)]
  PROVE  /\ QueuedOnce'
         /\ Head(queue[p]) \in Tasks /\ Holds(p, Head(queue[p]))
         /\ \A q \in Ports, t \in Tasks :
              Holds(q, t)' <=> Holds(q, t) /\ ~(q = p /\ t = Head(queue[p]))
         /\ \A t \in Tasks : Queued(t)' <=> Queued(t) /\ t # Head(queue[p])
<1>1. /\ queue \in [Ports -> Seq(Tasks)] /\ Len(queue[p]) >= 1
      /\ Head(queue[p]) = queue[p][1] /\ 1 \in DOMAIN queue[p]
  BY DEF WorkersTypeOK
<1>2. \A q \in Ports : q # p => queue'[q] = queue[q]
  BY <1>1, Zenon
<1>3. /\ DOMAIN queue'[p] = 1 .. (Len(queue[p]) - 1)
      /\ \A k \in DOMAIN queue'[p] : k + 1 \in DOMAIN queue[p]
           /\ queue'[p][k] = queue[p][k + 1]
      /\ \A k \in DOMAIN queue[p] : k = 1 \/ k - 1 \in DOMAIN queue'[p]
      /\ \A k \in DOMAIN queue[p] \cup DOMAIN queue'[p] : k \in Int
  BY <1>1
<1>4. QueuedOnce'
  BY <1>2, <1>3 DEF QueuedOnce
<1>5. Head(queue[p]) \in Tasks /\ Holds(p, Head(queue[p]))
  BY <1>1 DEF Holds
<1>6. ASSUME NEW q \in Ports, NEW t \in Tasks
      PROVE  Holds(q, t)' <=> Holds(q, t) /\ ~(q = p /\ t = Head(queue[p]))
  <2>1. CASE q # p
    BY <1>2, <2>1, Zenon DEF Holds
  <2>2. CASE q = p
    <3>1. ASSUME NEW k \in DOMAIN queue'[p], queue'[p][k] = t
          PROVE  Holds(p, t) /\ t # Head(queue[p])
      <4>1. k + 1 \in DOMAIN queue[p] /\ queue[p][k + 1] = t /\ k + 1 # 1
        BY <1>3, <3>1
      <4> QED  BY <1>1, <4>1 DEF Holds, QueuedOnce
    <3>2. ASSUME NEW k \in DOMAIN queue[p], queue[p][k] = t, t # Head(queue[p])
          PROVE  \E j \in DOMAIN queue'[p] : queue'[p][j] = t
      <4>1. k - 1 \in DOMAIN queue'[p] /\ (k - 1) + 1 = k
        BY <1>1, <1>3, <3>2
      <4> QED  BY <1>3, <3>2, <4>1, Zenon
    <3> QED  BY <2>2, <3>1, <3>2, Zenon DEF Holds
  <2> QED  BY <2>1, <2>2, Zenon
<1>7. \A q \in Ports : Holds(q, Head(queue[p])) => q = p
  BY <1>1, Zenon DEF Holds, QueuedOnce
<1>8. \A t \in Tasks : Queued(t)' <=> Queued(t) /\ t # Head(queue[p])
  BY <1>6, <1>7, Zenon DEF Queued
<1> QED  BY <1>4, <1>5, <1>6, <1>8, Zenon

(* A task is sent to the channel. *)
LEMMA Added ==
  ASSUME WorkersTypeOK, QueuedOnce, NEW p \in Ports, NEW u \in Tasks, ~Queued(u),
         queue' = [queue EXCEPT ![p] = Append(@, u)]
  PROVE  /\ QueuedOnce'
         /\ \A q \in Ports, t \in Tasks :
              Holds(q, t)' <=> Holds(q, t) \/ (q = p /\ t = u)
         /\ \A t \in Tasks : Queued(t)' <=> Queued(t) \/ t = u
<1>1. queue \in [Ports -> Seq(Tasks)]
  BY Zenon DEF WorkersTypeOK
<1>2. \A q \in Ports : q # p => queue'[q] = queue[q]
  BY <1>1, Zenon
<1>3. /\ DOMAIN queue'[p] = DOMAIN queue[p] \cup {Len(queue[p]) + 1}
      /\ queue'[p][Len(queue[p]) + 1] = u
      /\ \A k \in DOMAIN queue[p] : queue'[p][k] = queue[p][k]
  BY <1>1
<1>4. \A q \in Ports : \A k \in DOMAIN queue[q] : queue[q][k] # u
  BY Zenon DEF Queued, Holds
<1>5. QueuedOnce'
  BY <1>2, <1>3, <1>4 DEF QueuedOnce
<1>6. ASSUME NEW q \in Ports, NEW t \in Tasks
      PROVE  Holds(q, t)' <=> Holds(q, t) \/ (q = p /\ t = u)
  BY <1>2, <1>3, Zenon DEF Holds
<1>7. \A t \in Tasks : Queued(t)' <=> Queued(t) \/ t = u
  BY <1>6, Zenon DEF Queued
<1> QED  BY <1>5, <1>6, <1>7, Zenon

(* The channel is abandoned. *)
LEMMA Emptied ==
  ASSUME WorkersTypeOK, QueuedOnce, NEW p \in Ports, queue' = [queue EXCEPT ![p] = <<>>]
  PROVE  /\ QueuedOnce'
         /\ \A q \in Ports, t \in Tasks : Holds(q, t)' <=> Holds(q, t) /\ q # p
         /\ \A t \in Tasks : Queued(t)' <=> Queued(t) /\ ~Holds(p, t)
<1>1. /\ \A q \in Ports : q # p => queue'[q] = queue[q]
      /\ DOMAIN queue'[p] = {}
  BY DEF WorkersTypeOK
<1>2. QueuedOnce'
  BY <1>1 DEF QueuedOnce
<1>3. \A q \in Ports, t \in Tasks : Holds(q, t)' <=> Holds(q, t) /\ q # p
  BY <1>1, Zenon DEF Holds
<1>4. \A q \in Ports, t \in Tasks : Holds(q, t) /\ Holds(p, t) => q = p
  BY Zenon DEF Holds, QueuedOnce
<1>5. \A t \in Tasks : Queued(t)' <=> Queued(t) /\ ~Holds(p, t)
  BY <1>3, <1>4, Zenon DEF Queued
<1> QED  BY <1>2, <1>3, <1>5, Zenon

-----------------------------------------------------------------------------
(* The same is true of t as before. *)
Same(t) ==
  /\ answer'[t] = answer[t] /\ ran'[t] = ran[t] /\ target'[t] = target[t]
  /\ disp'.task = t <=> disp.task = t
  /\ Queued(t)' <=> Queued(t)
  /\ Executed(t)' <=> Executed(t)
  /\ t \in stranded' <=> t \in stranded

(* The types of what these steps read. *)
LEMMA PortTypes ==
  ASSUME WInv
  PROVE  /\ wpc \in [Ports -> Pcs] /\ iccid \in [Ports -> Sims \cup {None}]
         /\ cur \in [Ports -> Tasks \cup {None}] /\ queue \in [Ports -> Seq(Tasks)]
         /\ registry \in [Sims -> Ports \cup {None}]
  BY Zenon DEF WInv, WorkersTypeOK, Pcs, Outside, Reachable

(* Of such a task the invariant stays true. *)
LEMMA SameTask ==
  ASSUME WInv, NEW t \in Tasks, Same(t)
  PROVE  TaskOK(t)'
  BY Zenon DEF WInv, TaskInv, TaskOK, Same, Handed

(* A worker registers, perhaps in the place of another one. *)
LEMMA InitSequenceKeeps ==
  ASSUME WInv, NEW p \in Ports, InitSequence(p)
  PROVE  Rest'
<1>0. WorkerInv /\ DispInv /\ RegisteredIsRunning /\ RoutedToItsSim
  BY Zenon DEF WInv
<1>1. /\ iccid[p] = None /\ queue[p] = <<>> /\ cur[p] = None /\ wpc[p] = "init"
      /\ simIn[p] \in Sims
  BY <1>0, Zenon DEF WInv, WorkerInv, InitSequence, WorkersTypeOK
<1>2. /\ iccid' = [iccid EXCEPT ![p] = simIn[p]]
      /\ registry' = [registry EXCEPT ![simIn[p]] = p]
      /\ wpc' = [wpc EXCEPT ![p] = "registered"]
      /\ queue' = queue /\ cur' = cur /\ simIn' = simIn /\ disp' = disp
      /\ target' = target /\ answer' = answer /\ ran' = ran /\ stranded' = stranded
  BY Zenon DEF InitSequence, taskVars
<1>3. /\ wpc \in [Ports -> Pcs] /\ iccid \in [Ports -> Sims \cup {None}]
      /\ registry \in [Sims -> Ports \cup {None}] /\ None \notin Sims /\ None \notin Tasks
  BY PortTypes, WorkersAssumption, Zenon
<1>4. WorkerInv'
  <2>1. \A q \in Ports : q # p => iccid'[q] = iccid[q] /\ wpc'[q] = wpc[q]
    BY <1>1, <1>2, <1>3, Zenon
  <2>2. iccid'[p] = simIn[p] /\ wpc'[p] = "registered" /\ iccid'[p] # None
    BY <1>1, <1>2, <1>3, Zenon
  <2> QED  BY <1>0, <1>1, <1>2, <2>1, <2>2 DEF WorkerInv
<1>5. \A q \in Ports : iccid'[q] = iccid[q] \/ (q = p /\ iccid[q] = None)
  BY <1>1, <1>2, <1>3, Zenon
<1>6. DispInv'
  <2>1. CASE disp.task = None
    BY <1>0, <1>2, <2>1, Zenon DEF DispInv
  <2>2. CASE disp.task # None /\ disp.gone
    BY <1>0, <1>2, <2>2, Zenon DEF DispInv
  <2>3. CASE disp.task # None /\ ~disp.gone
    <3>1. disp.to # None /\ target[disp.task] # None /\ target[disp.task] = iccid[disp.to]
      BY <1>0, <2>3, Zenon DEF DispInv
    <3>2. disp.to \in Ports
      BY <3>1, Zenon DEF WInv, WorkersTypeOK
    <3> QED  BY <1>2, <1>5, <2>3, <3>1, <3>2, Zenon DEF DispInv
  <2> QED  BY <2>1, <2>2, <2>3, Zenon
<1>7. RegisteredIsRunning'
  <2> SUFFICES ASSUME NEW s \in Sims, registry'[s] # None
               PROVE  /\ iccid'[registry'[s]] = s
                      /\ wpc'[registry'[s]] \in Reachable
    BY Zenon DEF RegisteredIsRunning, InLoop, Reachable
  <2>1. CASE s = simIn[p]
    BY <1>1, <1>2, <1>3, <2>1, Zenon DEF Reachable
  <2>2. CASE s # simIn[p]
    <3>1. registry'[s] = registry[s] /\ registry[s] \in Ports
      BY <1>1, <1>2, <1>3, <2>2, Zenon
    <3>2. /\ iccid[registry[s]] = s
          /\ wpc[registry[s]] \in Reachable
      BY <1>0, <3>1, Zenon DEF RegisteredIsRunning, InLoop, Reachable
    <3>3. registry[s] # p
      BY <1>1, <1>3, <3>2, Zenon
    <3> QED  BY <1>2, <1>3, <3>1, <3>2, <3>3, Zenon
  <2> QED  BY <2>1, <2>2, Zenon
<1>8. RoutedToItsSim'
  <2>1. \A t \in Tasks : cur[p] # t /\ ~Holds(p, t)
    BY <1>1, <1>3 DEF Holds
  <2>2. \A q \in Ports, t \in Tasks : Holds(q, t)' <=> Holds(q, t)
    BY <1>2, Zenon DEF Holds
  <2> QED  BY <1>0, <1>2, <1>5, <2>1, <2>2, Zenon DEF RoutedToItsSim
<1>9. UNCHANGED <<queue, cur, disp, taskVars>>
  BY <1>2, Zenon DEF taskVars
<1> QED  BY <1>4, <1>6, <1>7, <1>8, <1>9, TasksStay, Zenon DEF Rest

(* After Deregister no entry leads to the worker that called it. *)
LEMMA Deregistered ==
  ASSUME WInv, NEW p \in Ports, Deregister(p), iccid[p] # None,
         \A q \in Ports : q # p => iccid'[q] = iccid[q] /\ wpc'[q] = wpc[q]
  PROVE  RegisteredIsRunning'
<1> SUFFICES ASSUME NEW s \in Sims, registry'[s] # None
             PROVE  /\ iccid'[registry'[s]] = s
                    /\ wpc'[registry'[s]] \in Reachable
  BY Zenon DEF RegisteredIsRunning, InLoop, Reachable
<1>1. s # iccid[p] /\ registry'[s] = registry[s] /\ registry[s] \in Ports
  BY Zenon DEF Deregister, WInv, WorkersTypeOK
<1>2. iccid[registry[s]] = s /\ wpc[registry[s]] \in Reachable
  BY <1>1, Zenon DEF WInv, RegisteredIsRunning, InLoop, Reachable
<1> QED  BY <1>1, <1>2, Zenon

(* A worker deregisters before it drains its queue. *)
LEMMA ShutdownBeginsKeeps ==
  ASSUME WInv, NEW p \in Ports, ShutdownBegins(p)
  PROVE  Rest'
<1>0. WorkerInv /\ DispInv /\ RoutedToItsSim
  BY Zenon DEF WInv
<1>1. /\ wpc[p] = "loop" /\ wpc' = [wpc EXCEPT ![p] = "drain"]
      /\ Deregister(p)
      /\ iccid' = iccid /\ queue' = queue /\ cur' = cur /\ simIn' = simIn
      /\ disp' = disp /\ target' = target
      /\ UNCHANGED <<queue, cur, disp, taskVars>>
  BY Zenon DEF ShutdownBegins, taskVars
<1>2. wpc \in [Ports -> Pcs]
  BY PortTypes, Zenon
<1>3. WorkerInv'
  BY <1>0, <1>1, <1>2, Zenon DEF WorkerInv
<1>4. DispInv' /\ RoutedToItsSim'
  BY <1>0, <1>1 DEF DispInv, RoutedToItsSim, Holds
<1>5. iccid[p] # None
  BY <1>0, <1>1, Zenon DEF WorkerInv
<1>6. \A q \in Ports : q # p => iccid'[q] = iccid[q] /\ wpc'[q] = wpc[q]
  BY <1>1, <1>2, Zenon
<1>7. RegisteredIsRunning'
  BY <1>1, <1>5, <1>6, Deregistered, Zenon
<1> QED  BY <1>1, <1>3, <1>4, <1>7, TasksStay, Zenon DEF Rest

(* A task moves from the queue to the worker. *)
LEMMA TaskBeginsKeeps ==
  ASSUME WInv, NEW p \in Ports, TaskBegins(p)
  PROVE  Rest'
<1> DEFINE u == Head(queue[p])
<1> USE DEF WInv
<1>1. /\ wpc[p] = "loop" /\ cur[p] = None /\ iccid[p] # None
      /\ wpc' = [wpc EXCEPT ![p] = "task"] /\ cur' = [cur EXCEPT ![p] = u]
      /\ UNCHANGED <<iccid, simIn, registry, disp, target, answer, ran, stranded>>
  BY Zenon DEF TaskBegins, WorkerInv, taskVars
<1>2. /\ u \in Tasks /\ Holds(p, u) /\ QueuedOnce'
      /\ \A q \in Ports, t \in Tasks : Holds(q, t)' <=> Holds(q, t) /\ ~(q = p /\ t = u)
      /\ \A t \in Tasks : Queued(t)' <=> Queued(t) /\ t # u
  BY Taken, Zenon DEF TaskBegins
<1> HIDE DEF u
<1> HIDE DEF WInv
<1>w. /\ WorkerInv /\ DispInv /\ ExecutedOnce /\ TaskInv
      /\ RegisteredIsRunning /\ RoutedToItsSim /\ AnswersAreTrue
  BY Zenon DEF WInv
<1>t. /\ wpc \in [Ports -> Pcs] /\ cur \in [Ports -> Tasks \cup {None}]
      /\ queue \in [Ports -> Seq(Tasks)] /\ registry \in [Sims -> Ports \cup {None}]
      /\ None \notin Tasks
  BY PortTypes, WorkersAssumption, Zenon
<1>3. Queued(u) /\ ~Executed(u) /\ target[u] = iccid[p]
  BY <1>2, <1>w, Zenon DEF Queued, TaskInv, TaskOK, RoutedToItsSim
<1>4. \A t \in Tasks : Executed(t)' <=> Executed(t) \/ t = u
  BY <1>1, <1>2, <1>t, Zenon DEF Executed
<1>5. WorkerInv'
  <2>1. \A q \in Ports : q # p => queue'[q] = queue[q]
    BY <1>t, Zenon DEF TaskBegins
  <2> QED  BY <1>1, <1>2, <1>w, <1>t, <2>1, Zenon DEF WorkerInv
<1>6. DispInv'
  BY <1>1, <1>w, Zenon DEF DispInv
<1>7. ExecutedOnce'
  BY <1>1, <1>2, <1>3, <1>w, <1>t, Zenon DEF ExecutedOnce, Executed
<1>8. ASSUME NEW t \in Tasks  PROVE TaskOK(t)'
  <2>1. CASE t # u
    BY <1>1, <1>2, <1>4, <2>1, SameTask, Zenon DEF Same
  <2>2. CASE t = u
    BY <1>1, <1>2, <1>3, <1>4, <1>w, <2>2, Zenon DEF TaskInv, TaskOK, Handed
  <2> QED  BY <2>1, <2>2, Zenon
<1>9. RegisteredIsRunning'
  BY <1>1, <1>w, <1>t, Zenon DEF RegisteredIsRunning, InLoop, Handlers
<1>10. RoutedToItsSim'
  BY <1>1, <1>2, <1>3, <1>w, <1>t, Zenon DEF RoutedToItsSim
<1>11. AnswersAreTrue'
  BY <1>1, <1>w, Zenon DEF AnswersAreTrue
<1> QED  BY <1>2, <1>5, <1>6, <1>7, <1>8, <1>9, <1>10, <1>11, Zenon DEF Rest, TaskInv

(* A task ends and is answered. *)
LEMMA TaskEndsKeeps ==
  ASSUME WInv, NEW p \in Ports, TaskEnds(p)
  PROVE  Rest'
<1>w. /\ WorkerInv /\ DispInv /\ QueuedOnce /\ ExecutedOnce /\ TaskInv
      /\ RegisteredIsRunning /\ RoutedToItsSim /\ AnswersAreTrue
  BY Zenon DEF WInv
<1>t. /\ wpc \in [Ports -> Pcs] /\ cur \in [Ports -> Tasks \cup {None}]
      /\ registry \in [Sims -> Ports \cup {None}] /\ None \notin Tasks
  BY PortTypes, WorkersAssumption, Zenon
<1>r. answer \in [Tasks -> Seq(Answers)] /\ ran \in [Tasks -> Nat] /\ WorkersTypeOK
  BY Zenon DEF WInv, WorkersTypeOK
<1>0. PICK u \in Tasks : u = cur[p]
  BY <1>w, <1>t, Zenon DEF TaskEnds, WorkerInv
<1>1. /\ wpc[p] = "task" /\ u = cur[p]
      /\ wpc' = [wpc EXCEPT ![p] = "check"] /\ cur' = [cur EXCEPT ![p] = None]
      /\ UNCHANGED <<iccid, queue, simIn, registry, disp, target, stranded>>
  BY <1>0, Zenon DEF TaskEnds
<1>2. /\ Executed(u) /\ answer[u] = <<>> /\ ran[u] = 0
      /\ u \notin stranded /\ ~Queued(u) /\ disp.task # u
  BY <1>1, <1>w, Zenon DEF Executed, TaskInv, TaskOK
<1>3. \A t \in Tasks : Executed(t)' <=> Executed(t) /\ t # u
  BY <1>1, <1>w, <1>t, Zenon DEF Executed, ExecutedOnce
<1>4. \A t \in Tasks : t # u => answer'[t] = answer[t] /\ ran'[t] = ran[t]
  BY <1>1, <1>r, AckStep, ZenonT(30) DEF TaskEnds, Answers
<1>5. /\ answer'[u] # <<>> /\ Len(answer'[u]) <= 1
      /\ \/ Head(answer'[u]) = "SUCCESS" /\ ran'[u] = 1
         \/ Head(answer'[u]) = "FAILED" /\ ran'[u] \in {0, 1}
  <2>1. CASE ran' = [ran EXCEPT ![u] = @ + 1] /\ Ack(u, "SUCCESS")
    BY <1>1, <1>2, <1>r, <2>1, AckStep DEF Answers
  <2>2. CASE ran' \in {ran, [ran EXCEPT ![u] = @ + 1]} /\ Ack(u, "FAILED")
    BY <1>1, <1>2, <1>r, <2>2, AckStep DEF Answers
  <2> QED  BY <1>1, <2>1, <2>2, Zenon DEF TaskEnds
<1>6. \A t \in Tasks : Queued(t)' <=> Queued(t)
  BY <1>1, Zenon DEF Queued, Holds
<1>7. WorkerInv' /\ ExecutedOnce'
  BY <1>1, <1>w, <1>t, Zenon DEF WorkerInv, ExecutedOnce
<1>8. DispInv' /\ QueuedOnce'
  BY <1>1, <1>w DEF DispInv, QueuedOnce
<1>9. ASSUME NEW t \in Tasks  PROVE TaskOK(t)'
  <2>1. CASE t # u
    BY <1>1, <1>3, <1>4, <1>6, <2>1, SameTask, Zenon DEF Same
  <2>2. CASE t = u
    <3>1. ~Queued(t)' /\ ~Executed(t)' /\ disp'.task # t /\ t \notin stranded'
      BY <1>1, <1>2, <1>3, <1>6, <2>2, Zenon
    <3>2. answer'[t] # <<>> /\ Len(answer'[t]) <= 1
      BY <1>5, <2>2, Zenon
    <3> QED  BY <3>1, <3>2, Zenon DEF TaskOK, Handed
  <2> QED  BY <2>1, <2>2, Zenon
<1>10. RegisteredIsRunning'
  BY <1>1, <1>w, <1>t, Zenon DEF RegisteredIsRunning, InLoop, Handlers
<1>11. RoutedToItsSim'
  BY <1>1, <1>w, <1>t, Zenon DEF RoutedToItsSim, Holds
<1>12. AnswersAreTrue'
  BY <1>4, <1>5, <1>w DEF AnswersAreTrue
<1> QED  BY <1>7, <1>8, <1>9, <1>10, <1>11, <1>12, Zenon DEF Rest, TaskInv

(* A task is answered without having run. *)
LEMMA DrainOneKeeps ==
  ASSUME WInv, NEW p \in Ports, DrainOne(p)
  PROVE  Rest'
<1> USE DEF WInv
<1>0. PICK u \in Tasks : u = Head(queue[p])
  BY Taken, Zenon DEF DrainOne
<1>1. /\ wpc[p] = "drain" /\ iccid[p] # None
      /\ UNCHANGED <<wpc, iccid, cur, simIn, registry, disp, target, ran, stranded>>
  BY Zenon DEF DrainOne, WorkerInv
<1>2. /\ Holds(p, u) /\ QueuedOnce'
      /\ \A q \in Ports, t \in Tasks : Holds(q, t)' <=> Holds(q, t) /\ ~(q = p /\ t = u)
      /\ \A t \in Tasks : Queued(t)' <=> Queued(t) /\ t # u
  BY <1>0, Taken, Zenon DEF DrainOne
<1>3. /\ Queued(u) /\ ~Executed(u) /\ answer[u] = <<>> /\ ran[u] = 0
      /\ u \notin stranded /\ disp.task # u
  BY <1>2, Zenon DEF Queued, TaskInv, TaskOK
<1>4. \A t \in Tasks : Executed(t)' <=> Executed(t)
  BY <1>1, Zenon DEF Executed
<1>5. /\ answer'[u] # <<>> /\ Len(answer'[u]) <= 1 /\ Head(answer'[u]) = "NACK"
      /\ \A t \in Tasks : t # u => answer'[t] = answer[t]
  BY <1>0, <1>3, AckStep, Zenon DEF DrainOne, Answers
<1>6. WorkerInv'
  <2>1. \A q \in Ports : q # p => queue'[q] = queue[q]
    BY Zenon DEF DrainOne, WorkersTypeOK
  <2> QED  BY <1>1, <2>1, Zenon DEF WorkerInv
<1>7. DispInv' /\ ExecutedOnce' /\ RegisteredIsRunning'
  BY <1>1, Zenon DEF DispInv, ExecutedOnce, RegisteredIsRunning, InLoop
<1>8. ASSUME NEW t \in Tasks  PROVE TaskOK(t)'
  <2>1. CASE t # u
    BY <1>1, <1>2, <1>4, <1>5, <2>1, SameTask, Zenon DEF Same
  <2>2. CASE t = u
    <3>1. ~Queued(t)' /\ ~Executed(t)' /\ disp'.task # t /\ t \notin stranded'
      BY <1>1, <1>2, <1>3, <1>4, <2>2, Zenon
    <3>2. answer'[t] # <<>> /\ Len(answer'[t]) <= 1
      BY <1>5, <2>2, Zenon
    <3> QED  BY <3>1, <3>2, Zenon DEF TaskOK, Handed
  <2> QED  BY <2>1, <2>2, Zenon
<1>9. RoutedToItsSim'
  BY <1>1, <1>2, Zenon DEF RoutedToItsSim
<1>10. ASSUME NEW t \in Tasks
       PROVE  /\ answer'[t] # <<>> /\ Head(answer'[t]) \in {"NACK", "NOT_FOUND"}
                   => ran'[t] = 0
              /\ answer'[t] # <<>> /\ Head(answer'[t]) = "SUCCESS" => ran'[t] = 1
              /\ ran'[t] <= 1
  <2>1. CASE t # u
    BY <1>1, <1>5, <2>1, Zenon DEF AnswersAreTrue
  <2>2. CASE t = u
    BY <1>1, <1>3, <1>5, <2>2
  <2> QED  BY <2>1, <2>2, Zenon
<1> QED  BY <1>2, <1>6, <1>7, <1>8, <1>9, <1>10, Zenon DEF Rest, TaskInv, AnswersAreTrue

(* The end of a worker, but for the registry. *)
LEMMA ExitKeeps ==
  ASSUME WInv, NEW p \in Ports, NEW next \in Outside, Exit(p, next), wpc[p] # "task",
         UNCHANGED <<cur, simIn, target, answer, ran>>
  PROVE  /\ WorkerInv' /\ DispInv' /\ QueuedOnce' /\ ExecutedOnce' /\ TaskInv'
         /\ RoutedToItsSim' /\ AnswersAreTrue'
<1> USE DEF WInv
<1>1. /\ wpc' = [wpc EXCEPT ![p] = next] /\ iccid' = [iccid EXCEPT ![p] = None]
      /\ queue' = [queue EXCEPT ![p] = <<>>]
      /\ cur[p] = None
  BY Zenon DEF Exit, WorkerInv
<1>2. /\ QueuedOnce'
      /\ \A q \in Ports, t \in Tasks : Holds(q, t)' <=> Holds(q, t) /\ q # p
      /\ \A t \in Tasks : Queued(t)' <=> Queued(t) /\ ~Holds(p, t)
  BY <1>1, Emptied, Zenon
<1>3. \A t \in Tasks : t \in stranded' <=> t \in stranded \/ Holds(p, t)
  BY Zenon DEF Exit, Holds
<1>4. disp'.task = disp.task /\ disp'.to = disp.to /\ (disp.to # p => disp' = disp)
      /\ (disp.to = p => disp'.gone = TRUE)
  BY Zenon DEF Exit, WorkersTypeOK
<1>5. WorkerInv'
  BY <1>1, Zenon DEF WorkerInv, WorkersTypeOK, Outside
<1>6. DispInv'
  <2>1. CASE disp.to # p
    BY <1>1, <1>4, <2>1, Zenon DEF DispInv, WorkersTypeOK
  <2>2. CASE disp.to = p
    <3>1. disp.task # None
      BY <2>2, WorkersAssumption DEF DispInv, NoDispatch
    <3> QED  BY <1>4, <2>2, <3>1, Zenon DEF DispInv
  <2> QED  BY <2>1, <2>2, Zenon
<1>7. ExecutedOnce' /\ AnswersAreTrue'
  BY Zenon DEF ExecutedOnce, AnswersAreTrue
<1>8. \A t \in Tasks : Executed(t)' <=> Executed(t)
  BY Zenon DEF Executed
<1>9. ASSUME NEW t \in Tasks  PROVE TaskOK(t)'
  <2>1. CASE ~Holds(p, t)
    BY <1>2, <1>3, <1>4, <1>8, <2>1, SameTask, Zenon DEF Same
  <2>2. CASE Holds(p, t)
    <3>1. Queued(t) /\ TaskOK(t)
      BY <2>2, Zenon DEF Queued, TaskInv
    <3>2. ~Queued(t)' /\ ~Executed(t)' /\ disp'.task # t /\ t \in stranded'
      BY <1>2, <1>3, <1>4, <1>8, <2>2, <3>1, Zenon DEF TaskOK
    <3> QED  BY <3>1, <3>2, Zenon DEF TaskOK, Handed
  <2> QED  BY <2>1, <2>2, Zenon
<1>10. RoutedToItsSim'
  <2>1. \A t \in Tasks : cur[p] # t
    BY <1>1, WorkersAssumption, Zenon
  <2>2. \A q \in Ports : q # p => iccid'[q] = iccid[q]
    BY <1>1
  <2> QED  BY <1>2, <2>1, <2>2, Zenon DEF RoutedToItsSim
<1> QED  BY <1>2, <1>5, <1>6, <1>7, <1>9, <1>10, Zenon DEF TaskInv

(* A worker ends on its own. *)
LEMMA TerminatesKeeps ==
  ASSUME WInv, NEW p \in Ports, Terminates(p)
  PROVE  Rest'
<1>1. /\ Exit(p, AfterRun(wstate[p])) /\ AfterRun(wstate[p]) \in Outside
      /\ wpc[p] = "check" /\ Deregister(p) /\ UNCHANGED <<cur, simIn, target, answer, ran>>
  BY Zenon DEF Terminates, AfterRun, Outside
<1>2. iccid[p] # None
  BY <1>1, Zenon DEF WInv, WorkerInv
<1>3. \A q \in Ports : q # p => iccid'[q] = iccid[q] /\ wpc'[q] = wpc[q]
  BY <1>1, Zenon DEF Exit, WInv, WorkersTypeOK
<1>4. RegisteredIsRunning'
  BY <1>1, <1>2, <1>3, Deregistered, Zenon
<1> QED  BY <1>1, <1>4, ExitKeeps, Zenon DEF Rest

(* A worker ends at shutdown. *)
LEMMA DrainEndsKeeps ==
  ASSUME WInv, NEW p \in Ports, DrainEnds(p)
  PROVE  Rest'
<1>1. /\ Exit(p, "over") /\ "over" \in Outside
      /\ wpc[p] = "drain" /\ UNCHANGED <<registry, cur, simIn, target, answer, ran>>
  BY Zenon DEF DrainEnds, Outside
<1>2. \A q \in Ports : q # p => iccid'[q] = iccid[q] /\ wpc'[q] = wpc[q]
  BY <1>1, SMTT(20) DEF Exit, WInv, WorkersTypeOK
<1>3. \A s \in Sims : registry[s] # p
  <2> SUFFICES ASSUME NEW s \in Sims, registry[s] = p  PROVE FALSE
    BY Zenon
  <2>1. p # None
    BY WorkersAssumption, Zenon
  <2>2. InLoop(p) \/ wpc[p] = "registered"
    BY <2>1, Zenon DEF WInv, RegisteredIsRunning
  <2>3. ~InLoop(p)
    BY <1>1, Zenon DEF InLoop, Handlers
  <2> QED  BY <1>1, <2>2, <2>3, Zenon
<1>4. RegisteredIsRunning'
  <2> SUFFICES ASSUME NEW s \in Sims, registry'[s] # None
               PROVE  /\ iccid'[registry'[s]] = s
                      /\ InLoop(registry[s])' \/ wpc'[registry'[s]] = "registered"
    BY <1>1, Zenon DEF RegisteredIsRunning
  <2>1. registry'[s] = registry[s] /\ registry[s] \in Ports /\ registry[s] # p
    BY <1>1, <1>3, Zenon DEF WInv, WorkersTypeOK
  <2>2. iccid[registry[s]] = s /\ (InLoop(registry[s]) \/ wpc[registry[s]] = "registered")
    BY <2>1, Zenon DEF WInv, RegisteredIsRunning
  <2>3. wpc'[registry'[s]] = wpc[registry[s]] /\ iccid'[registry'[s]] = iccid[registry[s]]
    BY <1>2, <2>1, Zenon
  <2> QED  BY <2>1, <2>2, <2>3, Zenon DEF InLoop
<1> QED  BY <1>1, <1>4, ExitKeeps, Zenon DEF Rest

-----------------------------------------------------------------------------
(* Steps and the SIM of a port, steps and bans. *)

(* The cabling of the rack gives every port a SIM of its own. *)
LEMMA HomeSims == HomeSim \in [Ports -> Sims] /\ Injective(HomeSim)
  BY WorkersAssumption, Zenon DEF HomeSim

(* A fault of one kind uses up none of another. *)
LEMMA OtherFault ==
  ASSUME WInv, NEW k, NEW j \in FaultKinds, k # j, Fault(k)
  PROVE  faults'[j] = faults[j]
<1>1. faults \in [FaultKinds -> Nat]
  BY Zenon DEF WInv, WorkersTypeOK
<1> QED  BY <1>1, Zenon DEF Fault

(* No step of a worker moves a SIM or stalls a command. *)
LEMMA WorkerFaults ==
  ASSUME WInv, NEW p \in Ports, WorkerStep(p)
  PROVE  faults'["swap"] = faults["swap"] /\ faults'["stall"] = faults["stall"]
<1>1. faults' = faults \/ Fault("at") \/ Fault("ban")
  <2>1. CASE \/ OpenPort(p) \/ InitSequence(p) \/ InitFails(p) \/ Activate(p) \/ Restart(p)
    BY <2>1, Zenon DEF OpenPort, InitSequence, InitFails, Activate, Restart, AtOK, AtFails
  <2>2. CASE \/ TurnBegins(p) \/ TurnEnds(p) \/ KeepaliveDenied(p) \/ KeepaliveFails(p)
             \/ RecoverySucceeds(p) \/ RecoveryFails(p)
    BY <2>2, Zenon DEF TurnBegins, TurnEnds, KeepaliveDenied, KeepaliveFails,
       RecoverySucceeds, RecoveryFails, AtOK, AtFails
  <2>3. CASE \/ ResetBegins(p) \/ ResetEnds(p) \/ TaskBegins(p) \/ TaskEnds(p)
             \/ Continues(p) \/ Terminates(p)
    BY <2>3, Zenon DEF ResetBegins, ResetEnds, TaskBegins, TaskEnds, Continues, Terminates,
       AtOK, AtFails
  <2>4. CASE ShutdownBegins(p) \/ DrainOne(p) \/ DrainEnds(p)
    BY <2>4, Zenon DEF ShutdownBegins, DrainOne, DrainEnds
  <2> QED  BY <2>1, <2>2, <2>3, <2>4, Zenon DEF WorkerStep
<1>2. "swap" \in FaultKinds /\ "stall" \in FaultKinds
  BY Zenon DEF FaultKinds
<1>3. /\ "at" # "swap" /\ "at" # "stall" /\ "ban" # "swap" /\ "ban" # "stall"
  BY Zenon
<1> QED  BY <1>1, <1>2, <1>3, OtherFault, Zenon

(* What moves a worker in or out of the registry. *)
Registration(p) ==
  InitSequence(p) \/ Terminates(p) \/ ShutdownBegins(p) \/ DrainEnds(p)

(* Nobody is moved, registered or deregistered. *)
Unregistered ==
  /\ UNCHANGED <<simIn, iccid, registry>>
  /\ \A p \in Ports : wpc'[p] \in Reachable => wpc[p] \in Reachable

(* Every other step of a worker leaves the registry and the SIMs as they are. *)
LEMMA UnregisteredSteps ==
  ASSUME WInv, NEW p \in Ports, WorkerStep(p), ~Registration(p)
  PROVE  Unregistered
<1>1. CASE Plain(p)
  <2>1. PlainStep
    BY <1>1, PlainSteps, Zenon
  <2>2. UNCHANGED simIn
    BY <1>1, Zenon DEF Plain, OpenPort, InitFails, Activate, Restart, TurnBegins, TurnEnds,
       KeepaliveDenied, KeepaliveFails, RecoverySucceeds, RecoveryFails, ResetBegins,
       ResetEnds,
       Continues, WatchdogDetects, WatchdogStores
  <2> QED  BY <2>1, <2>2, Zenon DEF PlainStep, Stays, Unregistered
<1>2. CASE TaskBegins(p) \/ TaskEnds(p)
  <2>1. /\ UNCHANGED <<simIn, iccid, registry>> /\ wpc[p] \in Reachable
        /\ \E x : wpc' = [wpc EXCEPT ![p] = x]
    BY <1>2, Zenon DEF TaskBegins, TaskEnds, Reachable, Handlers
  <2>2. wpc \in [Ports -> Pcs]
    BY PortTypes, Zenon
  <2> QED  BY <2>1, <2>2, Zenon DEF Unregistered
<1>3. CASE DrainOne(p)
  BY <1>3, Zenon DEF DrainOne, Unregistered
<1> QED  BY <1>1, <1>2, <1>3, Zenon DEF WorkerStep, Registration, Plain

(* Such a step keeps HomeInv. *)
LEMMA UnregisteredKeepsHome ==
  ASSUME HomeInv, Unregistered, faults'["swap"] = faults["swap"]
  PROVE  HomeInv'
<1>1. \A p \in Ports : (InLoop(p) \/ wpc[p] = "registered") <=> wpc[p] \in Reachable
  BY Zenon DEF InLoop, Reachable
<1>2. \A p \in Ports : (InLoop(p) \/ wpc[p] = "registered")' <=> wpc'[p] \in Reachable
  BY Zenon DEF InLoop, Reachable
<1> QED  BY <1>1, <1>2, Zenon DEF HomeInv, AtHome, Unregistered

(* A worker that registers does so under the SIM of its port, and one that
   deregisters removes its own entry and no other. *)
LEMMA RegistrationKeepsHome ==
  ASSUME WInv, HomeInv, NEW p \in Ports, WorkerStep(p), Registration(p)
  PROVE  HomeInv'
<1>1. faults'["swap"] = faults["swap"]
  BY WorkerFaults, Zenon
<1>2. simIn' = simIn
  BY Zenon DEF Registration, InitSequence, Terminates, ShutdownBegins, DrainEnds
<1>3. SUFFICES ASSUME AtHome
               PROVE  \A q \in Ports :
                        /\ iccid'[q] \in {None, HomeSim[q]}
                        /\ wpc'[q] \in Reachable => registry'[HomeSim[q]] = q
  BY <1>1, <1>2, Zenon DEF HomeInv, AtHome, InLoop, Reachable
<1>4. \A q \in Ports : /\ iccid[q] \in {None, HomeSim[q]}
                       /\ wpc[q] \in Reachable => registry[HomeSim[q]] = q
  BY <1>3, Zenon DEF HomeInv, InLoop, Reachable
<1>5. /\ wpc \in [Ports -> Pcs] /\ iccid \in [Ports -> Sims \cup {None}]
      /\ registry \in [Sims -> Ports \cup {None}]
  BY PortTypes, Zenon
<1>6. /\ \A q \in Ports : HomeSim[q] \in Sims
      /\ \A q \in Ports : q # p => HomeSim[q] # HomeSim[p]
  BY HomeSims, Zenon DEF Injective
<1>7. CASE InitSequence(p)
  <2>1. simIn[p] = HomeSim[p]
    <3>1. CASE Guarded = Ports
      BY <1>7, <3>1, Zenon DEF InitSequence
    <3>2. CASE faults["swap"] = MaxSwaps
      BY <3>2, Zenon DEF HomeInv
    <3> QED  BY <1>3, <3>1, <3>2, Zenon DEF AtHome
  <2>2. /\ iccid' = [iccid EXCEPT ![p] = HomeSim[p]]
        /\ registry' = [registry EXCEPT ![HomeSim[p]] = p]
        /\ wpc' = [wpc EXCEPT ![p] = "registered"]
    BY <1>7, <2>1, Zenon DEF InitSequence
  <2>3. \A q \in Ports : q # p => /\ iccid'[q] = iccid[q] /\ wpc'[q] = wpc[q]
                                  /\ registry'[HomeSim[q]] = registry[HomeSim[q]]
    BY <1>5, <1>6, <2>2, Zenon
  <2>4. iccid'[p] = HomeSim[p] /\ registry'[HomeSim[p]] = p
    BY <1>5, <1>6, <2>2, Zenon
  <2> QED  BY <1>4, <2>3, <2>4, Zenon
<1>8. CASE Terminates(p) \/ ShutdownBegins(p)
  <2>1. /\ Deregister(p) /\ wpc[p] \in {"check", "loop"}
        /\ \E x \in {"over", "backoff", "drain"} : wpc' = [wpc EXCEPT ![p] = x]
        /\ iccid' = iccid \/ iccid' = [iccid EXCEPT ![p] = None]
    BY <1>8, Zenon DEF Terminates, ShutdownBegins, Exit, AfterRun
  <2>2. iccid[p] = HomeSim[p]
    BY <1>4, <2>1, Zenon DEF WInv, WorkerInv
  <2>3. \A q \in Ports : q # p => /\ iccid'[q] = iccid[q] /\ wpc'[q] = wpc[q]
                                  /\ registry'[HomeSim[q]] = registry[HomeSim[q]]
    BY <1>5, <1>6, <2>1, <2>2, Zenon DEF Deregister
  <2>4. iccid'[p] \in {None, HomeSim[p]}
    BY <1>5, <2>1, <2>2, Zenon
  <2>5. wpc'[p] \notin Reachable
    BY <1>5, <2>1 DEF Reachable, Handlers
  <2> QED  BY <1>4, <2>3, <2>4, <2>5, Zenon
<1>9. CASE DrainEnds(p)
  <2>1. /\ registry' = registry /\ wpc' = [wpc EXCEPT ![p] = "over"]
        /\ iccid' = [iccid EXCEPT ![p] = None]
    BY <1>9, Zenon DEF DrainEnds, Exit
  <2>2. "over" \notin Reachable
    BY DEF Reachable, Handlers
  <2> QED  BY <1>4, <1>5, <2>1, <2>2, Zenon
<1> QED  BY <1>7, <1>8, <1>9, Zenon DEF Registration

(* Every step keeps HomeInv; the one that moves a SIM ends what it promises of ports
   without an expected_iccid. *)
LEMMA HomeStep ==
  ASSUME WInv, HomeInv, [WorkersNext]_wVars
  PROVE  HomeInv'
<1>0. "swap" \in FaultKinds /\ "stall" # "swap" /\ "reset" # "swap" /\ "term" # "swap"
  BY Zenon DEF FaultKinds
<1>1. ASSUME NEW p \in Ports, WorkerStep(p)  PROVE HomeInv'
  BY <1>1, WorkerFaults, UnregisteredSteps, UnregisteredKeepsHome, RegistrationKeepsHome,
     Zenon
<1>2. ASSUME NEW p \in Ports, WatchdogDetects(p) \/ WatchdogStores(p)  PROVE HomeInv'
  <2>1. Unregistered
    BY <1>2, Zenon DEF WatchdogDetects, WatchdogStores, Unregistered
  <2>2. faults'["swap"] = faults["swap"]
    BY <1>0, <1>2, OtherFault, Zenon DEF WatchdogDetects, WatchdogStores
  <2> QED  BY <2>1, <2>2, UnregisteredKeepsHome, Zenon
<1>3. CASE \/ \E t \in Tasks : DispatchMalformed(t)
           \/ \E t \in Tasks, s \in Sims : DispatchLookup(t, s)
           \/ DispatchSend
           \/ UNCHANGED wVars
  <2>1. Unregistered /\ UNCHANGED faults
    BY <1>3, Zenon
       DEF DispatchMalformed, DispatchLookup, DispatchSend, Unregistered, wVars, portVars
  <2> QED  BY <2>1, UnregisteredKeepsHome, ZenonT(60)
<1>4. CASE (\E s \in Sims : RequestReset(s)) \/ Sigterm
  <2>1. Unregistered
    BY <1>4 DEF RequestReset, Sigterm, Unregistered, portVars
  <2>2. faults'["swap"] = faults["swap"]
    BY <1>0, <1>4, OtherFault, Zenon DEF RequestReset, Sigterm
  <2> QED  BY <2>1, <2>2, UnregisteredKeepsHome, Zenon
<1>5. ASSUME NEW p \in Ports, NEW q \in Ports, SwapSims(p, q)  PROVE HomeInv'
  <2>1. Fault("swap") /\ UNCHANGED <<wpc, iccid, registry>>
    BY <1>5 DEF SwapSims, portVars
  <2>2. faults \in [FaultKinds -> Nat] /\ MaxSwaps \in Nat /\ faults["swap"] <= MaxSwaps
    BY WorkersAssumption, Zenon DEF WInv, WorkersTypeOK, HomeInv
  <2>3. faults'["swap"] = faults["swap"] - 1 /\ faults["swap"] \in Nat
    BY <1>0, <2>1, <2>2 DEF Fault
  <2>4. faults'["swap"] <= MaxSwaps /\ faults'["swap"] # MaxSwaps
    BY <2>2, <2>3
  <2>5. Injective(simIn')
    <3>1. /\ Injective(simIn) /\ simIn \in [Ports -> Sims \cup {None}]
          /\ simIn' = [simIn EXCEPT ![p] = simIn[q], ![q] = simIn[p]]
      BY <1>5, Zenon DEF HomeInv, WInv, WorkersTypeOK, SwapSims
    <3> QED  BY <3>1 DEF Injective
  <2> QED  BY <2>1, <2>4, <2>5, Zenon DEF HomeInv, AtHome, InLoop
<1> QED  BY <1>1, <1>2, <1>3, <1>4, <1>5, Zenon DEF WorkersNext

(* The state, the place and the watchdog of a worker. *)
LEMMA StateTypes ==
  ASSUME WInv
  PROVE  /\ wpc \in [Ports -> Pcs] /\ wstate \in [Ports -> States]
         /\ prev \in [Ports -> States] /\ wd \in [Ports -> {"off", "watch", "fire"}]
<1>1. WorkersTypeOK
  BY Zenon DEF WInv
<1>2. wpc \in [Ports -> Pcs]
  BY PortTypes, Zenon
<1> QED  BY <1>1, <1>2, Zenon DEF WorkersTypeOK

(* Nothing about the ban of q changes. *)
SameBan(q) ==
  /\ wpc'[q] = wpc[q] /\ wstate'[q] = wstate[q] /\ prev'[q] = prev[q] /\ wd'[q] = wd[q]

(* Only the ban of p may change. *)
OthersSameBan(p) == \A q \in Ports : q # p => SameBan(q)

(* Opening, initializing and restarting: the worker is not BANNED, and is not after. *)
LEMMA BanOfBeginning ==
  ASSUME WInv, NEW p \in Ports, BanOK(p),
         OpenPort(p) \/ InitSequence(p) \/ InitFails(p) \/ Activate(p) \/ Restart(p)
  PROVE  OthersSameBan(p) /\ BanOK(p)' /\ (wstate[p] = "BANNED" => SameBan(p))
<1>1. \A f : AfterRun(f) \in {"over", "backoff"}
  BY Zenon DEF AfterRun
<1>2. /\ wpc[p] \in {"start", "init", "registered", "backoff"}
      /\ prev' = prev
      /\ wd' = wd \/ wd' = [wd EXCEPT ![p] = "watch"]
      /\ \/ wstate' = wstate
         \/ \E y \in {"FAILED", "ACTIVE", "INITIALIZING"} : wstate'
              = [wstate EXCEPT ![p] = y]
      /\ \E x \in {"init", "over", "backoff", "registered", "loop", "start"} :
           wpc' = [wpc EXCEPT ![p] = x]
  BY <1>1, Zenon DEF OpenPort, InitSequence, InitFails, Activate, Restart
<1>3. OthersSameBan(p)
  BY <1>2, StateTypes, Zenon DEF OthersSameBan, SameBan
<1>4. wstate[p] # "BANNED" /\ wd[p] # "fire"
  BY <1>2, Zenon DEF BanOK
<1>5. wd'[p] # "fire" /\ wstate'[p] # "BANNED" /\ wpc'[p] # "task"
  BY <1>2, <1>4, StateTypes, Zenon
<1> QED  BY <1>3, <1>4, <1>5, Zenon DEF BanOK

(* The main loop, its keepalive and resets: a denied registration is what bans a worker, and it
   leaves it at the check that ends it. *)
LEMMA BanOfTurn ==
  ASSUME WInv, NEW p \in Ports, BanOK(p),
         \/ TurnBegins(p) \/ TurnEnds(p) \/ KeepaliveDenied(p) \/ KeepaliveFails(p)
         \/ RecoverySucceeds(p) \/ RecoveryFails(p) \/ ResetBegins(p) \/ ResetEnds(p)
         \/ Continues(p) \/ ShutdownBegins(p)
  PROVE  OthersSameBan(p) /\ BanOK(p)' /\ (wstate[p] = "BANNED" => SameBan(p))
<1>1. prev' = prev /\ wd' = wd
  BY Zenon DEF TurnBegins, TurnEnds, KeepaliveDenied, KeepaliveFails, RecoverySucceeds,
     RecoveryFails, ResetBegins, ResetEnds, Continues, ShutdownBegins
<1>2. wstate[p] # "BANNED"
  BY Zenon DEF BanOK, TurnBegins, TurnEnds, KeepaliveDenied, KeepaliveFails,
     RecoverySucceeds,
     RecoveryFails, ResetBegins, ResetEnds, Continues, ShutdownBegins
<1>3. /\ \E x \in {"turn", "recover", "reset", "loop", "drain", "check"} :
           /\ wpc' = [wpc EXCEPT ![p] = x]
           /\ \/ wstate' = wstate
              \/ \E y \in {"ACTIVE", "RECOVERING", "RESETTING", "INITIALIZING", "FAILED"} :
                   wstate' = [wstate EXCEPT ![p] = y]
              \/ x = "check" /\ wstate' = [wstate EXCEPT ![p] = "BANNED"]
  BY Zenon DEF TurnBegins, TurnEnds, KeepaliveDenied, KeepaliveFails, RecoverySucceeds,
     RecoveryFails, ResetBegins, ResetEnds, Continues, ShutdownBegins
<1>4. OthersSameBan(p)
  BY <1>1, <1>3, StateTypes, Zenon DEF OthersSameBan, SameBan
<1>5. wpc'[p] # "task" /\ (wstate'[p] = "BANNED" => wpc'[p] = "check")
  BY <1>2, <1>3, StateTypes, Zenon
<1> QED  BY <1>1, <1>2, <1>4, <1>5, Zenon DEF BanOK

(* Tasks: what a task restores is a state that is not BANNED. *)
LEMMA BanOfTask ==
  ASSUME WInv, NEW p \in Ports, BanOK(p), TaskBegins(p) \/ TaskEnds(p) \/ DrainOne(p)
  PROVE  OthersSameBan(p) /\ BanOK(p)' /\ (wstate[p] = "BANNED" => SameBan(p))
<1>1. CASE TaskBegins(p)
  <2>1. /\ wpc[p] = "loop" /\ wd' = wd
        /\ prev' = [prev EXCEPT ![p] = wstate[p]]
        /\ wstate' = [wstate EXCEPT ![p] = "EXECUTING"] /\ wpc' = [wpc EXCEPT ![p] = "task"]
    BY <1>1, Zenon DEF TaskBegins
  <2>2. wstate[p] # "BANNED"
    BY <2>1, Zenon DEF BanOK
  <2>3. prev'[p] # "BANNED" /\ wstate'[p] # "BANNED"
    BY <2>1, <2>2, StateTypes, Zenon
  <2>4. OthersSameBan(p)
    BY <2>1, StateTypes, Zenon DEF OthersSameBan, SameBan
  <2> QED  BY <2>1, <2>2, <2>3, <2>4, Zenon DEF BanOK
<1>2. CASE TaskEnds(p)
  <2>1. /\ wpc[p] = "task" /\ wd' = wd /\ prev' = prev
        /\ wstate' = [wstate EXCEPT ![p] = prev[p]] /\ wpc' = [wpc EXCEPT ![p] = "check"]
    BY <1>2, Zenon DEF TaskEnds
  <2>2. wstate[p] # "BANNED" /\ prev[p] # "BANNED"
    BY <2>1, Zenon DEF BanOK
  <2>3. wpc'[p] = "check" /\ wstate'[p] # "BANNED"
    BY <2>1, <2>2, StateTypes, Zenon
  <2>4. OthersSameBan(p)
    BY <2>1, StateTypes, Zenon DEF OthersSameBan, SameBan
  <2> QED  BY <2>1, <2>2, <2>3, <2>4, Zenon DEF BanOK
<1>3. CASE DrainOne(p)
  BY <1>3, Zenon DEF DrainOne, OthersSameBan, SameBan, BanOK
<1> QED  BY <1>1, <1>2, <1>3, Zenon

(* The end of a worker: one that is BANNED is over. *)
LEMMA BanOfEnd ==
  ASSUME WInv, NEW p \in Ports, BanOK(p), Terminates(p) \/ DrainEnds(p)
  PROVE  /\ OthersSameBan(p) /\ BanOK(p)'
         /\ wstate[p] = "BANNED" => wstate'[p] = "BANNED" /\ wpc'[p] = "over"
<1>1. /\ wstate' = wstate /\ prev' = prev /\ wd' = [wd EXCEPT ![p] = "off"]
      /\ \E x \in {"over", "backoff"} :
           /\ wpc' = [wpc EXCEPT ![p] = x]
           /\ wstate[p] = "BANNED" => x = "over"
  <2>1. CASE Terminates(p)
    BY <2>1, Zenon DEF Terminates, Exit, AfterRun
  <2>2. CASE DrainEnds(p)
    BY <2>2, Zenon DEF DrainEnds, Exit
  <2> QED  BY <2>1, <2>2, Zenon
<1>2. OthersSameBan(p)
  BY <1>1, StateTypes, Zenon DEF OthersSameBan, SameBan
<1>3. wd'[p] = "off" /\ wpc'[p] # "task" /\ (wstate[p] = "BANNED" => wpc'[p] = "over")
  BY <1>1, StateTypes, Zenon
<1> QED  BY <1>1, <1>2, <1>3, Zenon DEF BanOK

(* Who is BANNED stays so and is not restarted. *)
BanKept == \A p \in Ports : wstate[p] = "BANNED" => wstate'[p] = "BANNED"
/\ wpc'[p] # "start"

(* Every step keeps BanInv, and until a watchdog fires none lifts a ban. *)
LEMMA BanStep ==
  ASSUME WInv, BanInv, [WorkersNext]_wVars
  PROVE  BanInv' /\ (faults'["stall"] = MaxStalls => BanKept)
<1>0. /\ "stall" \in FaultKinds
      /\ "swap" # "stall" /\ "reset" # "stall" /\ "term" # "stall"
  BY Zenon DEF FaultKinds
<1>1. ASSUME NEW p \in Ports, WorkerStep(p)
      PROVE  BanInv' /\ (faults'["stall"] = MaxStalls => BanKept)
  <2>1. faults'["stall"] = faults["stall"]
    BY <1>1, WorkerFaults, Zenon
  <2>2. ASSUME \A q \in Ports : BanOK(q)  PROVE BanKept /\ \A q \in Ports : BanOK(q)'
    <3>1. OthersSameBan(p) /\ BanOK(p)'
      BY <1>1, <2>2, BanOfBeginning, BanOfTurn, BanOfTask, BanOfEnd, Zenon DEF WorkerStep
    <3>2. wstate[p] = "BANNED" => SameBan(p) \/ (wstate'[p] = "BANNED" /\ wpc'[p] = "over")
      BY <1>1, <2>2, BanOfBeginning, BanOfTurn, BanOfTask, BanOfEnd, Zenon DEF WorkerStep
    <3>3. \A q \in Ports : wstate[q] = "BANNED" => wpc[q] # "start"
      BY <2>2, Zenon DEF BanOK
    <3>4. BanKept
      BY <3>1, <3>2, <3>3, Zenon DEF BanKept, OthersSameBan, SameBan
    <3>5. \A q \in Ports : BanOK(q)'
      BY <2>2, <3>1, Zenon DEF OthersSameBan, SameBan, BanOK
    <3> QED  BY <3>4, <3>5, Zenon
  <2> QED  BY <2>1, <2>2, Zenon DEF BanInv
<1>2. ASSUME UNCHANGED <<wpc, wstate, prev, wd>>, faults'["stall"] = faults["stall"]
      PROVE  BanInv' /\ (faults'["stall"] = MaxStalls => BanKept)
  <2>1. wpc' = wpc /\ wstate' = wstate /\ prev' = prev /\ wd' = wd
    BY <1>2
  <2>2. BanInv'
    BY <1>2, <2>1, Zenon DEF BanInv, BanOK
  <2>3. faults'["stall"] = MaxStalls => BanKept
    BY <1>2, <2>1, Zenon DEF BanInv, BanOK, BanKept
  <2> QED  BY <2>2, <2>3, Zenon
<1>3. CASE \/ \E t \in Tasks : DispatchMalformed(t)
           \/ \E t \in Tasks, s \in Sims : DispatchLookup(t, s)
           \/ DispatchSend
           \/ UNCHANGED wVars
  <2>1. UNCHANGED <<wpc, wstate, prev, wd>> /\ UNCHANGED faults
    BY <1>3 DEF DispatchMalformed, DispatchLookup, DispatchSend, wVars, portVars
  <2> QED  BY <1>2, <2>1, Zenon
<1>4. CASE (\E s \in Sims : RequestReset(s)) \/ (\E p, q \in Ports : SwapSims(p, q))
           \/ Sigterm
  <2>1. UNCHANGED <<wpc, wstate, prev, wd>>
    BY <1>4 DEF RequestReset, SwapSims, Sigterm, portVars
  <2>2. faults'["stall"] = faults["stall"]
    BY <1>0, <1>4, OtherFault, Zenon DEF RequestReset, SwapSims, Sigterm
  <2> QED  BY <1>2, <2>1, <2>2, Zenon
<1>5. ASSUME NEW p \in Ports, WatchdogDetects(p)
      PROVE  BanInv' /\ (faults'["stall"] = MaxStalls => BanKept)
  <2>1. Fault("stall")
    BY <1>5, Zenon DEF WatchdogDetects
  <2>2. faults \in [FaultKinds -> Nat] /\ MaxStalls \in Nat /\ faults["stall"] <= MaxStalls
    BY WorkersAssumption, Zenon DEF WInv, WorkersTypeOK, BanInv
  <2>3. faults'["stall"] = faults["stall"] - 1 /\ faults["stall"] \in Nat
    BY <1>0, <2>1, <2>2 DEF Fault
  <2>4. faults'["stall"] <= MaxStalls /\ faults'["stall"] # MaxStalls
    BY <2>2, <2>3
  <2> QED  BY <2>4, Zenon DEF BanInv
<1>6. ASSUME NEW p \in Ports, WatchdogStores(p)
      PROVE  BanInv' /\ (faults'["stall"] = MaxStalls => BanKept)
  <2>1. wd[p] = "fire" /\ faults' = faults
    BY <1>6, Zenon DEF WatchdogStores
  <2> QED  BY <2>1, Zenon DEF BanInv, BanOK
<1> QED  BY <1>1, <1>3, <1>4, <1>5, <1>6, Zenon DEF WorkersNext
=============================================================================
