--------------------------- MODULE WorkersProofs ----------------------------
(* The invariant of Workers and what follows from it, for every value of the
   constants. *)
EXTENDS WorkersSteps, FiniteSetTheorems

(* Steps of Dispatch. *)

(* A task that was not handed to Dispatch is nowhere. *)
LEMMA NewTask ==
  ASSUME WInv, NEW t \in Tasks, target[t] = None, answer[t] = <<>>
  PROVE  ~Queued(t) /\ ~Executed(t) /\ disp.task # t /\ t \notin stranded /\ ran[t] = 0
  BY Zenon DEF WInv, TaskInv, TaskOK, Handed

(* A task is refused: it is answered, and nothing else changes. *)
LEMMA Refused ==
  ASSUME WInv, NEW u \in Tasks, Ack(u, "NOT_FOUND"), disp'.task = None,
         ~Queued(u), ~Executed(u), u \notin stranded, answer[u] = <<>>, ran[u] = 0,
         disp.task \in {u, None},
         \A t \in Tasks : t # u => target'[t] = target[t],
         UNCHANGED <<queue, cur, ran, stranded>>
  PROVE  QueuedOnce' /\ ExecutedOnce' /\ TaskInv' /\ AnswersAreTrue'
<1> USE DEF WInv
<1>1. /\ answer'[u] # <<>> /\ Len(answer'[u]) <= 1 /\ Head(answer'[u]) = "NOT_FOUND"
      /\ \A t \in Tasks : t # u => answer'[t] = answer[t]
  BY AckStep, Zenon DEF Answers
<1>2. \A t \in Tasks : (Queued(t)' <=> Queued(t)) /\ (Executed(t)' <=> Executed(t))
  BY Zenon DEF Queued, Executed, Holds
<1>3. QueuedOnce' /\ ExecutedOnce'
  BY DEF QueuedOnce, ExecutedOnce
<1>4. ASSUME NEW t \in Tasks  PROVE TaskOK(t)'
  <2>1. CASE t # u
    <3>1. disp'.task # t /\ disp.task # t
      BY <2>1, WorkersAssumption, Zenon
    <3> QED  BY <1>1, <1>2, <2>1, <3>1, SameTask, Zenon DEF Same
  <2>2. CASE t = u
    <3>1. ~Queued(t)' /\ ~Executed(t)' /\ disp'.task # t /\ t \notin stranded'
      BY <1>2, <2>2, WorkersAssumption, Zenon
    <3>2. answer'[t] # <<>> /\ Len(answer'[t]) <= 1
      BY <1>1, <2>2, Zenon
    <3> QED  BY <3>1, <3>2, Zenon DEF TaskOK, Handed
  <2> QED  BY <2>1, <2>2, Zenon
<1>5. ASSUME NEW t \in Tasks
      PROVE  /\ answer'[t] # <<>> /\ Head(answer'[t]) \in {"NACK", "NOT_FOUND"}
                  => ran'[t] = 0
             /\ answer'[t] # <<>> /\ Head(answer'[t]) = "SUCCESS" => ran'[t] = 1
             /\ ran'[t] <= 1
  <2>1. CASE t # u
    BY <1>1, <2>1, Zenon DEF AnswersAreTrue
  <2>2. CASE t = u
    BY <1>1, <2>2
  <2> QED  BY <2>1, <2>2, Zenon
<1> QED  BY <1>3, <1>4, <1>5, Zenon DEF TaskInv, AnswersAreTrue

(* Where no worker moves, all that is said of workers stays true. *)
LEMMA PortsStay ==
  ASSUME WInv, UNCHANGED <<wpc, iccid, queue, cur, simIn, registry>>
  PROVE  WorkerInv' /\ RegisteredIsRunning'
  BY Zenon DEF WInv, WorkerInv, RegisteredIsRunning, InLoop

(* A task that cannot be read is refused. *)
LEMMA DispatchMalformedKeeps ==
  ASSUME WInv, NEW u \in Tasks, DispatchMalformed(u)
  PROVE  Rest'
<1>1. /\ disp = NoDispatch /\ target[u] = None /\ answer[u] = <<>> /\ Ack(u, "NOT_FOUND")
      /\ UNCHANGED <<wpc, iccid, queue, cur, simIn, registry, disp, target, ran, stranded>>
  BY Zenon DEF DispatchMalformed, portVars
<1>2. DispInv' /\ RoutedToItsSim'
  BY <1>1, Zenon DEF WInv, DispInv, RoutedToItsSim, Holds
<1> QED  BY <1>1, <1>2, NewTask, Refused, PortsStay, Zenon DEF Rest, NoDispatch

(* A task is looked up: it is under way to a worker, or refused. *)
LEMMA DispatchLookupKeeps ==
  ASSUME WInv, NEW u \in Tasks, NEW s \in Sims, DispatchLookup(u, s)
  PROVE  Rest'
<1>1. /\ disp = NoDispatch /\ target[u] = None /\ answer[u] = <<>>
      /\ target' = [target EXCEPT ![u] = s]
      /\ UNCHANGED <<wpc, iccid, queue, cur, simIn, registry, ran, stranded>>
  BY Zenon DEF DispatchLookup, portVars
<1>2. ~Queued(u) /\ ~Executed(u) /\ disp.task # u /\ u \notin stranded /\ ran[u] = 0
  BY <1>1, NewTask, Zenon
<1>3. target'[u] = s /\ \A t \in Tasks : t # u => target'[t] = target[t]
  BY <1>1, Zenon DEF WInv, WorkersTypeOK
<1>4. WorkerInv' /\ RegisteredIsRunning'
  BY <1>1, PortsStay, Zenon
<1>5. RoutedToItsSim'
  <2>1. \A p \in Ports, t \in Tasks : Holds(p, t)' <=> Holds(p, t)
    BY <1>1, Zenon DEF Holds
  <2>2. \A p \in Ports : cur[p] # u /\ ~Holds(p, u)
    BY <1>2, Zenon DEF Queued, Executed
  <2> QED  BY <1>1, <1>3, <2>1, <2>2, Zenon DEF WInv, RoutedToItsSim
<1>6. CASE registry[s] = None
  <2>1. Ack(u, "NOT_FOUND") /\ disp' = NoDispatch
    BY <1>1, <1>6, Zenon DEF DispatchLookup
  <2>2. DispInv'
    BY <2>1, Zenon DEF DispInv, NoDispatch
  <2> QED  BY <1>1, <1>2, <1>3, <1>4, <1>5, <2>1, <2>2, Refused, Zenon DEF Rest, NoDispatch
<1>7. CASE registry[s] # None
  <2>1. disp' = [task |-> u, to |-> registry[s], gone |-> FALSE] /\ answer' = answer
    BY <1>7, Zenon DEF DispatchLookup
  <2>2. iccid[registry[s]] = s
    BY <1>7, Zenon DEF WInv, RegisteredIsRunning
  <2>3. DispInv'
    BY <1>1, <1>3, <1>7, <2>1, <2>2, WorkersAssumption, Zenon DEF DispInv
  <2>4. \A t \in Tasks : (Queued(t)' <=> Queued(t)) /\ (Executed(t)' <=> Executed(t))
    BY <1>1, Zenon DEF Queued, Executed, Holds
  <2>5. QueuedOnce' /\ ExecutedOnce' /\ AnswersAreTrue'
    BY <1>1, <2>1 DEF WInv, QueuedOnce, ExecutedOnce, AnswersAreTrue
  <2>6. ASSUME NEW t \in Tasks  PROVE TaskOK(t)'
    <3>1. CASE t # u
      <4>1. disp'.task # t /\ disp.task # t
        BY <1>1, <2>1, <3>1, WorkersAssumption, Zenon DEF NoDispatch
      <4> QED  BY <1>1, <1>3, <2>1, <2>4, <3>1, <4>1, SameTask, Zenon DEF Same
    <3>2. CASE t = u
      <4>1. disp'.task = t /\ ~Queued(t)' /\ ~Executed(t)' /\ t \notin stranded'
        BY <1>1, <1>2, <2>1, <2>4, <3>2, Zenon
      <4>2. answer'[t] = <<>> /\ ran'[t] = 0 /\ target'[t] # None
        BY <1>1, <1>2, <1>3, <2>1, <3>2, WorkersAssumption, Zenon
      <4> QED  BY <4>1, <4>2 DEF TaskOK, Handed
    <3> QED  BY <3>1, <3>2, Zenon
  <2> QED  BY <1>4, <1>5, <2>3, <2>5, <2>6, Zenon DEF Rest, TaskInv
<1> QED  BY <1>6, <1>7, Zenon

(* The task is sent to the worker found before, which may be gone, or refused. *)
LEMMA DispatchSendKeeps ==
  ASSUME WInv, DispatchSend
  PROVE  Rest'
<1> USE DEF WInv
<1>0. PICK u \in Tasks, w \in Ports : u = disp.task /\ w = disp.to
  BY Zenon DEF DispatchSend, DispInv, WorkersTypeOK
<1>1. /\ disp' = NoDispatch /\ disp'.task = None
      /\ UNCHANGED <<wpc, iccid, cur, simIn, registry, target, ran>>
  BY Zenon DEF DispatchSend, NoDispatch
<1>2. /\ ~Queued(u) /\ ~Executed(u) /\ u \notin stranded /\ answer[u] = <<>>
      /\ ran[u] = 0 /\ target[u] # None
  BY <1>0, WorkersAssumption, Zenon DEF TaskInv, TaskOK, DispInv
<1>3. \A t \in Tasks : t # u => disp'.task # t /\ disp.task # t
  BY <1>0, <1>1, WorkersAssumption, Zenon
<1>4. \A t \in Tasks : Executed(t)' <=> Executed(t)
  BY <1>1, Zenon DEF Executed
<1>5. DispInv' /\ ExecutedOnce'
  BY <1>1, Zenon DEF DispInv, ExecutedOnce
<1>6. CASE ~disp.gone /\ queue' = [queue EXCEPT ![w] = Append(@, u)]
           /\ UNCHANGED <<answer, stranded>>
  <2>1. /\ QueuedOnce'
        /\ \A q \in Ports, t \in Tasks : Holds(q, t)' <=> Holds(q, t) \/ (q = w /\ t = u)
        /\ \A t \in Tasks : Queued(t)' <=> Queued(t) \/ t = u
    BY <1>2, <1>6, Added, Zenon
  <2>2. target[u] = iccid[w] /\ iccid[w] # None
    BY <1>0, <1>2, <1>6, WorkersAssumption, Zenon DEF DispInv
  <2>3. WorkerInv'
    <3>1. \A q \in Ports : q # w => queue'[q] = queue[q]
      BY <1>6, Zenon DEF WorkersTypeOK
    <3> QED  BY <1>1, <2>2, <3>1, Zenon DEF WorkerInv
  <2>4. RegisteredIsRunning' /\ AnswersAreTrue'
    BY <1>1, <1>6, Zenon DEF RegisteredIsRunning, InLoop, AnswersAreTrue
  <2>5. RoutedToItsSim'
    BY <1>1, <2>1, <2>2, Zenon DEF RoutedToItsSim
  <2>6. ASSUME NEW t \in Tasks  PROVE TaskOK(t)'
    <3>1. CASE t # u
      BY <1>1, <1>3, <1>4, <1>6, <2>1, <3>1, SameTask, ZenonT(30) DEF Same
    <3>2. CASE t = u
      <4>1. disp'.task # t /\ Queued(t)' /\ ~Executed(t)' /\ t \notin stranded'
        BY <1>1, <1>2, <1>4, <1>6, <2>1, <3>2, WorkersAssumption, ZenonT(30)
      <4>2. answer'[t] = <<>> /\ ran'[t] = 0 /\ target'[t] # None
        BY <1>1, <1>2, <1>6, <3>2, Zenon
      <4> QED  BY <4>1, <4>2 DEF TaskOK, Handed
    <3> QED  BY <3>1, <3>2, Zenon
  <2> QED  BY <1>5, <2>1, <2>3, <2>4, <2>5, <2>6, Zenon DEF Rest, TaskInv
<1>7. CASE stranded' = stranded \cup {u} /\ UNCHANGED <<queue, answer>>
  <2>1. QueuedOnce' /\ AnswersAreTrue'
    BY <1>1, <1>7 DEF QueuedOnce, AnswersAreTrue
  <2>2. WorkerInv' /\ RegisteredIsRunning'
    BY <1>1, <1>7, PortsStay, Zenon
  <2>3. RoutedToItsSim'
    BY <1>1, <1>7, Zenon DEF RoutedToItsSim, Holds
  <2>4. \A t \in Tasks : Queued(t)' <=> Queued(t)
    BY <1>7, Zenon DEF Queued, Holds
  <2>5. ASSUME NEW t \in Tasks  PROVE TaskOK(t)'
    <3>1. CASE t # u
      BY <1>1, <1>3, <1>4, <1>7, <2>4, <3>1, SameTask, Zenon DEF Same
    <3>2. CASE t = u
      <4>1. disp'.task # t /\ ~Queued(t)' /\ ~Executed(t)' /\ t \in stranded'
        BY <1>1, <1>2, <1>4, <1>7, <2>4, <3>2, WorkersAssumption, Zenon
      <4>2. answer'[t] = <<>> /\ ran'[t] = 0 /\ target'[t] # None
        BY <1>1, <1>2, <1>7, <3>2, Zenon
      <4> QED  BY <4>1, <4>2 DEF TaskOK, Handed
    <3> QED  BY <3>1, <3>2, Zenon
  <2> QED  BY <1>5, <2>1, <2>2, <2>3, <2>5, ZenonT(30) DEF Rest, TaskInv
<1>8. CASE Ack(u, "NOT_FOUND") /\ UNCHANGED <<queue, stranded>>
  <2>1. WorkerInv' /\ RegisteredIsRunning'
    BY <1>1, <1>8, PortsStay, Zenon
  <2>2. RoutedToItsSim'
    BY <1>1, <1>8, Zenon DEF RoutedToItsSim, Holds
  <2>3. QueuedOnce' /\ ExecutedOnce' /\ TaskInv' /\ AnswersAreTrue'
    BY <1>0, <1>1, <1>2, <1>8, Refused, Zenon
  <2> QED  BY <1>5, <2>1, <2>2, <2>3, Zenon DEF Rest
<1> QED  BY <1>0, <1>6, <1>7, <1>8, Zenon DEF DispatchSend

-----------------------------------------------------------------------------
(* The invariant. *)

(* The invariant holds at the start. *)
LEMMA InitHolds ==
  ASSUME WorkersInit
  PROVE  WInv
<1>1. \E f \in [Ports -> Sims] : Injective(f)
  BY WorkersAssumption, Zenon
<1>2. HomeSim \in [Ports -> Sims]
  BY <1>1, Zenon DEF HomeSim
<1>3. WorkersTypeOK
  <2>1. faults \in [FaultKinds -> Nat]
    BY WorkersAssumption DEF WorkersInit, FaultKinds
  <2>2. /\ queue \in [Ports -> Seq(Tasks)] /\ \A p \in Ports : Len(queue[p]) <= QueueCap
        /\ answer \in [Tasks -> Seq(Answers)]
    BY WorkersAssumption DEF WorkersInit
  <2>3. disp \in [task : Tasks \cup {None}, to : Ports \cup {None}, gone : BOOLEAN]
    BY Zenon DEF WorkersInit, NoDispatch
  <2>4. /\ wstate \in [Ports -> States] /\ prev \in [Ports -> States]
        /\ iccid \in [Ports -> Sims \cup {None}] /\ cur \in [Ports -> Tasks \cup {None}]
    BY Zenon DEF WorkersInit, States
  <2>5. /\ open \in [Ports -> BOOLEAN] /\ resetReq \in [Ports -> BOOLEAN]
        /\ wd \in [Ports -> {"off", "watch", "fire"}]
        /\ simIn \in [Ports -> Sims \cup {None}]
    BY <1>2, Zenon DEF WorkersInit
  <2>6. /\ wpc \in [Ports -> Handlers \cup {"start", "init", "registered", "loop", "check",
                                            "drain", "backoff", "over"}]
    BY Zenon DEF WorkersInit
  <2>7. /\ registry \in [Sims -> Ports \cup {None}]
        /\ target \in [Tasks -> Sims \cup {None}] /\ ran \in [Tasks -> Nat]
    BY Zenon DEF WorkersInit
  <2>8. stranded \subseteq Tasks /\ ctxDone \in BOOLEAN /\ fired \subseteq Ports
    BY Zenon DEF WorkersInit
  <2>9. gauge \in Int
    BY DEF WorkersInit
  <2> QED  BY <2>1, <2>2, <2>3, <2>4, <2>5, <2>6, <2>7, <2>8, <2>9, SMTT(20)
              DEF WorkersTypeOK
<1>4. WorkerInv
  BY <1>2, WorkersAssumption, Zenon DEF WorkersInit, WorkerInv
<1>5. DispInv /\ QueuedOnce /\ ExecutedOnce
  BY DEF WorkersInit, DispInv, NoDispatch, QueuedOnce, ExecutedOnce
<1>6. TaskInv
  BY WorkersAssumption
     DEF WorkersInit, TaskInv, TaskOK, NoDispatch, Queued, Holds, Executed, Handed
<1>7. RegisteredIsRunning /\ RoutedToItsSim /\ AnswersAreTrue
  BY WorkersAssumption DEF WorkersInit, RegisteredIsRunning, RoutedToItsSim, Holds,
     AnswersAreTrue
<1> QED  BY <1>3, <1>4, <1>5, <1>6, <1>7, Zenon DEF WInv

(* Every step keeps the invariant. *)
LEMMA NextKeeps ==
  ASSUME WInv, [WorkersNext]_wVars
  PROVE  WInv'
<1>1. Rest'
  <2>1. CASE UNCHANGED wVars
    BY <2>1, OtherPlainSteps, PlainKeeps, Zenon
  <2>2. ASSUME NEW p \in Ports, WorkerStep(p) \/ WatchdogDetects(p) \/ WatchdogStores(p)
        PROVE  Rest'
    <3>1. CASE Plain(p)
      BY <3>1, PlainSteps, PlainKeeps, Zenon
    <3> QED
      BY <2>2, <3>1, InitSequenceKeeps, ShutdownBeginsKeeps, TaskBeginsKeeps, TaskEndsKeeps,
         DrainOneKeeps, TerminatesKeeps, DrainEndsKeeps, ZenonT(30) DEF WorkerStep, Plain
  <2>3. CASE \/ \E s \in Sims : RequestReset(s)
             \/ \E p, q \in Ports : SwapSims(p, q)
             \/ Sigterm
    BY <2>3, OtherPlainSteps, PlainKeeps, Zenon
  <2>4. CASE \/ \E t \in Tasks : DispatchMalformed(t)
             \/ \E t \in Tasks, s \in Sims : DispatchLookup(t, s)
             \/ DispatchSend
    BY <2>4, DispatchMalformedKeeps, DispatchLookupKeeps, DispatchSendKeeps, Zenon
  <2> QED  BY <2>1, <2>2, <2>3, <2>4, Zenon DEF WorkersNext
<1> QED  BY <1>1, TypesPreserved, Zenon DEF Rest, WInv

(* In every behaviour of the router, the registry, the workers, their watchdogs and
   supervisors the invariant holds, however many modems, SIMs and tasks there are. *)
THEOREM WorkersInvariant == WorkersSpec => []WInv
<1>1. WorkersInit => WInv
  BY InitHolds, Zenon
<1>2. WInv /\ [WorkersNext]_wVars => WInv'
  BY NextKeeps, Zenon
<1> QED  BY <1>1, <1>2, PTL DEF WorkersSpec

(* A task answered SUCCESS ran exactly once, and one that was refused or answered NACK
   never: TaskEnds, DrainOne and Dispatch answer truthfully. *)
THEOREM TruthfulAnswers == WorkersSpec => []AnswersAreTrue
<1>1. WInv => AnswersAreTrue
  BY Zenon DEF WInv
<1> QED  BY <1>1, WorkersInvariant, PTL

(* No worker ever has a task of another SIM, although Dispatch sends to a worker it
   looked up before. *)
THEOREM RightSim == WorkersSpec => []RoutedToItsSim
<1>1. WInv => RoutedToItsSim
  BY Zenon DEF WInv
<1> QED  BY <1>1, WorkersInvariant, PTL

(* An entry of the registry leads to a worker in its main loop, or about to enter it. *)
THEOREM RegistryLeadsToRunning == WorkersSpec => []RegisteredIsRunning
<1>1. WInv => RegisteredIsRunning
  BY Zenon DEF WInv
<1> QED  BY <1>1, WorkersInvariant, PTL

-----------------------------------------------------------------------------
(* A set of one element. *)
LEMMA OneElement == \A x : Cardinality({x}) = 1
  BY FS_Singleton, Zenon

(* The invariant leaves a task in one place, and one only. *)
LEMMA InvGivesOnePlace ==
  ASSUME WInv
  PROVE  OnePlace
<1> SUFFICES ASSUME NEW t \in Tasks
             PROVE  Cardinality(Places(t)) = IF Handed(t) THEN 1 ELSE 0
  BY Zenon DEF OnePlace
<1> DEFINE D == {<<None, 0>> : x \in {disp.task} \cap {t}}
           Q == {x \in Ports \X (1 .. QueueCap) : x[2] \in DOMAIN queue[x[1]]
           /\ queue[x[1]][x[2]] = t}
           E == {<<p, 0>> : p \in {q \in Ports : cur[q] = t}}
           A == {<<t, k>> : k \in DOMAIN answer[t]}
           S == {<<t, 0>> : x \in stranded \cap {t}}
<1>1. Places(t) = D \cup Q \cup E \cup A \cup S
  BY Zenon DEF Places
<1>2. TaskOK(t)
  BY Zenon DEF WInv, TaskInv
<1>3. disp.task # t => D = {}
  BY Zenon
<1>4. ~Queued(t) => Q = {}
  BY Zenon DEF Queued, Holds
<1>5. ~Executed(t) => E = {}
  BY Zenon DEF Executed
<1>6. answer[t] = <<>> => A = {}
  OBVIOUS
<1>7. t \notin stranded => S = {}
  BY Zenon
<1>8. disp.task = t => D = {<<None, 0>>}
  BY Zenon
<1>9. Queued(t) => \E x : Q = {x}
  <2> SUFFICES ASSUME Queued(t)  PROVE \E x : Q = {x}
    BY Zenon
  <2>1. PICK p \in Ports : \E k \in DOMAIN queue[p] : queue[p][k] = t
    BY Zenon DEF Queued, Holds
  <2>2. PICK k \in DOMAIN queue[p] : queue[p][k] = t
    BY <2>1, Zenon
  <2>3. k \in 1 .. QueueCap
    <3>1. queue[p] \in Seq(Tasks) /\ Len(queue[p]) <= QueueCap /\ QueueCap \in Nat
      BY WorkersAssumption, Zenon DEF WInv, WorkersTypeOK
    <3> QED  BY <3>1
  <2>4. <<p, k>> \in Q
    BY <2>2, <2>3, Zenon
  <2>5. ASSUME NEW x \in Q  PROVE x = <<p, k>>
    <3>1. /\ x[1] \in Ports /\ x[2] \in DOMAIN queue[x[1]] /\ queue[x[1]][x[2]] = t
          /\ x = <<x[1], x[2]>>
      OBVIOUS
    <3>2. x[1] = p /\ x[2] = k
      BY <2>2, <3>1 DEF WInv, QueuedOnce
    <3> QED  BY <3>1, <3>2, Zenon
  <2> QED  BY <2>4, <2>5
<1>10. Executed(t) => \E x : E = {x}
  <2> SUFFICES ASSUME Executed(t)  PROVE \E x : E = {x}
    BY Zenon
  <2>1. PICK p \in Ports : cur[p] = t
    BY Zenon DEF Executed
  <2>2. {q \in Ports : cur[q] = t} = {p}
    BY <2>1, WorkersAssumption, Zenon DEF WInv, ExecutedOnce
  <2>3. E = {<<q, 0>> : q \in {p}}
    BY <2>2, Zenon
  <2>4. {<<q, 0>> : q \in {p}} = {<<p, 0>>}
    BY Zenon
  <2> QED  BY <2>3, <2>4, Zenon
<1>11. answer[t] # <<>> => A = {<<t, 1>>}
  <2> SUFFICES ASSUME answer[t] # <<>>  PROVE A = {<<t, 1>>}
    BY Zenon
  <2>1. answer[t] \in Seq(Answers) /\ Len(answer[t]) <= 1
    BY <1>2, Zenon DEF TaskOK, WInv, WorkersTypeOK
  <2>2. DOMAIN answer[t] = {1}
    BY <2>1
  <2> QED  BY <2>2, Zenon
<1>12. t \in stranded => S = {<<t, 0>>}
  BY Zenon
<1> HIDE DEF D, Q, E, A, S
<1>13. CASE ~Handed(t)
  <2>1. Places(t) = {}
    BY <1>1, <1>2, <1>3, <1>4, <1>5, <1>6, <1>7, <1>13, ZenonT(30) DEF TaskOK
  <2> QED  BY <1>13, <2>1, FS_EmptySet, Zenon
<1>14. CASE Handed(t)
  <2>1. \E x : Places(t) = {x}
    <3>1. CASE disp.task = t
      BY <1>1, <1>2, <1>4, <1>5, <1>6, <1>7, <1>8, <3>1, ZenonT(30) DEF TaskOK
    <3>2. CASE Queued(t)
      BY <1>1, <1>2, <1>3, <1>5, <1>6, <1>7, <1>9, <3>2, ZenonT(30) DEF TaskOK
    <3>3. CASE Executed(t)
      BY <1>1, <1>2, <1>3, <1>4, <1>6, <1>7, <1>10, <3>3, ZenonT(30) DEF TaskOK
    <3>4. CASE t \in stranded
      BY <1>1, <1>2, <1>3, <1>4, <1>5, <1>6, <1>12, <3>4, Zenon DEF TaskOK
    <3>5. CASE answer[t] # <<>>
      BY <1>1, <1>2, <1>3, <1>4, <1>5, <1>7, <1>11, <3>5, ZenonT(30) DEF TaskOK
    <3> QED  BY <1>2, <1>14, <3>1, <3>2, <3>3, <3>4, <3>5, ZenonT(30) DEF TaskOK
  <2> QED  BY <1>14, <2>1, OneElement, Zenon
<1> QED  BY <1>13, <1>14, Zenon

(* A task handed to Dispatch is in exactly one place: under way, in one queue, in
   execution, stranded with a worker that has ended, or answered, once. *)
THEOREM TaskInOnePlace == WorkersSpec => []OnePlace
<1>1. WInv => OnePlace
  BY InvGivesOnePlace, Zenon
<1> QED  BY <1>1, WorkersInvariant, PTL

(* The workers the gauge has counted and that have not ended. *)
Counted == Handlers \cup {"loop", "check", "drain"}
Running == {p \in Ports : wpc[p] \in Counted}
GaugeInv == gauge >= Cardinality(Running)

(* Only Activate adds a worker and only DrainEnds subtracts one. *)
LEMMA RunningShrinks ==
  ASSUME WorkersTypeOK, [WorkersNext]_wVars,
         \A p \in Ports : ~Activate(p) /\ ~DrainEnds(p)
  PROVE  gauge' = gauge /\ Running' \subseteq Running
<1>1. CASE UNCHANGED <<wpc, gauge>>
  BY <1>1, Zenon DEF Running
<1>2. ASSUME NEW p \in Ports, NEW x \in Pcs, wpc' = [wpc EXCEPT ![p] = x],
             x \in Outside \cup {"registered"} \/ wpc[p] \in Counted
      PROVE  Running' \subseteq Running
  BY <1>2, Zenon DEF Running, WorkersTypeOK, Outside, Counted, Handlers
<1>3. ASSUME NEW p \in Ports, WorkerStep(p)
      PROVE  gauge' = gauge /\ Running' \subseteq Running
  <2>1. \A f : AfterRun(f) \in {"over", "backoff"}
    BY Zenon DEF AfterRun
  <2>2. CASE OpenPort(p) \/ InitFails(p) \/ Restart(p)
    BY <1>2, <2>1, <2>2, Zenon DEF OpenPort, InitFails, Restart, Outside, Pcs
  <2>3. CASE InitSequence(p)
    BY <1>2, <2>3, Zenon DEF InitSequence, Pcs, Reachable
  <2>4. CASE \/ TurnBegins(p) \/ TurnEnds(p) \/ KeepaliveDenied(p) \/ KeepaliveFails(p)
             \/ RecoverySucceeds(p) \/ RecoveryFails(p)
    BY <1>2, <2>4, Zenon DEF TurnBegins, TurnEnds, KeepaliveDenied, KeepaliveFails,
       RecoverySucceeds,
                      RecoveryFails, Counted, Handlers, Pcs, Reachable
  <2>5. CASE ResetBegins(p) \/ ResetEnds(p) \/ TaskBegins(p) \/ TaskEnds(p) \/ Continues(p)
    BY <1>2, <2>5, Zenon DEF ResetBegins, ResetEnds, TaskBegins, TaskEnds, Continues,
                      Counted, Handlers, Pcs, Reachable
  <2>6. CASE Terminates(p)
    BY <1>2, <2>1, <2>6, Zenon DEF Terminates, Exit, Outside, Pcs
  <2>7. CASE ShutdownBegins(p)
    BY <1>2, <2>7, Zenon DEF ShutdownBegins, Counted, Pcs
  <2>8. CASE DrainOne(p)
    BY <1>1, <2>8, Zenon DEF DrainOne
  <2> QED  BY <1>3, <2>2, <2>3, <2>4, <2>5, <2>6, <2>7, <2>8, ZenonT(30) DEF WorkerStep
<1>4. CASE \/ UNCHANGED wVars
           \/ \E t \in Tasks : DispatchMalformed(t)
           \/ \E t \in Tasks, s \in Sims : DispatchLookup(t, s)
           \/ DispatchSend
           \/ \E p \in Ports : WatchdogDetects(p) \/ WatchdogStores(p)
           \/ \E s \in Sims : RequestReset(s)
           \/ \E p, q \in Ports : SwapSims(p, q)
           \/ Sigterm
  BY <1>1, <1>4, Zenon DEF wVars, portVars, DispatchMalformed, DispatchLookup, DispatchSend,
                    WatchdogDetects, WatchdogStores, RequestReset, SwapSims, Sigterm
<1> QED  BY <1>3, <1>4, Zenon DEF WorkersNext

(* Every step keeps the gauge at least as high. *)
LEMMA GaugeStep ==
  ASSUME WorkersTypeOK, WorkersTypeOK', GaugeInv, [WorkersNext]_wVars
  PROVE  GaugeInv'
<1>1. /\ IsFiniteSet(Running) /\ IsFiniteSet(Running')
      /\ Cardinality(Running) \in Nat /\ Cardinality(Running') \in Nat
  <2>1. Running \subseteq Ports /\ Running' \subseteq Ports
    BY Zenon DEF Running
  <2> QED  BY <2>1, WorkersAssumption, FS_Subset, FS_CardinalityType, Zenon
<1>2. gauge \in Int /\ gauge' \in Int /\ gauge >= Cardinality(Running)
  BY Zenon DEF WorkersTypeOK, GaugeInv
<1>3. ASSUME NEW p \in Ports, Activate(p)  PROVE GaugeInv'
  <2>1. Running' = Running \cup {p} /\ gauge' = gauge + 1
    BY <1>3 DEF Activate, Running, Counted, WorkersTypeOK
  <2>2. Cardinality(Running \cup {p}) = Cardinality(Running) + 1
    <3>1. p \notin Running
      BY <1>3, Zenon DEF Activate, Running, Counted, Handlers
    <3>2. Cardinality(Running \cup {p})
            = IF p \in Running THEN Cardinality(Running) ELSE Cardinality(Running) + 1
      BY <1>1, FS_AddElement, Zenon
    <3> QED  BY <3>1, <3>2, Zenon
  <2> QED  BY <1>1, <1>2, <2>1, <2>2 DEF GaugeInv
<1>4. ASSUME NEW p \in Ports, DrainEnds(p)  PROVE GaugeInv'
  <2>1. Running' = Running \ {p} /\ p \in Running /\ gauge' = gauge - 1
    BY <1>4 DEF DrainEnds, Exit, Running, Counted, Handlers, WorkersTypeOK
  <2>2. Cardinality(Running \ {p}) = Cardinality(Running) - 1
    BY <1>1, <2>1, FS_RemoveElement, Zenon
  <2> QED  BY <1>1, <1>2, <2>1, <2>2, SMTT(20) DEF GaugeInv
<1>5. CASE \A p \in Ports : ~Activate(p) /\ ~DrainEnds(p)
  <2>1. gauge' = gauge /\ Running' \subseteq Running
    BY <1>5, RunningShrinks, Zenon
  <2>2. Cardinality(Running') <= Cardinality(Running)
    BY <1>1, <2>1, FS_Subset, Zenon
  <2> QED  BY <1>1, <1>2, <2>1, <2>2 DEF GaugeInv
<1> QED  BY <1>3, <1>4, <1>5, Zenon

(* metrics.ActiveConnections never falls below the number of workers in their main
   loop, in any sequence of failures, restarts and shutdown. *)
THEOREM GaugeCovers == WorkersSpec => []GaugeCoversRunning
<1>1. WorkersInit => GaugeInv
  <2> SUFFICES ASSUME WorkersInit  PROVE GaugeInv
    BY Zenon
  <2>1. Running = {}
    BY Zenon DEF WorkersInit, Running, Counted, Handlers
  <2> QED  BY <2>1, FS_EmptySet DEF WorkersInit, GaugeInv
<1>2. WInv /\ WInv' /\ GaugeInv /\ [WorkersNext]_wVars => GaugeInv'
  BY GaugeStep, Zenon DEF WInv
<1>3. WInv /\ GaugeInv => GaugeCoversRunning
  <2> SUFFICES ASSUME WInv, GaugeInv  PROVE GaugeCoversRunning
    BY Zenon
  <2> DEFINE L == {p \in Ports : InLoop(p)}
  <2>1. L \subseteq Running /\ Running \subseteq Ports
    BY Zenon DEF Running, InLoop, Counted
  <2>2. IsFiniteSet(Running)
    BY <2>1, WorkersAssumption, FS_Subset, Zenon
  <2>3. /\ Cardinality(L) <= Cardinality(Running)
        /\ Cardinality(L) \in Nat /\ Cardinality(Running) \in Nat
    BY <2>1, <2>2, FS_Subset, FS_CardinalityType, Zenon
  <2>4. gauge \in Int /\ gauge >= Cardinality(Running)
    BY Zenon DEF GaugeInv, WInv, WorkersTypeOK
  <2> HIDE DEF L
  <2>5. gauge >= Cardinality(L)
    BY <2>3, <2>4
  <2> QED  BY <2>5, Zenon DEF GaugeCoversRunning, L
<1> QED  BY <1>1, <1>2, <1>3, WorkersInvariant, PTL DEF WorkersSpec

-----------------------------------------------------------------------------
(* What HomeInv says of a worker in its main loop. *)
LEMMA InvGivesRegistered ==
  ASSUME WInv, HomeInv
  PROVE  AtHome => RunningIsRegistered
<1> SUFFICES ASSUME AtHome, NEW p \in Ports, InLoop(p)  PROVE registry[iccid[p]] # None
  BY Zenon DEF RunningIsRegistered
<1>1. iccid[p] # None
  BY DEF WInv, WorkerInv, InLoop, Handlers
<1>2. iccid[p] = HomeSim[p] /\ registry[HomeSim[p]] = p
  BY <1>1, Zenon DEF HomeInv
<1> QED  BY <1>2, WorkersAssumption, Zenon

(* At the start no SIM has moved and nobody is BANNED. *)
LEMMA InitHome == WorkersInit => HomeInv /\ BanInv
<1> SUFFICES ASSUME WorkersInit  PROVE HomeInv /\ BanInv
  OBVIOUS
<1>1. faults["swap"] = MaxSwaps /\ faults["stall"] = MaxStalls
  BY DEF WorkersInit
<1>2. MaxSwaps \in Nat /\ MaxStalls \in Nat
  BY WorkersAssumption, Zenon
<1>3. faults["swap"] <= MaxSwaps /\ faults["stall"] <= MaxStalls
  BY <1>1, <1>2
<1>4. HomeInv
  BY <1>3, HomeSims DEF WorkersInit, HomeInv, InLoop, Handlers
<1>5. BanInv
  BY <1>3 DEF WorkersInit, BanInv, BanOK
<1> QED  BY <1>4, <1>5, Zenon

(* The invariant together with where the SIMs are and who is BANNED. *)
THEOREM WorkersInvHolds == WorkersSpec => []WorkersInv
<1>1. WInv /\ HomeInv /\ BanInv /\ [WorkersNext]_wVars => HomeInv' /\ BanInv'
  BY HomeStep, BanStep, Zenon
<1> QED  BY <1>1, WorkersInvariant, InitHome, PTL DEF WorkersSpec, WorkersInv

(* A worker in its main loop is in the registry under its SIM, so that Dispatch finds it:
   with an expected_iccid on every port whatever happens, and without one until the
   first SIM changes its modem. *)
THEOREM RegisteredAtHome == WorkersSpec => [](AtHome => RunningIsRegistered)
  BY InvGivesRegistered, WorkersInvHolds, PTL DEF WorkersInv

EntryKept(p) ==
  Reached(p) /\ simIn[p] = iccid[p] /\ InLoop(p)' => Reached(p)' \/ FormerHolderEnds(p)

(* A worker that runs with its SIM keeps its entry through every step, unless a worker
   that registered under the same SIM, and has it no longer, deregisters. *)
LEMMA EntryKeptByStep ==
  ASSUME WInv, HomeInv, [WorkersNext]_wVars, NEW p \in Ports
  PROVE  EntryKept(p)
<1> SUFFICES ASSUME Reached(p), simIn[p] = iccid[p], InLoop(p)'
             PROVE  Reached(p)' \/ FormerHolderEnds(p)
  BY Zenon DEF EntryKept
<1>1. CASE Unregistered \/ UNCHANGED <<iccid, registry>>
  BY <1>1, Zenon DEF Unregistered, Reached
<1>2. ASSUME NEW q \in Ports, Registration(q)
      PROVE  Reached(p)' \/ FormerHolderEnds(p)
  <2>1. /\ wpc \in [Ports -> Pcs] /\ iccid \in [Ports -> Sims \cup {None}]
        /\ registry \in [Sims -> Ports \cup {None}]
    BY PortTypes, Zenon
  <2>2. /\ wpc[p] \in Reachable /\ registry[iccid[p]] = p /\ wpc'[p] \in Reachable
        /\ wpc'[p] # "registered"
    BY DEF Reached, InLoop, Reachable, Handlers
  <2>3. iccid[p] \in Sims
    BY <2>1, <2>2 DEF Reachable, Handlers, WInv, WorkerInv
  <2>4. q # p
    <3>1. /\ InitSequence(q) => wpc' = [wpc EXCEPT ![q] = "registered"]
          /\ Terminates(q) \/ ShutdownBegins(q) \/ DrainEnds(q)
               => \E x \in {"over", "backoff", "drain"} : wpc' = [wpc EXCEPT ![q] = x]
      BY Zenon DEF InitSequence, Terminates, ShutdownBegins, DrainEnds, Exit, AfterRun
    <3> QED  BY <1>2, <2>1, <2>2, <3>1 DEF Registration, Reachable, Handlers
  <2>5. CASE InitSequence(q)
    <3>1. simIn[q] # iccid[p]
      BY <2>4 DEF HomeInv, Injective, WInv, WorkersTypeOK
    <3>2. /\ iccid' = [iccid EXCEPT ![q] = simIn[q]]
          /\ registry' = [registry EXCEPT ![simIn[q]] = q]
      BY <2>5, Zenon DEF InitSequence
    <3>3. iccid'[p] = iccid[p] /\ registry'[iccid[p]] = registry[iccid[p]]
      BY <2>1, <2>3, <2>4, <3>1, <3>2, SMTT(20)
    <3> QED  BY <2>2, <3>3, Zenon DEF Reached
  <2>6. CASE Terminates(q) \/ ShutdownBegins(q)
    <3>1. /\ registry' = [registry EXCEPT ![iccid[q]] = None]
          /\ iccid' = iccid \/ iccid' = [iccid EXCEPT ![q] = None]
      BY <2>6, Zenon DEF Terminates, ShutdownBegins, Exit, Deregister
    <3>2. CASE iccid[q] = iccid[p]
      <4>1. simIn[q] # iccid[q]
        BY <2>4, <3>2 DEF HomeInv, Injective, WInv, WorkersTypeOK
      <4>2. /\ wpc[q] \in {"check", "loop"}
            /\ \E x \in {"over", "backoff", "drain"} : wpc' = [wpc EXCEPT ![q] = x]
        BY <2>6, Zenon DEF Terminates, ShutdownBegins, Exit, AfterRun
      <4>3. InLoop(q) /\ ~InLoop(q)'
        BY <2>1, <4>2, SMTT(20) DEF InLoop, Handlers
      <4> QED  BY <2>4, <3>2, <4>1, <4>3, Zenon DEF FormerHolderEnds
    <3>3. CASE iccid[q] # iccid[p]
      <4>1. iccid'[p] = iccid[p] /\ registry'[iccid[p]] = registry[iccid[p]]
        BY <2>1, <2>3, <2>4, <3>1, <3>3, SMTT(20)
      <4> QED  BY <2>2, <4>1, Zenon DEF Reached
    <3> QED  BY <3>2, <3>3, Zenon
  <2>7. CASE DrainEnds(q)
    <3>1. registry' = registry /\ iccid' = [iccid EXCEPT ![q] = None]
      BY <2>7, Zenon DEF DrainEnds, Exit
    <3> QED  BY <2>1, <2>2, <2>4, <3>1, Zenon DEF Reached
  <2> QED  BY <1>2, <2>5, <2>6, <2>7, Zenon DEF Registration
<1>3. ASSUME NEW q \in Ports, WorkerStep(q), ~Registration(q)  PROVE Unregistered
  BY <1>3, UnregisteredSteps, Zenon
<1>4. ASSUME ~ \E q \in Ports : WorkerStep(q)
      PROVE  UNCHANGED <<iccid, registry>>
  BY <1>4, Zenon
     DEF WorkersNext, DispatchMalformed, DispatchLookup, DispatchSend, WatchdogDetects,
         WatchdogStores, RequestReset, SwapSims, Sigterm, wVars, portVars
<1> QED  BY <1>1, <1>2, <1>3, <1>4, Zenon

(* A worker that runs with its SIM and is registered under it stays registered, in every
   run with any number of modems, SIMs, failures and moves of SIMs, except when another
   worker ends that registered under that SIM before it was moved. *)
THEOREM EntryStays == WorkersSpec => StaysReachable
<1>1. ASSUME WorkersInv, [WorkersNext]_wVars  PROVE [\A p \in Ports : EntryKept(p)]_wVars
  BY <1>1, EntryKeptByStep, Zenon DEF WorkersInv
<1> QED  BY <1>1, WorkersInvHolds, PTL DEF WorkersSpec, StaysReachable, EntryKept

(* A worker whose SIM was refused by the network stays BANNED and is not restarted, as
   long as no command stalls so long that the watchdog acts on its worker. *)
THEOREM BanIsFinal ==
  ASSUME MaxStalls = 0
  PROVE  WorkersSpec => BannedIsFinal
<1>1. ASSUME WorkersInv, WorkersInv', [WorkersNext]_wVars  PROVE [BanKept]_wVars
  <2>1. faults'["stall"] \in Nat /\ faults'["stall"] <= 0
    BY <1>1 DEF WorkersInv, WInv, WorkersTypeOK, BanInv, FaultKinds
  <2>2. faults'["stall"] = MaxStalls
    BY <2>1
  <2> QED  BY <1>1, <2>2, BanStep, ZenonT(30) DEF WorkersInv
<1> QED  BY <1>1, WorkersInvHolds, PTL DEF WorkersSpec, BannedIsFinal, BanKept
=============================================================================
