----------------------------- MODULE ModemSetup -----------------------------
(***************************************************************************)
(* The commands a worker sends to set its modem up and to get it working   *)
(* again (internal/modem/worker.go: runInitSequence, enterRecovery,        *)
(* enterReset, doRebootModem, with the wrappers of                         *)
(* internal/at/serializer.go), and what they do to the settings of the     *)
(* modem. A command succeeds, fails, or is not answered in time, done or   *)
(* not: then the port is closed and every later command of this worker     *)
(* fails. Workers has what happens to tasks and the registry meanwhile.    *)
(***************************************************************************)
EXTENDS Integers, Sequences

CONSTANTS MaxFailed,   \* bound: commands that fail
          MaxRestarts  \* bound: restarts of the modem by itself

ASSUME SetupAssumption == MaxFailed \in Nat /\ MaxRestarts \in Nat

VARIABLES set,      \* settings of the modem
          cmd,      \* the command the worker sends next
          attempts, \* attempts left for it
          mode,     \* State of the worker
          prev,     \* executeTask's prev: the state to restore after a task
          portOpen,
          refused,    \* commands answered with an error
          unanswered, \* commands not answered in time
          restarts, \* restarts of the modem by itself
          since     \* history: what happened since this worker began

setupVars == <<set, cmd, attempts, mode, prev, portOpen, refused, unanswered, restarts,
               since>>

InitSteps == <<"ping", "echo", "pdu", "cnmi", "caps", "iccid", "imsi", "operator">>
NonFatal == {"caps", "imsi", "operator"}

(* retryN(3, Ping); retryNVal(3, ReadICCID), which tries three commands. *)
Tries(c) == CASE c = "ping" -> 3 [] c = "iccid" -> 9 [] OTHER -> 1

(* The commands of doRebootModem: a reset, or the radio off and on. *)
Reboot == {"taskreset", "taskoff", "taskon"}

Settings == [echo : BOOLEAN, pdu : BOOLEAN, cnmi : BOOLEAN, radio : BOOLEAN]
Commands == {InitSteps[k] : k \in DOMAIN InitSteps}
              \cup {"creg", "off", "on", "again", "repdu", "reset"} \cup Reboot

SetupTypeOK ==
  /\ set \in Settings /\ cmd \in Commands \cup {"ended"} /\ attempts \in 1 .. 9
  /\ mode \in {"INITIALIZING", "ACTIVE", "EXECUTING", "RECOVERING", "RESETTING", "FAILED"}
  /\ prev \in {"INITIALIZING", "ACTIVE"}
  /\ portOpen \in BOOLEAN /\ {refused, unanswered} \subseteq 0 .. MaxFailed /\ restarts \in 0 .. MaxRestarts
  /\ since \subseteq {"restart", "reset", "unset", "dark"}

(* external: what a modem starts with. *)
PowerOn == [echo |-> TRUE, pdu |-> FALSE, cnmi |-> FALSE, radio |-> TRUE]

SetupInit ==
  /\ set = PowerOn /\ cmd = "ping" /\ attempts = Tries("ping") /\ mode = "INITIALIZING"
  /\ prev = mode /\ portOpen = TRUE /\ refused = 0 /\ unanswered = 0 /\ restarts = 0 /\ since = {}

(* external: the settings after a command; switching the radio on may reset the mode. *)
Effect(c) ==
  CASE c = "echo" -> {[set EXCEPT !.echo = FALSE]}
    [] c \in {"pdu", "repdu"} -> {[set EXCEPT !.pdu = TRUE]}
    [] c = "cnmi" -> {[set EXCEPT !.cnmi = TRUE]}
    [] c \in {"off", "taskoff"} -> {[set EXCEPT !.radio = FALSE]}
    [] c \in {"on", "taskon"} -> {[set EXCEPT !.radio = TRUE],
                                  [set EXCEPT !.radio = TRUE, !.pdu = FALSE]}
    [] c \in {"reset", "taskreset"} -> {PowerOn}
    [] OTHER -> {set}

CommandSucceeds(c) == portOpen /\ set' \in Effect(c) /\ UNCHANGED <<portOpen, refused, unanswered>>
CommandFails(c) ==
  \/ ~portOpen /\ UNCHANGED <<set, portOpen, refused, unanswered>>
  \/ /\ portOpen /\ refused + unanswered < MaxFailed
     /\ \/ refused' = refused + 1 /\ UNCHANGED <<set, portOpen, unanswered>>
        \/ /\ unanswered' = unanswered + 1 /\ portOpen' = FALSE
           /\ set' \in Effect(c) \cup {set} /\ UNCHANGED refused

Send(c) == cmd = c /\ UNCHANGED <<restarts, prev>>
GoOn(c, m) == cmd' = c /\ attempts' = Tries(c) /\ mode' = m

-----------------------------------------------------------------------------
(* runInitSequence; after the last step the worker is registered and ACTIVE. *)
AfterStep(k) ==
  IF k = Len(InitSteps) THEN GoOn("creg", "ACTIVE") ELSE GoOn(InitSteps[k + 1], mode)

InitStepWithoutCount(k) ==
  /\ Send(InitSteps[k]) /\ UNCHANGED since
  /\ \/ CommandSucceeds(cmd) /\ AfterStep(k)
     \/ CommandFails(cmd) /\ cmd \in NonFatal /\ AfterStep(k)
     \/ CommandFails(cmd) /\ Tries(cmd) > 1 /\ UNCHANGED <<cmd, attempts, mode>>
     \/ CommandFails(cmd) /\ cmd \notin NonFatal /\ Tries(cmd) = 1 /\ GoOn("ended", "FAILED")
InitStep(k) ==
  /\ Send(InitSteps[k]) /\ UNCHANGED since
  /\ \/ CommandSucceeds(cmd) /\ AfterStep(k)
     \/ CommandFails(cmd) /\ cmd \in NonFatal /\ AfterStep(k)
     \/ CommandFails(cmd) /\ attempts > 1 /\ attempts' = attempts - 1 /\ UNCHANGED <<cmd, mode>>
     \/ CommandFails(cmd) /\ cmd \notin NonFatal /\ attempts = 1 /\ GoOn("ended", "FAILED")

(* runKeepalive: the registration query. *)
Keepalive ==
  /\ Send("creg") /\ UNCHANGED since
  /\ \/ CommandSucceeds(cmd) /\ UNCHANGED <<cmd, attempts, mode>>
     \/ CommandFails(cmd) /\ GoOn("off", "RECOVERING")

(* A command of another task, of a message or of a poll, which changes no setting, is
   not answered. *)
OtherUnanswered ==
  /\ Send("creg") /\ portOpen /\ refused + unanswered < MaxFailed
  /\ unanswered' = unanswered + 1 /\ portOpen' = FALSE
  /\ UNCHANGED <<set, cmd, attempts, mode, refused, since>>

(* executeTask of a REBOOT_MODEM, which asks for a reset or a cycle of the radio. *)
RebootTask ==
  /\ cmd = "creg" /\ prev' = mode
  /\ GoOn("taskreset", "EXECUTING") \/ GoOn("taskoff", "EXECUTING")
  /\ UNCHANGED <<set, portOpen, refused, unanswered, restarts, since>>

(* doRebootModem: one failure ends it, and what was lost is not set again; the state
   is restored. *)
doRebootModem ==
  LET mayBeDone == portOpen /\ UNCHANGED refused
      lost == CASE cmd = "taskreset" -> {"reset", "unset"} [] cmd = "taskon" -> {"unset"}
                [] OTHER -> {}
  IN /\ cmd \in Reboot /\ Send(cmd)
     /\ \/ CommandSucceeds(cmd) /\ IF cmd = "taskoff" THEN GoOn("taskon", mode) ELSE GoOn("creg", prev)
        \/ CommandFails(cmd) /\ GoOn("creg", prev)
     /\ since' = IF mayBeDone THEN (since \ {"dark"}) \cup lost
                 ELSE IF cmd = "taskon" THEN since \cup {"dark"} ELSE since

(* A reset requested by the control API. *)
ResetRequested ==
  /\ Send("creg") /\ GoOn("reset", "RESETTING")
  /\ UNCHANGED <<set, portOpen, refused, unanswered, since>>

(* enterRecovery: radio off, on, ping; a failure of one escalates to a reset. *)
RadioCycle ==
  LET next == [off |-> "on", on |-> "again", again |-> "repdu"] IN
  /\ cmd \in DOMAIN next /\ Send(cmd)
  /\ \/ CommandSucceeds(cmd) /\ GoOn(next[cmd], mode)
        /\ since' = IF cmd = "on" THEN since \ {"dark"} ELSE since
     \/ CommandFails(cmd) /\ GoOn("reset", "RESETTING") /\ UNCHANGED since

(* PDU mode again; a failure is only logged. *)
SetPDUModeForgotten ==
  /\ Send("repdu") /\ GoOn("creg", "ACTIVE")
  /\ UNCHANGED <<set, portOpen, refused, unanswered, since>>
SetPDUMode ==
  /\ Send("repdu") /\ GoOn("creg", "ACTIVE")
  /\ \/ CommandSucceeds(cmd) /\ since' = since \ {"unset"}
     \/ CommandFails(cmd) /\ since' = since \cup {"unset"}

(* enterReset: the worker goes on, INITIALIZING but without an init sequence. *)
HardReset ==
  /\ Send("reset")
  /\ \/ CommandSucceeds(cmd) /\ GoOn("creg", "INITIALIZING")
        /\ since' = (since \ {"dark"}) \cup {"reset"}
     \/ CommandFails(cmd) /\ GoOn("ended", "FAILED") /\ UNCHANGED since

(* The supervisor's next worker opens the port again; it does not switch the radio on. *)
NextWorker ==
  /\ Send("ended") /\ GoOn("ping", "INITIALIZING")
  /\ portOpen' = TRUE /\ since' = since \cap {"dark"}
  /\ UNCHANGED <<set, refused, unanswered>>

(* external: the modem restarts, after a power failure for instance. *)
ModemRestarts ==
  /\ restarts < MaxRestarts /\ restarts' = restarts + 1
  /\ set' = PowerOn /\ since' = (since \ {"dark"}) \cup {"restart"}
  /\ UNCHANGED <<cmd, attempts, mode, prev, portOpen, refused, unanswered>>

Dialogue == \/ \E k \in DOMAIN InitSteps : InitStep(k)
            \/ Keepalive \/ RadioCycle \/ SetPDUMode \/ HardReset \/ NextWorker
            \/ doRebootModem
SetupNext == Dialogue \/ OtherUnanswered \/ RebootTask \/ ResetRequested \/ ModemRestarts
SetupSpec == SetupInit /\ [][SetupNext]_setupVars

-----------------------------------------------------------------------------
(* The modem of an ACTIVE worker is in PDU mode, reports messages and does not echo,
   whichever commands of the init sequence, a recovery or an earlier worker failed,
   unless it restarted by itself. A reset of this worker is the exception: one of
   enterReset, which a recovery may follow, sets only the mode again, and not if that
   fails; a REBOOT_MODEM task sets nothing again, the mode a radio cycle may lose
   included, and goes back to ACTIVE. A radio that was switched off is on again, unless
   the task was refused to switch it on, a command was not answered or three were
   refused, the query that begins the recovery included. *)
ActiveIsSetUp ==
  mode = "ACTIVE" =>
    /\ set.pdu \/ since \cap {"restart", "unset"} # {}
    /\ (set.cnmi /\ ~set.echo) \/ since \cap {"restart", "reset"} # {}
    /\ set.radio \/ "dark" \in since \/ unanswered > 0 \/ refused > 2

(* A worker whose port was closed after a command that was not answered ends, at
   whichever command, and its successor gets the modem into service. *)
BackInService == ~portOpen ~> (portOpen /\ cmd = "creg")

Initializing == {"ping", "echo", "pdu", "cnmi", "caps", "iccid", "imsi", "operator"}
Recovering == {"off", "on", "again", "repdu"}

(* The state of the worker at each command. *)
ModeOfCommand ==
  /\ cmd \in Initializing => mode = "INITIALIZING"
  /\ cmd \in Recovering => mode = "RECOVERING"
  /\ cmd = "reset" => mode = "RESETTING"
  /\ cmd = "ended" => mode = "FAILED"
  /\ cmd = "creg" => mode \in {"ACTIVE", "INITIALIZING"}
  /\ cmd \in Reboot => mode = "EXECUTING"

(* The settings that the modem has by each command. *)
SettingsSoFar ==
  /\ \/ set.pdu \/ "restart" \in since
     \/ cmd \in {"ping", "echo", "pdu", "reset", "ended"} \cup Recovering
     \/ cmd = "creg" /\ (mode # "ACTIVE" \/ "unset" \in since)
     \/ cmd \in Reboot /\ (prev # "ACTIVE" \/ "unset" \in since)
  /\ \/ cmd \in {"ping", "echo", "reset", "ended"}
     \/ ~set.echo \/ "restart" \in since \/ "reset" \in since
  /\ \/ cmd \in {"ping", "echo", "pdu", "cnmi", "reset", "ended"}
     \/ set.cnmi \/ "restart" \in since \/ "reset" \in since

(* What it takes to leave the radio off: a command that was not answered, a task that
   was refused to switch it on, or a refusal of the query, of "on" and of the reset. *)
RadioSoFar ==
  /\ ~portOpen => unanswered > 0
  /\ cmd = "off" => unanswered > 0 \/ refused > 0
  /\ \/ set.radio \/ "dark" \in since \/ unanswered > 0 \/ refused > 2 \/ cmd = "taskon"
     \/ (cmd = "on" /\ refused > 0) \/ (cmd = "reset" /\ refused > 1)

(* The inductive invariant. *)
SetupInv == SetupTypeOK /\ ModeOfCommand /\ SettingsSoFar /\ RadioSoFar
=============================================================================
