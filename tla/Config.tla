-------------------------------- MODULE Config ------------------------------
(***************************************************************************)
(* The configuration (internal/config): Load, which reads the file,        *)
(* expands variables, decodes, fills in defaults, applies the overrides of *)
(* the environment and validates; and WatchReload, which loads the file    *)
(* again at each SIGHUP and applies it.                                    *)
(*                                                                         *)
(* A text setting is "" (not given), one of two well-formed values, or     *)
(* "bad" (given and refused by validate); a number is 0 (not given),       *)
(* positive or negative. The settings treated alike stand for one: token   *)
(* for the gateway id, baud for every setting of a modem with a default,   *)
(* ack for every interval that only the file sets.                         *)
(***************************************************************************)
EXTENDS Integers, Sequences

CONSTANTS Files,     \* contents of the file
          Env,       \* the overrides in the environment
          MaxEdits,  \* bound: edits of the file
          MaxSignals \* bound: SIGHUPs

WellFormed == {"good", "other"}
Text == WellFormed \cup {"", "bad"}
Number == -1 .. 2
DefaultNumber == 2   \* a default is positive, and not what a file here gives
Invalid == [error |-> TRUE]

File == [readable : BOOLEAN,  \* os.ReadFile succeeds, every ${VAR} is set, the YAML decodes
         token : Text, url : Text, level : Text, poll : Number, ack : Number,
         modems : Seq([port : Text, baud : Number])]

ASSUME ConfigAssumption ==
  /\ Files \subseteq File /\ Files # {}
  /\ Env \in [token : Text, url : Text, level : Text, poll : Number]
  /\ MaxEdits \in Nat /\ MaxSignals \in Nat

VARIABLES file,     \* the content of the file, and its version
          hup,      \* the signal channel (capacity 1) holds a SIGHUP
          watch,    \* where WatchReload is
          loaded,   \* what Load returned last, and the version it read
          applied,  \* the configuration in use, and the version it was read from
          signals,
          lastRead, \* history: the version read last
          asked     \* history: the version the last SIGHUP was sent for

configVars == <<file, hup, watch, loaded, applied, signals, lastRead, asked>>

ConfigTypeOK ==
  /\ file \in [content : Files, version : 0 .. MaxEdits] /\ hup \in BOOLEAN
  /\ watch \in {"select", "load", "apply", "returned"}
  /\ \A c \in {loaded, applied} : DOMAIN c = {"cfg", "version"} /\ c.version \in 0 .. MaxEdits
  /\ signals \in 0 .. MaxSignals /\ lastRead \in 0 .. MaxEdits /\ asked \in 0 .. MaxEdits

(* defaults. *)
OrDefault(n) == IF n = 0 THEN DefaultNumber ELSE n
modemDefaults(m) == [m EXCEPT !.baud = OrDefault(@)]
defaults(f) ==
  [f EXCEPT !.level = IF @ = "" THEN "good" ELSE @, !.poll = OrDefault(@), !.ack = OrDefault(@),
            !.modems = [i \in DOMAIN @ |-> modemDefaults(@[i])]]

(* applyEnvOverrides; the poll interval only when it is a positive number. *)
OrEnv(v, e) == IF e # "" THEN e ELSE v
applyEnvOverrides(c) ==
  [c EXCEPT !.token = OrEnv(@, Env.token), !.url = OrEnv(@, Env.url),
            !.level = OrEnv(@, Env.level),
            !.poll = IF Env.poll > 0 THEN Env.poll ELSE @]

validateFirstModem(c) ==
  /\ c.token # "" /\ c.level \in WellFormed /\ c.url \in WellFormed
  /\ c.modems # <<>> /\ c.modems[1].port \in WellFormed

(* validate: token not empty (nor the id), level known, url and ports well-formed. *)
validate(c) ==
  /\ c.token # "" /\ c.level \in WellFormed /\ c.url \in WellFormed
  /\ c.modems # <<>> /\ \A i \in DOMAIN c.modems : c.modems[i].port \in WellFormed

Load(f) ==
  LET c == applyEnvOverrides(defaults(f))
  IN IF f.readable /\ validate(c) THEN c ELSE Invalid

(* The gateway starts only with a configuration that loads. *)
ConfigInit ==
  /\ file \in [content : {f \in Files : Load(f) # Invalid}, version : {0}]
  /\ applied = [cfg |-> Load(file.content), version |-> 0] /\ loaded = applied
  /\ hup = FALSE /\ watch = "select" /\ signals = 0 /\ lastRead = 0 /\ asked = 0

(* external: the operator replaces the file. *)
Edit ==
  /\ file.version < MaxEdits
  /\ \E f \in Files : file' = [content |-> f, version |-> file.version + 1]
  /\ UNCHANGED <<hup, watch, loaded, applied, signals, lastRead, asked>>

(* SIGHUP: the runtime drops it when the channel is full. *)
HangUpUnbuffered ==
  /\ signals < MaxSignals /\ signals' = signals + 1
  /\ hup' = (hup \/ watch = "select") /\ asked' = file.version
  /\ UNCHANGED <<file, watch, loaded, applied, lastRead>>
HangUp ==
  /\ signals < MaxSignals /\ signals' = signals + 1
  /\ hup' = TRUE /\ asked' = file.version
  /\ UNCHANGED <<file, watch, loaded, applied, lastRead>>

(* The select of WatchReload. *)
TakeSignal ==
  /\ watch = "select" /\ hup
  /\ watch' = "load" /\ hup' = FALSE
  /\ UNCHANGED <<file, loaded, applied, signals, lastRead, asked>>

ContextEnds ==
  /\ watch = "select" /\ watch' = "returned"
  /\ UNCHANGED <<file, hup, loaded, applied, signals, lastRead, asked>>

(* Load reads the file once; an error ends the reload. *)
ReadFile ==
  LET c == Load(file.content) IN
  /\ watch = "load" /\ lastRead' = file.version
  /\ \/ c # Invalid /\ watch' = "apply" /\ loaded' = [cfg |-> c, version |-> file.version]
     \/ c = Invalid /\ watch' = "select" /\ UNCHANGED loaded
  /\ UNCHANGED <<file, hup, applied, signals, asked>>

Apply ==
  /\ watch = "apply" /\ watch' = "select" /\ applied' = loaded
  /\ UNCHANGED <<file, hup, loaded, signals, lastRead, asked>>

Reload == ReadFile \/ Apply
ConfigNext == Edit \/ HangUp \/ TakeSignal \/ ContextEnds \/ Reload
ConfigSpec == ConfigInit /\ [][ConfigNext]_configVars

-----------------------------------------------------------------------------
(* A configuration in use is complete and valid, where the environment overrides the
   file too, and wherever the environment or the file gives a setting it is the one
   given: the environment's, or else the file's as long as that is the file it was
   read from. Negative numbers pass, except for an interval from the environment. *)
IsComplete(a, f) ==
  LET c == a.cfg IN
  /\ c.token # "" /\ c.url \in WellFormed /\ c.level \in WellFormed /\ c.poll # 0 /\ c.ack # 0
  /\ c.modems # <<>>
  /\ \A i \in DOMAIN c.modems : c.modems[i].port \in WellFormed /\ c.modems[i].baud # 0
  /\ Env.token # "" => c.token = Env.token
  /\ Env.url # "" => c.url = Env.url
  /\ Env.level # "" => c.level = Env.level
  /\ Env.poll > 0 => c.poll = Env.poll
  /\ a.version = f.version =>
       /\ Env.token = "" => c.token = f.content.token
       /\ Env.url = "" => c.url = f.content.url
       /\ Env.level = "" /\ f.content.level # "" => c.level = f.content.level
       /\ ~(Env.poll > 0) /\ f.content.poll # 0 => c.poll = f.content.poll
       /\ f.content.ack # 0 => c.ack = f.content.ack
AppliedIsComplete == IsComplete(applied, file)

(* Every SIGHUP is followed by a read of the file as it then is, also one that came
   during a reload or while another was queued, unless the watcher is told to stop. *)
SignalIsFollowed == []<>(lastRead >= asked \/ watch = "returned")

(* The inductive invariant: what was read, and what is in use, is a complete
   configuration made from some version of the file so far. *)
ConfigInv ==
  /\ ConfigTypeOK
  /\ loaded.version <= file.version /\ applied.version <= file.version
  /\ IsComplete(loaded, file) /\ IsComplete(applied, file)
=============================================================================
