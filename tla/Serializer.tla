------------------------------ MODULE Serializer ----------------------------
(***************************************************************************)
(* The AT serializer (internal/at/serializer.go): the reader goroutine     *)
(* that owns the port and sorts lines into notifications (URCs) and        *)
(* answers, and the worker that runs one command at a time (Execute,       *)
(* ExecuteSend) and takes URCs between commands. The modem is external.    *)
(*                                                                         *)
(* Commands are numbered; a line carries the number of the command it      *)
(* answers, so that a line read by another command is visible.             *)
(***************************************************************************)
EXTENDS Integers, Sequences, Functions

CONSTANTS MaxCmds,     \* bound: commands
          MaxUrcs,     \* bound: notifications
          MaxSilent,   \* bound: commands the modem leaves unanswered
          MaxSlow,     \* bound: timers that fire although an answer is coming
          MaxIoErrors, \* bound: writes that fail, ports unplugged
          MaxGarbled,  \* bound: +CMGS lines without a number
          LineCap,     \* capacity of linesCh (64)
          UrcChCap,    \* capacity of URCCH (64)
          PromptEndsLine \* does the modem end the "> " prompt with a newline?

Ids == 1 .. MaxCmds
SerFaults == {"silent", "slow", "io", "garbled"}

ASSUME SerAssumption ==
  /\ {MaxCmds, MaxUrcs, MaxSilent, MaxSlow, MaxIoErrors, MaxGarbled} \subseteq Nat
  /\ LineCap \in Nat \ {0} /\ UrcChCap \in Nat \ {0}
  /\ PromptEndsLine \in BOOLEAN

VARIABLES toModem,   \* what was written, not yet read by the modem
          atPrompt,  \* the modem waits for a PDU
          port,      \* what the modem has sent, not yet scanned
          urcsSent,  \* notifications sent so far
          rdr,       \* the reader: where it is, the line in hand, pending when it looked
          portClosed, closed,
          call,      \* the worker: what it waits for, and the command's number
          pending,   \* Serializer.pending: a command, 0 for nil
          lines,     \* linesCh of the command in progress
          urcs,      \* URCCH
          taken,     \* notifications the worker has taken
          mixed,     \* history: a command consumed a line of another
          prompted,  \* history: commands whose prompt the modem has sent
          status,    \* [Ids -> result of the command]
          left       \* faults that may still happen

sVars == <<toModem, atPrompt, port, urcsSent, rdr, portClosed, closed, call, pending,
           lines, urcs, taken, mixed, prompted, status, left>>
modemVars == <<toModem, atPrompt, port, urcsSent, prompted>>
readerVars == <<rdr, closed, urcs>>
callVars == <<call, pending, lines, mixed, status>>

Kinds == {"data", "ok", "error", "cms", "prompt", "cmgs", "garbled", "urc"}
Line == [kind : Kinds, of : 0 .. MaxCmds + MaxUrcs]
NoLine == [kind |-> "data", of |-> 0]
Waits == {"idle", "write", "answer", "sendwrite", "prompt", "pduwrite", "result"}

SerTypeOK ==
  /\ toModem \in Seq([kind : {"cmd", "send", "pdu"}, of : Ids])
  /\ atPrompt \in BOOLEAN
  /\ port \in Seq(Line)
  /\ urcsSent \in 0 .. MaxUrcs
  /\ rdr \in [at : {"scan", "deliver", "urc", "full", "push", "ended"}, line : Line,
              for : 0 .. MaxCmds]
  /\ portClosed \in BOOLEAN /\ closed \in BOOLEAN
  /\ call \in [at : Waits, id : 0 .. MaxCmds]
  /\ pending \in 0 .. MaxCmds
  /\ lines \in Seq(Line) /\ Len(lines) <= LineCap
  /\ urcs \in Seq(1 .. MaxUrcs) /\ Len(urcs) <= UrcChCap
  /\ taken \subseteq 1 .. MaxUrcs
  /\ mixed \in BOOLEAN
  /\ prompted \subseteq Ids
  /\ status \in [Ids -> {"none", "done", "failed", "timeout", "noprompt", "late", "closed"}]
  /\ left \in [SerFaults -> Nat]

SerInit ==
  /\ toModem = <<>> /\ atPrompt = FALSE /\ port = <<>> /\ urcsSent = 0
  /\ rdr = [at |-> "scan", line |-> NoLine, for |-> 0]
  /\ portClosed = FALSE /\ closed = FALSE
  /\ call = [at |-> "idle", id |-> 0] /\ pending = 0 /\ lines = <<>>
  /\ urcs = <<>> /\ taken = {} /\ mixed = FALSE /\ prompted = {}
  /\ status = [k \in Ids |-> "none"]
  /\ left = [silent |-> MaxSilent, slow |-> MaxSlow, io |-> MaxIoErrors,
             garbled |-> MaxGarbled]

Lose(kind) == left[kind] > 0 /\ left' = [left EXCEPT ![kind] = @ - 1]

-----------------------------------------------------------------------------
(* The modem (external): the command lines it is given and its answers. *)

Answer(k, kinds) ==
  port' = port \o [i \in DOMAIN kinds |-> [kind |-> kinds[i], of |-> k]]

ModemAnswers ==
  LET k == Head(toModem).of
      kind == Head(toModem).kind
  IN /\ toModem # <<>> /\ ~portClosed
     /\ toModem' = Tail(toModem)
     /\ \/ /\ kind = "cmd" /\ ~atPrompt
           /\ \E r \in {<<"ok">>, <<"data", "ok">>, <<"error">>, <<"cms">>} : Answer(k, r)
           /\ UNCHANGED <<atPrompt, prompted, left>>
        \/ /\ kind = "send" /\ ~atPrompt
           /\ \/ /\ Answer(k, <<"prompt">>)
                 /\ atPrompt' = TRUE /\ prompted' = prompted \cup {k}
              \/ /\ \E r \in {<<"error">>, <<"cms">>} : Answer(k, r)
                 /\ UNCHANGED <<atPrompt, prompted>>
           /\ UNCHANGED left
        \/ /\ kind = "pdu" /\ atPrompt /\ atPrompt' = FALSE
           /\ \/ /\ \E r \in {<<"cmgs", "ok">>, <<"error">>, <<"cms">>} : Answer(k, r)
                 /\ UNCHANGED left
              \/ Lose("garbled") /\ Answer(k, <<"garbled", "ok">>)
           /\ UNCHANGED prompted
        \/ /\ kind # "pdu" /\ atPrompt  \* taken as the text of the message
           /\ UNCHANGED <<port, atPrompt, prompted, left>>
        \/ /\ Lose("silent")
           /\ UNCHANGED <<port, atPrompt, prompted>>
     /\ UNCHANGED <<urcsSent, portClosed, taken, readerVars, callVars>>

ModemNotifies ==
  /\ urcsSent < MaxUrcs /\ ~portClosed
  /\ urcsSent' = urcsSent + 1
  /\ port' = Append(port, [kind |-> "urc", of |-> urcsSent'])
  /\ UNCHANGED <<toModem, atPrompt, prompted, portClosed, taken, readerVars, callVars, left>>

Unplug ==
  /\ ~portClosed /\ Lose("io") /\ portClosed' = TRUE
  /\ UNCHANGED <<modemVars, taken, readerVars, callVars>>

-----------------------------------------------------------------------------
(* The reader goroutine. *)

(* The scanner returns a line when its end has arrived: a prompt without one
   waits for the line break that precedes the modem's next output. *)
LineArrived == /\ port # <<>>
               /\ Head(port).kind # "prompt" \/ PromptEndsLine \/ Len(port) > 1

(* Scan, isURC, and for any other line the look at pending. Lines that were read
   before the port was closed are still returned. *)
ReaderScan ==
  /\ rdr.at = "scan" /\ LineArrived
  /\ port' = Tail(port)
  /\ rdr' = IF Head(port).kind = "urc"
            THEN [at |-> "urc", line |-> Head(port), for |-> 0]
            ELSE IF pending = 0 THEN rdr
            ELSE [at |-> "deliver", line |-> Head(port), for |-> pending]
  /\ UNCHANGED <<toModem, atPrompt, urcsSent, prompted, portClosed, closed, urcs, taken,
                 callVars, left>>

(* To the linesCh found, unless it is full or its command is over. *)
ReaderDeliver ==
  /\ rdr.at = "deliver"
  /\ lines' = IF rdr.for = call.id /\ call.at # "idle" /\ Len(lines) < LineCap
              THEN Append(lines, rdr.line) ELSE lines
  /\ rdr' = [rdr EXCEPT !.at = "scan"]
  /\ UNCHANGED <<modemVars, portClosed, closed, urcs, taken, call, pending, mixed, status,
                 left>>

(* To URCCH; when it is full the oldest makes room, in three selects. *)
ReaderUrcDropping ==
  /\ rdr.at = "urc"
  /\ urcs' = IF Len(urcs) < UrcChCap THEN Append(urcs, rdr.line.of) ELSE urcs
  /\ rdr' = [rdr EXCEPT !.at = "scan"]
  /\ UNCHANGED <<modemVars, portClosed, closed, taken, callVars, left>>
ReaderUrc ==
  /\ \/ /\ rdr.at \in {"urc", "push"} /\ Len(urcs) < UrcChCap
        /\ urcs' = Append(urcs, rdr.line.of)
        /\ rdr' = [rdr EXCEPT !.at = "scan"]
     \/ /\ rdr.at = "urc" /\ Len(urcs) = UrcChCap
        /\ rdr' = [rdr EXCEPT !.at = "full"]
        /\ UNCHANGED urcs
     \/ /\ rdr.at = "full"
        /\ urcs' = IF urcs = <<>> THEN urcs ELSE Tail(urcs)
        /\ rdr' = [rdr EXCEPT !.at = "push"]
  /\ UNCHANGED <<modemVars, portClosed, closed, taken, callVars, left>>

(* The scan fails once the port is closed, at any point of what was sent. *)
ReaderEnds ==
  /\ rdr.at = "scan" /\ portClosed
  /\ rdr' = [rdr EXCEPT !.at = "ended"]
  /\ closed' = TRUE
  /\ UNCHANGED <<modemVars, portClosed, urcs, taken, callVars, left>>

-----------------------------------------------------------------------------
(* The worker. *)

TakeUrc ==
  /\ call.at = "idle" /\ urcs # <<>>
  /\ taken' = taken \cup {Head(urcs)} /\ urcs' = Tail(urcs)
  /\ UNCHANGED <<modemVars, rdr, closed, portClosed, callVars, left>>

(* A command begins: refused when closed, otherwise it becomes the pending one. *)
Begin ==
  /\ call.at = "idle" /\ call.id < MaxCmds
  /\ IF closed
     THEN /\ status' = [status EXCEPT ![call.id + 1] = "closed"]
          /\ call' = [call EXCEPT !.id = @ + 1]
          /\ UNCHANGED <<pending, lines>>
     ELSE /\ \E w \in {"write", "sendwrite"} : call' = [at |-> w, id |-> call.id + 1]
          /\ pending' = call.id + 1 /\ lines' = <<>>
          /\ UNCHANGED status
  /\ UNCHANGED <<modemVars, readerVars, portClosed, taken, mixed, left>>

(* Execute or ExecuteSend returns: pending is nil again, linesCh is garbage. *)
Return(s) ==
  /\ status' = [status EXCEPT ![call.id] = s]
  /\ call' = [call EXCEPT !.at = "idle"]
  /\ pending' = 0 /\ lines' = <<>>

(* A write of the command, of AT+CMGS, or of the PDU. *)
Written(at) == CASE at = "write" -> <<"cmd", "answer">>
                 [] at = "sendwrite" -> <<"send", "prompt">>
                 [] OTHER -> <<"pdu", "result">>
WriteCommand ==
  /\ call.at \in {"write", "sendwrite", "pduwrite"}
  /\ \/ /\ ~portClosed
        /\ toModem' = Append(toModem, [kind |-> Written(call.at)[1], of |-> call.id])
        /\ call' = [call EXCEPT !.at = Written(call.at)[2]]
        /\ UNCHANGED <<pending, lines, status, left>>
     \/ /\ (portClosed /\ UNCHANGED left) \/ (~portClosed /\ Lose("io"))
        /\ Return("failed") /\ UNCHANGED toModem
  /\ UNCHANGED <<atPrompt, port, urcsSent, prompted, readerVars, portClosed, taken, mixed>>

(* The loops of Execute and of both phases of ExecuteSend: what a line does.
   A +CMS ERROR is not an end of the wait for the prompt. *)
Outcome(at, kind) ==
  CASE at = "prompt" /\ kind = "prompt" -> "pduwrite"
    [] at = "prompt" /\ kind = "error" -> "failed"
    [] at # "prompt" /\ kind = "ok" -> "done"
    [] at # "prompt" /\ kind \in {"error", "cms"} -> "failed"
    [] at = "result" /\ kind = "garbled" -> "failed"
    [] OTHER -> at

TakeLine ==
  LET o == Outcome(call.at, Head(lines).kind) IN
  /\ call.at \in {"answer", "prompt", "result"} /\ lines # <<>>
  /\ mixed' = (mixed \/ Head(lines).of # call.id)
  /\ \/ o \in {"done", "failed"} /\ Return(o)
     \/ /\ o \notin {"done", "failed"}
        /\ call' = [call EXCEPT !.at = o]
        /\ lines' = Tail(lines)
        /\ UNCHANGED <<pending, status>>
  /\ UNCHANGED <<modemVars, readerVars, portClosed, taken, left>>

(* Nothing more will happen by itself. *)
Quiet == toModem = <<>> /\ ~LineArrived /\ rdr.at = "scan" /\ lines = <<>>

(* Which timer fired: one that fires before an answer that is coming is late. *)
TimedOut == IF ~Quiet THEN "late" ELSE IF call.at = "prompt" THEN "noprompt" ELSE "timeout"

(* The timer fires, because there is no answer or before the answer is here:
   the port is closed. *)
TimeoutKeepingPort ==
  /\ call.at \in {"answer", "prompt", "result"}
  /\ (Quiet /\ UNCHANGED left) \/ (~Quiet /\ Lose("slow"))
  /\ Return(TimedOut)
  /\ UNCHANGED <<modemVars, readerVars, portClosed, taken, mixed>>
TimeoutNotForPrompt ==
  /\ call.at \in {"answer", "result"}
  /\ (Quiet /\ UNCHANGED left) \/ (~Quiet /\ Lose("slow"))
  /\ portClosed' = TRUE
  /\ Return(TimedOut)
  /\ UNCHANGED <<modemVars, readerVars, taken, mixed>>
Timeout ==
  /\ call.at \in {"answer", "prompt", "result"}
  /\ (Quiet /\ UNCHANGED left) \/ (~Quiet /\ Lose("slow"))
  /\ portClosed' = TRUE
  /\ Return(TimedOut)
  /\ UNCHANGED <<modemVars, readerVars, taken, mixed>>

(* The select finds closed. *)
SeesClosed ==
  /\ call.at \in {"answer", "prompt", "result"} /\ closed
  /\ Return("closed")
  /\ UNCHANGED <<modemVars, readerVars, portClosed, taken, mixed, left>>

Reader == ReaderScan \/ ReaderDeliver \/ ReaderUrc \/ ReaderEnds
Caller == WriteCommand \/ TakeLine \/ Timeout \/ SeesClosed
SerNext == \/ ModemAnswers \/ ModemNotifies \/ Unplug
           \/ Reader \/ TakeUrc \/ Begin \/ Caller

SerSpec == SerInit /\ [][SerNext]_sVars

-----------------------------------------------------------------------------
(* No command consumes a line the modem sent for another one: not an answer that
   comes after its timeout, not one left over by an error return, except after a
   +CMGS line without a number, at which ExecuteSend returns before its OK. *)
OwnAnswer == left["garbled"] = MaxGarbled => ~mixed

(* Drop-oldest never drops the newest: once the reader has dealt with a
   notification, it is in URCCH or with the worker, or a newer one is. *)
NewestUrcKept ==
  rdr.at = "scan" /\ rdr.line.kind = "urc" =>
    \E u \in taken \cup Range(urcs) : u >= rdr.line.of

(* ErrSendPrompt tells the truth: a send is given up for lack of a prompt, by a
   timer that fires when nothing moves, only if the modem sent none. *)
NoPromptIsTrue ==
  \A k \in Ids : status[k] = "noprompt" => k \notin prompted

(* Every command returns. *)
CallReturns == []<>(pending = 0)

(* A modem that stops answering costs no goroutine: after a timeout the reader
   ends, and with it the serializer is closed for every later command. (A result
   stays, so it is enough that the reader of a port with a timeout does not go on
   for ever.) *)
TimeoutEndsReader ==
  []<>((\E k \in Ids : status[k] \in {"timeout", "noprompt", "late"}) => closed)

(* What a call returns is true: built from lines of its own, and "no prompt" only
   when there was none. *)
ResultIsTrue == OwnAnswer /\ NoPromptIsTrue

(* A modem that stops answering blocks neither the caller nor the reader. *)
NothingHangs == CallReturns /\ TimeoutEndsReader

Waiting == {"answer", "prompt", "result"}

(* The lines that end a wait. *)
Closing == {"ok", "error", "cms", "prompt"}

(* An answer, not a notification. *)
Solicited(line) == line.kind # "urc"

(* The command in progress is the pending one, and what the modem was given and
   what it prompted for are commands up to this one. *)
CallInHand ==
  /\ closed => portClosed
  /\ call.at = "idle" => pending = 0
  /\ call.at # "idle" => pending = call.id /\ call.id \in Ids
  /\ \A i \in 1 .. Len(toModem) :
       toModem[i].of <= call.id /\ (call.at \in {"write", "sendwrite"} => toModem[i].of # call.id)
  /\ \A k \in prompted : k <= call.id /\ (call.at \in {"write", "sendwrite"} => k # call.id)
  /\ \A k \in Ids : status[k] = "noprompt" => portClosed

(* The reader's line is a notification exactly where it handles one. *)
LineInHand ==
  /\ \A i \in 1 .. Len(port) : port[i].kind = "urc" => port[i].of \in 1 .. MaxUrcs
  /\ rdr.line.kind = "urc" => rdr.line.of \in 1 .. MaxUrcs
  /\ rdr.at \in {"urc", "full", "push"} => rdr.line.kind = "urc"
  /\ rdr.at = "deliver" => rdr.line.kind # "urc"

SerBasics == CallInHand /\ LineInHand /\ left["garbled"] <= MaxGarbled

(* A notification the reader is done with was passed on. *)
UrcInv ==
  rdr.at = "scan" /\ rdr.line.kind = "urc" => rdr.line.of \in taken \cup Range(urcs)

(* Nothing is on its way: written, sent, in the hands of the reader, in linesCh. *)
PortQuiet == \A i \in 1 .. Len(port) : ~Solicited(port[i])
NothingComing == toModem = <<>> /\ PortQuiet /\ rdr.at # "deliver"
Clean == NothingComing /\ lines = <<>>

(* While a command waits, all that is on its way is its own, and nothing
   follows a line that ends its wait. *)
WrittenInOrder ==
  /\ Len(toModem) <= 1
  /\ \A i \in 1 .. Len(toModem) :
       /\ toModem[i].of = call.id
       /\ call.at = "prompt" <=> toModem[i].kind = "send"
PortInOrder ==
  \A i \in 1 .. Len(port) : Solicited(port[i]) =>
    /\ port[i].of = call.id /\ port[i].kind # "garbled" /\ toModem = <<>>
    /\ call.at = "prompt" => port[i].kind \in Closing
    /\ port[i].kind \in Closing => \A j \in i + 1 .. Len(port) : ~Solicited(port[j])
ReaderInOrder ==
  rdr.at = "deliver" =>
    /\ rdr.line.of = call.id /\ rdr.for = call.id /\ rdr.line.kind # "garbled" /\ toModem = <<>>
    /\ call.at = "prompt" => rdr.line.kind \in Closing
    /\ rdr.line.kind \in Closing => PortQuiet
LinesInOrder ==
  \A i \in 1 .. Len(lines) :
    /\ lines[i].of = call.id /\ lines[i].kind # "garbled" /\ toModem = <<>>
    /\ call.at = "prompt" => lines[i].kind \in Closing
    /\ lines[i].kind \in Closing => i = Len(lines) /\ NothingComing
InOrder == WrittenInOrder /\ PortInOrder /\ ReaderInOrder /\ LinesInOrder

(* The prompt is on its way. *)
PromptPresent ==
  \/ \E i \in 1 .. Len(port) : port[i].kind = "prompt"
  \/ rdr.at = "deliver" /\ rdr.line.kind = "prompt"
  \/ \E i \in 1 .. Len(lines) : lines[i].kind = "prompt"

(* As long as no +CMGS line came without its number, worker and modem are in step:
   a command waits for what is on its way, and between two commands nothing is,
   unless the port is closed. *)
InStep ==
  /\ ~mixed
  /\ call.at \in Waiting => InOrder
  /\ call.at = "pduwrite" => Clean
  /\ call.at \in {"idle", "write", "sendwrite"} => portClosed \/ Clean
  /\ call.at = "prompt" /\ call.id \in prompted => PromptPresent
  /\ PromptEndsLine => NoPromptIsTrue

(* The inductive invariant. *)
SerInv == SerTypeOK /\ SerBasics /\ UrcInv /\ (left["garbled"] = MaxGarbled => InStep)
=============================================================================
