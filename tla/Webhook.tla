------------------------------- MODULE Webhook ------------------------------
(***************************************************************************)
(* The webhook notifier (internal/webhook): one call of Notify, with its   *)
(* attempts, back-off waits and context, and the endpoint (external),      *)
(* which may refuse, be out of reach or process a request whose answer is  *)
(* lost.                                                                   *)
(***************************************************************************)
EXTENDS Naturals

CONSTANT MaxAttempts  \* maxAttempts (3)

ASSUME WebhookAssumption == MaxAttempts \in Nat \ {0}

VARIABLES notify,   \* where Notify is
          tries,    \* attempt
          ctxErr,   \* the context is cancelled
          request,  \* the request under way, as the endpoint sees it
          outcome,  \* what Notify returned
          processed \* history: requests the endpoint answered with 2xx or processed
                    \* before the answer was lost

hookVars == <<notify, tries, ctxErr, request, outcome, processed>>

HookTypeOK ==
  /\ notify \in {"idle", "loop", "post", "wait", "returned"} /\ tries \in 1 .. MaxAttempts + 1
  /\ ctxErr \in BOOLEAN /\ request \in {"none", "sent", "ok", "refused", "lost"}
  /\ outcome \in {"none", "nil", "canceled", "failed"} /\ processed \in 0 .. MaxAttempts

HookInit ==
  /\ notify = "idle" /\ tries = 1 /\ ctxErr = FALSE
  /\ request = "none" /\ outcome = "none" /\ processed = 0

NotifyReturn(o) == notify' = "returned" /\ outcome' = o

CallNotify == /\ notify = "idle" /\ notify' = "loop"
              /\ UNCHANGED <<tries, ctxErr, request, outcome, processed>>

(* The head of the loop and the start of post. *)
AttemptUnchecked ==
  /\ notify = "loop"
  /\ \/ tries > MaxAttempts /\ NotifyReturn("failed") /\ UNCHANGED request
     \/ /\ tries <= MaxAttempts
        /\ notify' = "post" /\ request' = "sent"
        /\ UNCHANGED outcome
  /\ UNCHANGED <<tries, ctxErr, processed>>

Attempt ==
  /\ notify = "loop"
  /\ \/ tries > MaxAttempts /\ NotifyReturn("failed") /\ UNCHANGED request
     \/ tries <= MaxAttempts /\ ctxErr /\ NotifyReturn("canceled") /\ UNCHANGED request
     \/ /\ tries <= MaxAttempts /\ ~ctxErr
        /\ notify' = "post" /\ request' = "sent"
        /\ UNCHANGED outcome
  /\ UNCHANGED <<tries, ctxErr, processed>>

(* external: the endpoint answers, or does not. *)
Endpoint ==
  /\ request = "sent"
  /\ \/ request' \in {"ok", "lost"} /\ processed' = processed + 1
     \/ request' \in {"refused", "lost"} /\ UNCHANGED processed
  /\ UNCHANGED <<notify, tries, ctxErr, outcome>>

(* post returns: nil for 2xx; an error for another status, a transport error, the
   timeout of the client or the end of the context. *)
PostReturns ==
  /\ notify = "post"
  /\ \/ request = "ok" /\ NotifyReturn("nil") /\ UNCHANGED tries
     \/ /\ request \in {"refused", "lost"} \/ ctxErr
        /\ notify' = IF tries < MaxAttempts THEN "wait" ELSE "loop"
        /\ tries' = tries + 1 /\ UNCHANGED outcome
  /\ request' = "none" /\ UNCHANGED <<ctxErr, processed>>

(* The select of the back-off: the end of the context or the delay, either when both. *)
Backoff ==
  /\ notify = "wait"
  /\ \/ ctxErr /\ NotifyReturn("canceled")
     \/ notify' = "loop" /\ UNCHANGED outcome
  /\ UNCHANGED <<tries, ctxErr, request, processed>>

CancelContext == ~ctxErr /\ ctxErr' = TRUE
                 /\ UNCHANGED <<notify, tries, request, outcome, processed>>

Notifier == Attempt \/ PostReturns \/ Backoff
HookNext == CallNotify \/ Notifier \/ Endpoint \/ CancelContext
HookSpec == HookInit /\ [][HookNext]_hookVars

-----------------------------------------------------------------------------
(* What Notify returns is true: nil only after a request the endpoint accepted, the
   error of the context only after its end, and "all attempts failed" only after
   MaxAttempts of them, the number of requests the endpoint can have processed. *)
OutcomeIsTrue ==
  /\ outcome = "nil" => processed > 0
  /\ outcome = "canceled" => ctxErr
  /\ outcome = "failed" => tries = MaxAttempts + 1
  /\ processed <= tries

(* No request starts once the context is cancelled, whenever that happens between
   an attempt, its answer and the end of a back-off. *)
NoRequestAfterCancel == [][ctxErr /\ request = "none" => request' = "none"]_hookVars

(* Notify returns, whether or not the endpoint ever answers or accepts. *)
NotifyReturns == []<>(notify \in {"idle", "returned"})

(* Notify returns, truthfully, and leaves the endpoint alone once it is cancelled. *)
NotifyIsReliable == []OutcomeIsTrue /\ NoRequestAfterCancel /\ NotifyReturns

(* The inductive invariant: at each place in the loop, what the endpoint has
   processed against the attempts made. *)
HookInv ==
  /\ HookTypeOK /\ OutcomeIsTrue
  /\ notify # "returned" => outcome = "none"
  /\ request = "none" <=> notify # "post"
  /\ notify \in {"post", "wait"} => tries <= MaxAttempts
  /\ request = "ok" => processed > 0
  /\ processed < tries \/ request \in {"ok", "lost"} \/ outcome = "nil"
=============================================================================
