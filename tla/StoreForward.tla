---------------------------- MODULE StoreForward ----------------------------
(***************************************************************************)
(* What the gateway promises about a received message, without saying how: *)
(* it holds the message from its arrival until the cloud has it. It may    *)
(* deliver it more than once, and it may give it up only on the record.    *)
(***************************************************************************)
CONSTANT Pdus

VARIABLES held,      \* PDUs the gateway is responsible for
          atCloud,   \* PDUs the cloud has received
          givenUp    \* PDUs the gateway discarded on purpose

sfVars == <<held, atCloud, givenUp>>

SFInit == held = {} /\ atCloud = {} /\ givenUp = {}

Arrive(p) == /\ held' = held \cup {p}
             /\ givenUp' = givenUp \ {p}
             /\ UNCHANGED atCloud

Deliver(p) == /\ p \in held
              /\ atCloud' = atCloud \cup {p}
              /\ UNCHANGED <<held, givenUp>>

(* Only what the cloud has is let go. *)
Release(S) == /\ S \subseteq held \cap atCloud
              /\ held' = held \ S
              /\ UNCHANGED <<atCloud, givenUp>>

Discard(S) == /\ S \subseteq held
              /\ held' = held \ S
              /\ givenUp' = givenUp \cup (S \ atCloud)
              /\ UNCHANGED atCloud

SFNext == \/ \E p \in Pdus : Arrive(p) \/ Deliver(p)
          \/ \E S \in SUBSET Pdus : Release(S) \/ Discard(S)

SFSpec == SFInit /\ [][SFNext]_sfVars
=============================================================================
