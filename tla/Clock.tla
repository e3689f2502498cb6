------------------------------- MODULE Clock --------------------------------
(* The clock that components read with time.Now, in ticks. *)
EXTENDS Naturals

VARIABLE now

Advance(bound) == now < bound /\ now' = now + 1
=============================================================================
