------------------------------ MODULE MCSmsPath -----------------------------
(* Small instances of SmsPath. The good PDUs are interchangeable. *)
EXTENDS SmsPath, TLC
CONSTANTS p1, p2, bad
Symmetry == Permutations({p1, p2})
=============================================================================
