------------------------------ MODULE MCWorkers -----------------------------
(* Small instances of Workers. Tasks are interchangeable; ports and SIMs are
   not, because HomeSim chooses between them. *)
EXTENDS Workers, TLC
TaskSymmetry == Permutations(Tasks)
=============================================================================
