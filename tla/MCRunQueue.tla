----------------------------- MODULE MCRunQueue -----------------------------
(* RunQueue for TLC: workers are interchangeable. *)
EXTENDS RunQueue, TLC

WorkerSymmetry == Permutations(Workers)
=============================================================================
