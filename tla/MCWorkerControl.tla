-------------------------- MODULE MCWorkerControl --------------------------
(* WorkerControl for TLC. *)
EXTENDS WorkerControl, TLC

Symmetry == Permutations(Procs) \cup Permutations(Clients)
=============================================================================
