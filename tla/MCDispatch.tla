----------------------------- MODULE MCDispatch -----------------------------
(* Dispatch for TLC: the cfgs give two processes and one request. *)
EXTENDS Dispatch, TLC

CONSTANTS p1, p2, c1
=============================================================================
