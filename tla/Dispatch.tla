------------------------------ MODULE Dispatch ------------------------------
(***************************************************************************)
(* The web application, the queue and the worker processes together: a     *)
(* request queues a run and calls ensure_worker (run_site, start_audit);   *)
(* the worker that serves claims runs until it finds none, and leaves      *)
(* after IDLE_SHUTDOWN_SECONDS without any.  RunQueue has the runs in      *)
(* detail; here they are counted.                                          *)
(***************************************************************************)
EXTENDS WorkerControl

CONSTANTS
    MaxRuns,        \* bound: runs queued
    MaxFaults,      \* bound: crashes, exceptions and signals together
    IdleShutdown    \* run_forever's idle_shutdown, zero or not

ASSUME DispatchAssumption == MaxRuns \in Nat /\ MaxFaults \in Nat /\ IdleShutdown \in BOOLEAN

VARIABLES
    pending,        \* runs pending in the database
    queued,         \* runs queued so far
    sawEmpty        \* sawEmpty[p]: p's last look at the queue found nothing

vars == <<ctlVars, pending, queued, sawEmpty>>

Init == /\ ControlInit
        /\ pending = 0 /\ queued = 0
        /\ sawEmpty = [p \in Procs |-> FALSE]

\* run_site and start_audit: the run is committed before ensure_worker looks.
Submit(c) == /\ queued < MaxRuns
             /\ pending' = pending + 1
             /\ queued' = queued + 1
             /\ Call(c)
             /\ UNCHANGED sawEmpty

\* start_worker: the button on the worker's status.
StartWorker(c) == Call(c) /\ UNCHANGED <<pending, queued, sawEmpty>>

\* process_once claims and executes a run.
ProcessOne(p) == /\ at[p] = "serve" /\ ~sawEmpty[p] /\ ~stop[p]
                 /\ pending > 0
                 /\ pending' = pending - 1
                 /\ UNCHANGED <<ctlVars, queued, sawEmpty>>

\* process_once finds nothing.  What is queued from here on is not seen
\* before the idle check that follows.
ProcessNone(p) == /\ at[p] = "serve" /\ ~sawEmpty[p] /\ ~stop[p]
                  /\ pending = 0
                  /\ sawEmpty' = [sawEmpty EXCEPT ![p] = TRUE]
                  /\ UNCHANGED <<ctlVars, pending, queued>>

\* Fault: _stop.wait() without a time.
WaitForStop(p) == /\ at[p] = "serve" /\ sawEmpty[p] /\ stop[p]
                  /\ sawEmpty' = [sawEmpty EXCEPT ![p] = FALSE]
                  /\ UNCHANGED <<ctlVars, pending, queued>>

\* _stop.wait(poll_seconds) returns.
Wait(p) == /\ at[p] = "serve" /\ sawEmpty[p]
           /\ sawEmpty' = [sawEmpty EXCEPT ![p] = FALSE]
           /\ UNCHANGED <<ctlVars, pending, queued>>

\* Idle for IDLE_SHUTDOWN_SECONDS: break without another look.
IdleLeave(p) == /\ sawEmpty[p]
                /\ IdleShutdown
                /\ Leave(p)
                /\ sawEmpty' = [sawEmpty EXCEPT ![p] = FALSE]
                /\ UNCHANGED <<pending, queued>>

\* Fault: the loop does not test _stop.
LoopForever(p) == FALSE

\* The loop's test.
StopLeave(p) == /\ ~sawEmpty[p] /\ stop[p]
                /\ Leave(p)
                /\ UNCHANGED <<pending, queued, sawEmpty>>

FaultLeft == crashes + signals < MaxFaults

Killed(p) == /\ Kill(p)
             /\ FaultLeft
             /\ sawEmpty' = [sawEmpty EXCEPT ![p] = FALSE]
             /\ UNCHANGED <<pending, queued>>

Loop(p) == ProcessOne(p) \/ ProcessNone(p) \/ Wait(p) \/ StopLeave(p)

Aside == UNCHANGED <<pending, queued, sawEmpty>>

\* The steps of WorkerControl the queue has no part in.
Control == /\ \/ \E p \in Procs : Main(p) \/ BeatThread(p) \/ Adopt(p)
              \/ \E p \in Procs : FaultLeft /\ (EnterUnlocked(p) \/ ReapRaises(p) \/ Signal(p))
              \/ \E c \in Clients : EnsureWorker(c) \/ (FaultLeft /\ SpawnFails(c))
              \/ Expire
           /\ Aside

Next == \/ \E c \in Clients : Submit(c) \/ StartWorker(c)
        \/ \E p \in Procs : Loop(p) \/ IdleLeave(p) \/ Killed(p)
        \/ Control

\* Threads that run keep running, requests are handled, and time passes;
\* nobody has to send a request.
Fairness ==
    /\ \A p \in Procs : /\ WF_vars((Main(p) /\ Aside) \/ Loop(p))
                        /\ WF_vars(BeatThread(p) /\ Aside)
    /\ \A c \in Clients : WF_vars(EnsureWorker(c) /\ Aside)
    /\ WF_vars(Expire /\ Aside)

Spec == Init /\ [][Next]_vars /\ Fairness

-----------------------------------------------------------------------------
(* Properties *)

\* As long as someone keeps asking for a worker, by queueing or by the button,
\* what is pending is claimed: whatever was reported wrongly, crashed, was
\* signalled or left idle meanwhile (worker_control.py:3-14).
AskersAreServed ==
    []<>(\E c \in Clients : call[c] = "check") => (pending > 0 ~> pending = 0)

\* The queue changes nothing of what WorkerControl shows: a worker that loops
\* over it is one that serves, and leaves when it is asked to.
KeepsControl == ControlSpec

-----------------------------------------------------------------------------
(* What a comment says and the code refutes *)

\* After a run is queued and ensure_worker returns, "something is there to
\* execute it" (routes.py:481): the run is claimed.
QueuedIsServed == pending > 0 ~> pending = 0
=============================================================================
