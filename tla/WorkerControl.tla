--------------------------- MODULE WorkerControl ---------------------------
(***************************************************************************)
(* app/worker_control.py and the process life of app/worker.py: the        *)
(* single-instance lock, the heartbeat file, and ensure_worker, which      *)
(* starts a worker from the web application when none seems alive.         *)
(*                                                                         *)
(* The lock is the kernel's (fcntl.flock) and goes with its process.  The  *)
(* heartbeat is a plain file: write_text truncates it and then writes, and *)
(* clear_heartbeat reads it and then unlinks it, each two steps between    *)
(* which others run.  A web child that dies stays a zombie, which os.kill  *)
(* finds, until the web process waits for it.                              *)
(***************************************************************************)
EXTENDS Naturals, FiniteSets

CONSTANTS
    Procs,          \* worker processes at one time; a slot is used again once nothing names it
    Clients,        \* web requests at one time that call ensure_worker
    MaxCrashes,     \* bound: processes killed, errors of open, reap_stuck_runs and Popen
    MaxSignals,     \* bound: SIGINT or SIGTERM delivered
    None            \* no process

ASSUME ControlAssumption ==
    MaxCrashes \in Nat /\ MaxSignals \in Nat /\ None \notin Procs

VARIABLES
    life,       \* life[p]: "none", "alive", or "zombie": dead but not waited for
    at,         \* at[p]: the next statement of p's main thread
    beating,    \* beating[p]: p's heartbeat thread runs
    stop,       \* stop[p]: p's _stop event
    lock,       \* the process that holds .worker.lock
    handle,     \* handle[p]: p's _lock_handle is set
    hb,         \* .worker_state.json: its pid ("absent", "torn" without) and age
    writing,    \* writing[x]: x has the heartbeat open, its inode still "linked" or "lost"
    call,       \* call[c]: the next statement of ensure_worker
    child,      \* child[c]: the pid c has spawned
    crashes, signals

ctlVars == <<life, at, beating, stop, lock, handle, hb, writing, call, child, crashes,
             signals>>

Writers == Procs \cup Clients
Stages  == {"off", "boot", "begin", "reap", "serve", "clear", "unlink", "release",
            "exit", "exitUnlink", "die"}

\* The heartbeat file's contents.
Absent  == [kind |-> "absent", pid |-> None, fresh |-> FALSE]
Torn    == [kind |-> "torn", pid |-> None, fresh |-> FALSE]
Beat(p) == [kind |-> "beat", pid |-> p, fresh |-> TRUE]

ControlInit ==
    /\ life = [p \in Procs |-> "none"]
    /\ at = [p \in Procs |-> "off"]
    /\ beating = [p \in Procs |-> FALSE]
    /\ stop = [p \in Procs |-> FALSE]
    /\ lock = None
    /\ handle = [p \in Procs |-> FALSE]
    /\ hb = Absent
    /\ writing = [x \in Writers |-> "no"]
    /\ call = [c \in Clients |-> "idle"]
    /\ child = [c \in Clients |-> None]
    /\ crashes = 0 /\ signals = 0

-----------------------------------------------------------------------------
(* The heartbeat file *)

\* _pid_alive: a zombie still answers signal 0.
PidAlive(p) == p # None /\ life[p] # "none"

\* Fault: a pid that runs is enough.
PidIsEnough == hb.kind = "beat" /\ PidAlive(hb.pid)

\* worker_status()["running"]
Reported == hb.kind = "beat" /\ hb.fresh /\ PidAlive(hb.pid)

\* write_heartbeat: open truncates, then the data is written, to nowhere if
\* the file was unlinked in between.
OpenHeartbeat(x) == /\ writing[x] = "no"
                    /\ writing' = [writing EXCEPT ![x] = "linked"]
                    /\ hb' = Torn

WriteHeartbeat(x, p) == /\ writing[x] # "no"
                        /\ hb' = IF writing[x] = "linked" THEN Beat(p) ELSE hb
                        /\ writing' = [writing EXCEPT ![x] = "no"]

\* clear_heartbeat's test, and its unlink.
MayClear(p) == ~(hb.kind = "beat" /\ hb.pid # p /\ PidAlive(hb.pid))

UnlinkHeartbeat == /\ hb' = Absent
                   /\ writing' = [x \in Writers |-> IF writing[x] = "linked" THEN "lost"
                                                    ELSE writing[x]]

\* STALE_AFTER_SECONDS go by without a beat.  A heartbeat thread beats every
\* HEARTBEAT_SECONDS, a third of that.
Expire == /\ hb.kind = "beat" /\ hb.fresh
          /\ \A p \in Procs : ~beating[p]
          /\ hb' = [hb EXCEPT !.fresh = FALSE]
          /\ UNCHANGED <<life, at, beating, stop, lock, handle, writing, call, child, crashes, signals>>

-----------------------------------------------------------------------------
(* A worker process: run_forever and the interpreter's exit *)

Step(p, from, to) == at[p] = from /\ at' = [at EXCEPT ![p] = to]

\* Fault: a heartbeat process, which a killed worker leaves behind.
DieBeating(p) == /\ at' = [at EXCEPT ![p] = "off"]
                 /\ \E state \in {"zombie", "none"} : life' = [life EXCEPT ![p] = state]
                 /\ stop' = [stop EXCEPT ![p] = FALSE]
                 /\ lock' = IF lock = p THEN None ELSE lock
                 /\ handle' = [handle EXCEPT ![p] = FALSE]
                 /\ writing' = [writing EXCEPT ![p] = "no"]
                 /\ UNCHANGED beating

\* The kernel closes what p had open; p is a zombie if the web process that
\* started it is there.
Die(p) == /\ at' = [at EXCEPT ![p] = "off"]
          /\ \E state \in {"zombie", "none"} : life' = [life EXCEPT ![p] = state]
          /\ beating' = [beating EXCEPT ![p] = FALSE]
          /\ stop' = [stop EXCEPT ![p] = FALSE]
          /\ lock' = IF lock = p THEN None ELSE lock
          /\ handle' = [handle EXCEPT ![p] = FALSE]
          /\ writing' = [writing EXCEPT ![p] = "no"]

\* Fault: a worker that trusts the web application's check of the heartbeat.
TakeLockUnchecked(p) == /\ Step(p, "boot", "begin")
                        /\ lock' = p
                        /\ handle' = [handle EXCEPT ![p] = TRUE]
                        /\ UNCHANGED <<life, beating, stop, hb, writing, call, child, crashes, signals>>

\* acquire_single_instance; the loser returns before atexit knows of the heartbeat.
TakeLock(p) == /\ Step(p, "boot", "begin")
               /\ lock = None
               /\ lock' = p
               /\ handle' = [handle EXCEPT ![p] = TRUE]
               /\ UNCHANGED <<life, beating, stop, hb, writing, call, child, crashes, signals>>

\* The lock file can not be opened: the worker runs without it, beside whoever holds it.
EnterUnlocked(p) == /\ Step(p, "boot", "begin")
                    /\ crashes < MaxCrashes
                    /\ crashes' = crashes + 1
                    /\ UNCHANGED <<life, beating, stop, lock, handle, hb, writing, call, child, signals>>

LoseLock(p) == /\ at[p] = "boot"
               /\ lock # None
               /\ Die(p)
               /\ UNCHANGED <<hb, call, child, crashes, signals>>

\* _start_heartbeat: the first beat is the main thread's own.
FirstBeatOpen(p) == /\ at[p] = "begin"
                    /\ OpenHeartbeat(p)
                    /\ UNCHANGED <<life, at, beating, stop, lock, handle, call, child, crashes, signals>>

FirstBeatWrite(p) == /\ Step(p, "begin", "reap")
                     /\ WriteHeartbeat(p, p)
                     /\ beating' = [beating EXCEPT ![p] = TRUE]
                     /\ UNCHANGED <<life, stop, lock, handle, call, child, crashes, signals>>

\* Fault: only the first beat is written.
NoBeat(p) == FALSE

\* The beat thread: until _stop is set, which an idle shutdown never does.
BeatOpen(p) == /\ beating[p] /\ ~stop[p]
               /\ OpenHeartbeat(p)
               /\ UNCHANGED <<life, at, beating, stop, lock, handle, call, child, crashes, signals>>

BeatWrite(p) == /\ beating[p]
                /\ WriteHeartbeat(p, p)
                /\ UNCHANGED <<life, at, beating, stop, lock, handle, call, child, crashes, signals>>

BeatEnd(p) == /\ beating[p] /\ stop[p] /\ writing[p] = "no"
              /\ beating' = [beating EXCEPT ![p] = FALSE]
              /\ UNCHANGED <<life, at, stop, lock, handle, hb, writing, call, child, crashes, signals>>

\* reap_stuck_runs returns, or raises before the loop's finally clause applies.
Reaped(p) == /\ Step(p, "reap", "serve")
             /\ UNCHANGED <<life, beating, stop, lock, handle, hb, writing, call, child, crashes, signals>>

ReapRaises(p) == /\ Step(p, "reap", "exit")
                 /\ crashes < MaxCrashes
                 /\ crashes' = crashes + 1
                 /\ UNCHANGED <<life, beating, stop, lock, handle, hb, writing, call, child, signals>>

\* The loop ends: idle for long enough, or _stop is set.
Leave(p) == /\ Step(p, "serve", "clear")
            /\ UNCHANGED <<life, beating, stop, lock, handle, hb, writing, call, child, crashes, signals>>

\* Fault: the worker waits until the heartbeat is its own.
ClearOwnOnly(p) == /\ hb.kind = "beat" /\ hb.pid = p
                   /\ Step(p, "clear", "unlink") \/ Step(p, "exit", "exitUnlink")
                   /\ UNCHANGED <<life, beating, stop, lock, handle, hb, writing, call, child, crashes, signals>>

ClearRead(p) == /\ \/ Step(p, "clear", IF MayClear(p) THEN "unlink" ELSE "release")
                   \/ Step(p, "exit", IF MayClear(p) THEN "exitUnlink" ELSE "die")
                /\ UNCHANGED <<life, beating, stop, lock, handle, hb, writing, call, child, crashes, signals>>

Unlink(p) == /\ Step(p, "unlink", "release") \/ Step(p, "exitUnlink", "die")
             /\ UnlinkHeartbeat
             /\ UNCHANGED <<life, beating, stop, lock, handle, call, child, crashes, signals>>

Release(p) == /\ Step(p, "release", "exit")
              /\ lock' = IF handle[p] THEN None ELSE lock
              /\ handle' = [handle EXCEPT ![p] = FALSE]
              /\ UNCHANGED <<life, beating, stop, hb, writing, call, child, crashes, signals>>

Exit(p) == /\ at[p] = "die"
           /\ Die(p)
           /\ UNCHANGED <<hb, call, child, crashes, signals>>

Signal(p) == /\ at[p] \in Stages \ {"off", "boot"}
             /\ ~stop[p]
             /\ signals < MaxSignals
             /\ signals' = signals + 1
             /\ stop' = [stop EXCEPT ![p] = TRUE]
             /\ UNCHANGED <<life, at, beating, lock, handle, hb, writing, call, child, crashes>>

Kill(p) == /\ life[p] = "alive"
           /\ crashes < MaxCrashes
           /\ crashes' = crashes + 1
           /\ Die(p)
           /\ UNCHANGED <<hb, call, child, signals>>

\* The web process ends, and init waits for its children.
Adopt(p) == /\ life[p] = "zombie"
            /\ life' = [life EXCEPT ![p] = "none"]
            /\ UNCHANGED <<at, beating, stop, lock, handle, hb, writing, call, child, crashes, signals>>

-----------------------------------------------------------------------------
(* ensure_worker *)

Check(c) == /\ call[c] = "check"
            /\ call' = [call EXCEPT ![c] = IF Reported THEN "idle" ELSE "spawn"]
            /\ UNCHANGED <<life, at, beating, stop, lock, handle, hb, writing, child, crashes, signals>>

\* A pid nothing refers to any more.
Unused(p) == life[p] = "none" /\ hb.pid # p /\ \A c \in Clients : child[c] # p

\* Popen; CPython first waits for the children that have died.
Spawn(c) == /\ call[c] = "spawn"
            /\ \E p \in Procs :
                 /\ Unused(p)
                 /\ life' = [q \in Procs |-> IF q = p THEN "alive"
                                             ELSE IF life[q] = "zombie" THEN "none" ELSE life[q]]
                 /\ at' = [at EXCEPT ![p] = "boot"]
                 /\ child' = [child EXCEPT ![c] = p]
            /\ call' = [call EXCEPT ![c] = "claim"]
            /\ UNCHANGED <<beating, stop, lock, handle, hb, writing, crashes, signals>>

\* Popen raises OSError: there is no pid to claim liveness for.
SpawnFails(c) == /\ call[c] = "spawn"
                 /\ crashes < MaxCrashes
                 /\ crashes' = crashes + 1
                 /\ call' = [call EXCEPT ![c] = "idle"]
                 /\ UNCHANGED <<life, at, beating, stop, lock, handle, hb, writing, child, signals>>

\* Claim liveness for the child.
ClaimOpen(c) == /\ call[c] = "claim"
                /\ OpenHeartbeat(c)
                /\ UNCHANGED <<life, at, beating, stop, lock, handle, call, child, crashes, signals>>

ClaimWrite(c) == /\ call[c] = "claim"
                 /\ WriteHeartbeat(c, child[c])
                 /\ call' = [call EXCEPT ![c] = "idle"]
                 /\ child' = [child EXCEPT ![c] = None]
                 /\ UNCHANGED <<life, at, beating, stop, lock, handle, crashes, signals>>

\* A request that calls ensure_worker (run_site, start_audit, start_worker).
Call(c) == /\ call[c] = "idle"
           /\ call' = [call EXCEPT ![c] = "check"]
           /\ UNCHANGED <<life, at, beating, stop, lock, handle, hb, writing, child, crashes, signals>>

-----------------------------------------------------------------------------
EnsureWorker(c) == Check(c) \/ Spawn(c) \/ ClaimOpen(c) \/ ClaimWrite(c)

BeatThread(p) == BeatOpen(p) \/ BeatWrite(p) \/ BeatEnd(p)

\* The main thread, but for the loop in "serve".
Main(p) == TakeLock(p) \/ LoseLock(p) \/ FirstBeatOpen(p) \/ FirstBeatWrite(p) \/ Reaped(p)
           \/ ClearRead(p) \/ Unlink(p) \/ Release(p) \/ Exit(p)

ControlNext ==
    \/ \E p \in Procs : \/ Main(p) \/ BeatThread(p) \/ Leave(p) \/ Adopt(p)
                       \/ EnterUnlocked(p) \/ ReapRaises(p) \/ Signal(p) \/ Kill(p)
    \/ \E c \in Clients : Call(c) \/ EnsureWorker(c) \/ SpawnFails(c)
    \/ Expire

\* Threads that run keep running, requests are handled, and time passes.
ControlFairness ==
    /\ \A p \in Procs : /\ WF_ctlVars(Main(p) \/ (stop[p] /\ Leave(p)))
                        /\ WF_ctlVars(BeatThread(p))
    /\ \A c \in Clients : WF_ctlVars(EnsureWorker(c))
    /\ WF_ctlVars(Expire)

ControlSafety == ControlInit /\ [][ControlNext]_ctlVars

ControlSpec == ControlSafety /\ ControlFairness

-----------------------------------------------------------------------------
(* Properties *)

\* Every variable has its type; processes that are not alive do nothing.
ControlTypeOK ==
    /\ life \in [Procs -> {"none", "alive", "zombie"}]
    /\ at \in [Procs -> Stages]
    /\ beating \in [Procs -> BOOLEAN] /\ stop \in [Procs -> BOOLEAN]
    /\ lock \in Procs \cup {None} /\ handle \in [Procs -> BOOLEAN]
    /\ hb \in [kind : {"absent", "torn", "beat"}, pid : Procs \cup {None}, fresh : BOOLEAN]
    /\ writing \in [Writers -> {"no", "linked", "lost"}]
    /\ call \in [Clients -> {"idle", "check", "spawn", "claim"}]
    /\ child \in [Clients -> Procs \cup {None}]
    /\ \A p \in Procs : life[p] = "alive" <=> at[p] # "off"
    /\ \A p \in Procs : beating[p] => life[p] = "alive"

\* Of the workers between acquire_single_instance and its release, at most one
\* has the lock, whatever was spawned beside it: whoever keeps it company
\* could not open the lock file (worker.py:9-10, worker_control.py:6-9, 129-132).
OneWorker ==
    \A p, q \in Procs :
        /\ {at[p], at[q]} \subseteq {"begin", "reap", "serve", "clear", "unlink", "release"}
        /\ handle[p] /\ handle[q]
        => p = q

\* A worker serves with the lock, and is not asked to stop.
Serving == \E p \in Procs : at[p] = "serve" /\ ~stop[p] /\ lock = p

\* A worker that serves with the lock is seen to run again, after its heartbeat
\* has been truncated, claimed for a child that lost the lock, beaten over by a
\* worker without it, or wiped by an exiting predecessor (worker.py:82-85).
HeartbeatHeals == Serving ~> (Reported /\ hb.pid = lock) \/ ~Serving

\* When every worker is dead, cleanly or not, that is noticed in the end
\* (worker_control.py:35-37, 116).
DeadIsNoticed ==
    (\A p \in Procs : life[p] # "alive") ~> ~Reported \/ \E p \in Procs : life[p] = "alive"

\* A worker asked to stop goes, and the lock with it (worker.py:11, 149-151).
SignalledGoes == \A p \in Procs : stop[p] ~> at[p] = "off" /\ lock # p

-----------------------------------------------------------------------------
(* What the documentation says and the code refutes *)

\* clear_heartbeat never wipes the heartbeat of a different live worker
\* (worker_control.py:87-91).
WipesOnlyItsOwn ==
    [][\A p \in Procs :
        at[p] \in {"unlink", "exitUnlink"} /\ hb' = Absent /\ hb.kind = "beat" /\ hb.pid # p
            => lock # hb.pid]_ctlVars

\* A worker that is reported running runs: one that was killed is reported
\* stopped at once (worker_control.py:107-109).
KilledIsNotReported == Reported => life[hb.pid] = "alive"
=============================================================================
