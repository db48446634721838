------------------------------ MODULE RunQueue ------------------------------
(***************************************************************************)
(* The audit queue of app/runner.py and app/worker.py at the level of its  *)
(* database transactions.  Requests (web handlers, the scheduler, the CLI) *)
(* call create_pending_run, whose look-up, check, insert and re-read are   *)
(* separate steps that interleave.  Worker processes take the lock, reap,  *)
(* claim the oldest pending run and execute it; the CLI executes a run in  *)
(* its own process.  Any process may die between two steps, and a site may *)
(* be deleted, its runs with it, while requests and executions are in      *)
(* flight.  Each committed transaction is one step; what a transaction has *)
(* flushed but not committed shows only as the row locks it holds.         *)
(***************************************************************************)
EXTENDS Integers, FiniteSets

CONSTANTS
    Domains,        \* (account, domain) pairs a site may have
    Workers,        \* worker processes, present and future
    MaxRequests,    \* bound: number of calls of create_pending_run
    Kinds,          \* who calls: "web", "scheduled" (email=True), "cli"
    MaxCrashes,     \* bound: killed processes and signalled stops
    MaxDeletes,     \* bound: site deletions
    LockFaults,     \* TRUE: the lock file may fail to open (worker_control.py:127-132)
    RecordMayFail   \* TRUE: the database may fail while execute_run records a status

Requests  == 1..MaxRequests
Executors == Workers \cup Requests

ASSUME ConstantsAssumption ==
    /\ MaxRequests \in Nat /\ MaxCrashes \in Nat /\ MaxDeletes \in Nat
    /\ Kinds \subseteq {"web", "scheduled", "cli"}
    /\ Workers \cap Requests = {}
    /\ LockFaults \in BOOLEAN /\ RecordMayFail \in BOOLEAN

VARIABLES
    \* Requests.  Number r is the r-th to open its transaction, so numbers are
    \* in created_at order, and r also names the run that request r inserts.
    pc,         \* pc[r]: the next statement of create_pending_run
    kind,       \* kind[r] \in Kinds, fixed
    dom,        \* dom[r]: the domain asked for, fixed
    seen,       \* seen[r]: the site row loaded
    result,     \* result[r]: the run id returned, 0 for none yet
    \* Database.
    site,       \* site[d]: identity of d's site row, or NoSite
    status,     \* status[r]: audit_runs.status, "none" before, "gone" after
    pages,      \* pages[r]: page sets committed for run r
    results,    \* results[r]: sets of sub-audit results committed for run r
    \* Processes that execute runs.
    at,         \* at[e]: the next statement of executor e
    run,        \* run[e]: the run e has selected, 0 for none
    stuck,      \* stuck[w]: the runs w selected to reap
    locked,     \* workers that hold the single-instance lock
    \* The outside.
    emails,     \* emails[r]: reports that workers mailed for run r
    crashes, deletes

requestVars  == <<pc, seen, result>>
args         == <<kind, dom>>
snapshot     == <<pages, results>>
executorVars == <<at, run, stuck, locked>>
outside      == <<emails, crashes, deletes>>
vars == <<requestVars, args, site, status, snapshot, executorVars, outside>>

NoSite    == -1
Statuses  == {"none", "pending", "running", "complete", "failed", "gone"}
Active    == {"pending", "running"}
Executing == {"start", "gather", "pages", "audit", "results"}
Phases    == {"off", "select", "reap", "poll", "idle", "claim", "email"} \cup Executing

Init ==
    /\ pc = [r \in Requests |-> "idle"]
    /\ kind \in [Requests -> Kinds]
    /\ dom \in [Requests -> Domains]
    /\ seen = [r \in Requests |-> NoSite]
    /\ result = [r \in Requests |-> 0]
    /\ site \in [Domains -> {0, NoSite}]
    /\ status = [r \in Requests |-> "none"]
    /\ pages = [r \in Requests |-> 0]
    /\ results = [r \in Requests |-> 0]
    /\ at = [e \in Executors |-> "off"]
    /\ run = [e \in Executors |-> 0]
    /\ stuck = [w \in Workers |-> {}]
    /\ locked = {}
    /\ emails = [r \in Requests |-> 0]
    /\ crashes = 0 /\ deletes = 0

-----------------------------------------------------------------------------
(* create_pending_run *)

\* The partial unique index: active runs of a domain's present site.
ActiveOn(d) == {q \in Requests : dom[q] = d /\ status[q] \in Active}

\* _active_run_id for the site row that request r holds; a row that has been
\* deleted took its runs along.
ActiveSeen(r) == IF site[dom[r]] = seen[r] THEN ActiveOn(dom[r]) ELSE {}

Return(r, q) == /\ pc' = [pc EXCEPT ![r] = "done"]
                /\ result' = [result EXCEPT ![r] = q]

Lookup(r) ==
    /\ pc[r] = "idle"
    /\ \A q \in 1..(r - 1) : pc[q] # "idle"
    /\ seen' = [seen EXCEPT ![r] = site[dom[r]]]
    /\ pc' = [pc EXCEPT ![r] = IF site[dom[r]] = NoSite THEN "newsite" ELSE "check"]
    /\ UNCHANGED <<result, args, site, status, snapshot, executorVars, outside>>

\* Site absent: its insert is flushed, no run can be active on it, and the run
\* is inserted and committed with it.  A site inserted meanwhile violates
\* uq_sites_account_domain at the flush, which nothing catches.
NewSite(r) ==
    /\ pc[r] = "newsite"
    /\ \/ /\ site[dom[r]] = NoSite
          /\ site' = [site EXCEPT ![dom[r]] = r]
          /\ status' = [status EXCEPT ![r] = "pending"]
          /\ Return(r, r)
       \/ /\ site[dom[r]] # NoSite
          /\ pc' = [pc EXCEPT ![r] = "raised"]
          /\ UNCHANGED <<result, site, status>>
    /\ UNCHANGED <<seen, args, snapshot, executorVars, outside>>

CheckActive(r) ==
    /\ pc[r] = "check"
    /\ \/ \E q \in ActiveSeen(r) : Return(r, q)
       \/ /\ ActiveSeen(r) = {}
          /\ pc' = [pc EXCEPT ![r] = "insert"]
          /\ UNCHANGED result
    /\ UNCHANGED <<seen, args, site, status, snapshot, executorVars, outside>>

\* Fault: no partial unique index.
InsertUnchecked(r) ==
    /\ pc[r] = "insert"
    /\ status' = [status EXCEPT ![r] = "pending"]
    /\ Return(r, r)
    /\ UNCHANGED <<seen, args, site, snapshot, executorVars, outside>>

\* The commit fails on the foreign key or on the partial unique index.
Insert(r) ==
    /\ pc[r] = "insert"
    /\ IF site[dom[r]] = seen[r] /\ ActiveOn(dom[r]) = {}
       THEN /\ status' = [status EXCEPT ![r] = "pending"]
            /\ Return(r, r)
       ELSE /\ pc' = [pc EXCEPT ![r] = "conflict"]
            /\ UNCHANGED <<result, status>>
    /\ UNCHANGED <<seen, args, site, snapshot, executorVars, outside>>

\* Fault: the IntegrityError branch returns what it re-read, a run or nothing.
RereadReturnsNone(r) ==
    /\ pc[r] = "conflict"
    /\ \/ \E q \in ActiveSeen(r) : Return(r, q)
       \/ ActiveSeen(r) = {} /\ Return(r, 0)
    /\ UNCHANGED <<seen, args, site, status, snapshot, executorVars, outside>>

\* Fault: the IntegrityError branch raises without another look.
RereadRaises(r) ==
    /\ pc[r] = "conflict"
    /\ pc' = [pc EXCEPT ![r] = "raised"]
    /\ UNCHANGED <<result, seen, args, site, status, snapshot, executorVars, outside>>

\* The IntegrityError branch: re-read the active run, or raise.
Reread(r) ==
    /\ pc[r] = "conflict"
    /\ \/ \E q \in ActiveSeen(r) : Return(r, q)
       \/ /\ ActiveSeen(r) = {}
          /\ pc' = [pc EXCEPT ![r] = "raised"]
          /\ UNCHANGED result
    /\ UNCHANGED <<seen, args, site, status, snapshot, executorVars, outside>>

CreatePendingRun(r) == Lookup(r) \/ NewSite(r) \/ CheckActive(r) \/ Insert(r) \/ Reread(r)

-----------------------------------------------------------------------------
(* run_forever: lock, reap, claim *)

Goto(e, phase, r) == /\ at' = [at EXCEPT ![e] = phase]
                     /\ run' = [run EXCEPT ![e] = r]

\* Fault: a lock that outlives its process, such as a pid file.
QuitKeepsLock(e) == /\ Goto(e, "off", 0)
                    /\ stuck' = [w \in Workers |-> IF w = e THEN {} ELSE stuck[w]]
                    /\ UNCHANGED locked

Quit(e) == /\ Goto(e, "off", 0)
           /\ stuck' = [w \in Workers |-> IF w = e THEN {} ELSE stuck[w]]
           /\ locked' = locked \ {e}

\* Faults: no lock; no reaping.
AcquireUnlocked(w) ==
    /\ at[w] = "off"
    /\ Goto(w, "select", 0)
    /\ UNCHANGED <<requestVars, args, site, status, snapshot, stuck, locked, outside>>

AcquireWithoutReaping(w) ==
    /\ at[w] = "off"
    /\ locked = {} /\ locked' = {w}
    /\ Goto(w, "poll", 0)
    /\ UNCHANGED <<requestVars, args, site, status, snapshot, stuck, outside>>

\* A worker that finds the lock held exits, which changes nothing.
Acquire(w) ==
    /\ at[w] = "off"
    /\ \/ locked = {} /\ locked' = {w}
       \/ LockFaults /\ UNCHANGED locked
    /\ Goto(w, "select", 0)
    /\ UNCHANGED <<requestVars, args, site, status, snapshot, stuck, outside>>

ReapSelect(w) ==
    /\ at[w] = "select"
    /\ stuck' = [stuck EXCEPT ![w] = {r \in Requests : status[r] = "running"}]
    /\ Goto(w, "reap", 0)
    /\ UNCHANGED <<requestVars, args, site, status, snapshot, locked, outside>>

\* Updating a row that has been deleted raises, and the exception ends the worker.
ReapCommit(w) ==
    /\ at[w] = "reap"
    /\ IF \E r \in stuck[w] : status[r] = "gone"
       THEN /\ Quit(w)
            /\ UNCHANGED status
       ELSE /\ status' = [r \in Requests |-> IF r \in stuck[w] THEN "failed" ELSE status[r]]
            /\ stuck' = [stuck EXCEPT ![w] = {}]
            /\ Goto(w, "poll", 0)
            /\ UNCHANGED locked
    /\ UNCHANGED <<requestVars, args, site, snapshot, outside>>

\* Fault: a plain SELECT.
NoRowLocks == {}

\* Rows a worker holds FOR UPDATE between its select and its commit.
RowLocked == {run[w] : w \in {v \in Workers : at[v] = "claim"}}

Claimable == {r \in Requests : status[r] = "pending"} \ RowLocked

\* Select the oldest pending run, skipping locked rows.
ClaimSelect(w) ==
    /\ at[w] = "poll"
    /\ \E r \in Claimable : /\ \A q \in Claimable : r <= q
                            /\ Goto(w, "claim", r)
    /\ UNCHANGED <<requestVars, args, site, status, snapshot, stuck, locked, outside>>

ClaimCommit(w) ==
    /\ at[w] = "claim"
    /\ status' = [status EXCEPT ![run[w]] = "running"]
    /\ Goto(w, "start", run[w])
    /\ UNCHANGED <<requestVars, args, site, snapshot, stuck, locked, outside>>

\* Nothing to claim: sleep until the next poll, or stop after the idle spell.
\* What is enqueued after the look is not seen before it.
FindNothing(w) ==
    /\ at[w] = "poll"
    /\ Claimable = {}
    /\ Goto(w, "idle", 0)
    /\ UNCHANGED <<requestVars, args, site, status, snapshot, stuck, locked, outside>>

Sleep(w) ==
    /\ at[w] = "idle"
    /\ Goto(w, "poll", 0)
    /\ UNCHANGED <<requestVars, args, site, status, snapshot, stuck, locked, outside>>

IdleStop(w) ==
    /\ at[w] = "idle"
    /\ Quit(w)
    /\ UNCHANGED <<requestVars, args, site, status, snapshot, outside>>

\* A signal is heeded between two runs only.
SignalStop(w) ==
    /\ at[w] \in {"poll", "idle"}
    /\ crashes < MaxCrashes
    /\ crashes' = crashes + 1
    /\ Quit(w)
    /\ UNCHANGED <<requestVars, args, site, status, snapshot, emails, deletes>>

-----------------------------------------------------------------------------
(* execute_run *)

\* Where an executor goes when execute_run returns or raises: process_once
\* swallows the exception, the CLI ends with it.
Home(e) == IF e \in Workers THEN "poll" ELSE "off"

\* run_audit: execute in process whatever create_pending_run returned.
CliExecute(r) ==
    /\ kind[r] = "cli" /\ pc[r] = "done"
    /\ pc' = [pc EXCEPT ![r] = "executed"]
    /\ Goto(r, "start", result[r])
    /\ UNCHANGED <<seen, result, args, site, status, snapshot, stuck, locked, outside>>

\* Fault: no partial unique index.
StartUnchecked(e) ==
    LET r == run[e] IN
    /\ at[e] = "start"
    /\ r \notin RowLocked
    /\ IF status[r] = "gone" THEN Goto(e, Home(e), 0) /\ UNCHANGED status
       ELSE status' = [status EXCEPT ![r] = "running"] /\ Goto(e, "gather", r)
    /\ UNCHANGED <<requestVars, args, site, snapshot, stuck, locked, outside>>

\* Load the run and mark it running.  The run or its site may be gone, and
\* making a finished run active again may violate the partial unique index.
Start(e) ==
    LET r == run[e] IN
    /\ at[e] = "start"
    /\ r \notin RowLocked
    /\ IF status[r] = "gone" \/ ActiveOn(dom[r]) \ {r} # {}
       THEN /\ Goto(e, Home(e), 0)
            /\ UNCHANGED status
       ELSE /\ status' = [status EXCEPT ![r] = "running"]
            /\ Goto(e, "gather", r)
    /\ UNCHANGED <<requestVars, args, site, snapshot, stuck, locked, outside>>

\* Fetch and crawl, then flush the page rows (a foreign key on the run).
FlushPages(e) ==
    /\ at[e] = "gather"
    /\ Goto(e, IF status[run[e]] = "gone" THEN Home(e) ELSE "pages",
               IF status[run[e]] = "gone" THEN 0 ELSE run[e])
    /\ UNCHANGED <<requestVars, args, site, status, snapshot, stuck, locked, outside>>

\* Fault: no page stands in for an empty crawl.
CommitEmptyCrawl(e) ==
    /\ at[e] = "pages"
    /\ Goto(e, "audit", run[e])
    /\ UNCHANGED <<requestVars, args, site, status, snapshot, stuck, locked, outside>>

\* The commit after the connectors makes the pages durable.
CommitPages(e) ==
    /\ at[e] = "pages"
    /\ pages' = [pages EXCEPT ![run[e]] = @ + 1]
    /\ Goto(e, "audit", run[e])
    /\ UNCHANGED <<requestVars, args, site, status, results, stuck, locked, outside>>

\* The first audit's result is flushed (a foreign key on the run).
FlushResults(e) ==
    /\ at[e] = "audit"
    /\ Goto(e, IF status[run[e]] = "gone" THEN Home(e) ELSE "results",
               IF status[run[e]] = "gone" THEN 0 ELSE run[e])
    /\ UNCHANGED <<requestVars, args, site, status, snapshot, stuck, locked, outside>>

Finish(e) ==
    LET r == run[e] IN
    /\ at[e] = "results"
    /\ r \notin RowLocked
    /\ status' = [status EXCEPT ![r] = "complete"]
    /\ results' = [results EXCEPT ![r] = @ + 1]
    /\ IF e \in Workers /\ kind[r] = "scheduled"
       THEN Goto(e, "email", r)
       ELSE Goto(e, Home(e), 0)
    /\ UNCHANGED <<requestVars, args, site, pages, stuck, locked, outside>>

\* Faults: no rollback, so the failure commits what was flushed; execute_run
\* swallows the exception, so process_once goes on to the email.
FailCommitsResults(e) ==
    LET r == run[e] IN
    /\ at[e] = "results"
    /\ status' = [status EXCEPT ![r] = "failed"]
    /\ results' = [results EXCEPT ![r] = @ + 1]
    /\ Goto(e, Home(e), 0)
    /\ UNCHANGED <<requestVars, args, site, pages, stuck, locked, outside>>

FailThenMails(e) ==
    LET r == run[e] IN
    /\ at[e] \in Executing \ {"start"}
    /\ r \notin RowLocked
    /\ status' = [status EXCEPT ![r] = IF @ = "gone" THEN "gone" ELSE "failed"]
    /\ IF e \in Workers THEN Goto(e, "email", r) ELSE Goto(e, "off", 0)
    /\ UNCHANGED <<requestVars, args, site, snapshot, stuck, locked, outside>>

\* Something in the try block raises: roll back, record the failure.
Fail(e) ==
    LET r == run[e] IN
    /\ at[e] \in Executing \ {"start"}
    /\ r \notin RowLocked
    /\ status' = [status EXCEPT ![r] = IF @ = "gone" THEN "gone" ELSE "failed"]
    /\ Goto(e, Home(e), 0)
    /\ UNCHANGED <<requestVars, args, site, snapshot, stuck, locked, outside>>

\* The database refuses: before the try block, or while the failure is recorded.
FailUnrecorded(e) ==
    /\ RecordMayFail
    /\ at[e] \in Executing
    /\ Goto(e, Home(e), 0)
    /\ UNCHANGED <<requestVars, args, site, status, snapshot, stuck, locked, outside>>

\* email_report; what it raises, for a run deleted meanwhile too, is swallowed.
Email(w) ==
    /\ at[w] = "email"
    /\ emails' = IF status[run[w]] = "gone" THEN emails ELSE [emails EXCEPT ![run[w]] = @ + 1]
    /\ Goto(w, "poll", 0)
    /\ UNCHANGED <<requestVars, args, site, status, snapshot, stuck, locked, crashes, deletes>>

EmailFails(w) ==
    /\ at[w] = "email"
    /\ Goto(w, "poll", 0)
    /\ UNCHANGED <<requestVars, args, site, status, snapshot, stuck, locked, outside>>

ExecuteRun(e) == Start(e) \/ FlushPages(e) \/ CommitPages(e) \/ FlushResults(e)
                 \/ Finish(e) \/ Fail(e) \/ FailUnrecorded(e)

-----------------------------------------------------------------------------
(* Death of a process, deletion of a site *)

\* Killed: open transactions roll back, the operating system drops the lock.
Crash(e) ==
    /\ at[e] # "off"
    /\ crashes < MaxCrashes
    /\ crashes' = crashes + 1
    /\ Quit(e)
    /\ UNCHANGED <<requestVars, args, site, status, snapshot, emails, deletes>>

\* Runs whose rows an open transaction has locked: the delete waits for it.
InUse == RowLocked \cup {run[e] : e \in {f \in Executors : at[f] \in {"pages", "results"}}}

DeleteSite(d) ==
    LET Doomed == {r \in Requests : dom[r] = d /\ status[r] # "none"} IN
    /\ site[d] # NoSite
    /\ Doomed \cap InUse = {}
    /\ deletes < MaxDeletes
    /\ deletes' = deletes + 1
    /\ site' = [site EXCEPT ![d] = NoSite]
    /\ status' = [r \in Requests |-> IF r \in Doomed THEN "gone" ELSE status[r]]
    /\ pages' = [r \in Requests |-> IF r \in Doomed THEN 0 ELSE pages[r]]
    /\ results' = [r \in Requests |-> IF r \in Doomed THEN 0 ELSE results[r]]
    /\ UNCHANGED <<requestVars, args, executorVars, emails, crashes>>

-----------------------------------------------------------------------------
Work(w) == Acquire(w) \/ ReapSelect(w) \/ ReapCommit(w) \/ ClaimSelect(w) \/ ClaimCommit(w)
           \/ FindNothing(w) \/ Sleep(w) \/ Email(w) \/ EmailFails(w)

Next == \/ \E r \in Requests : CreatePendingRun(r) \/ CliExecute(r)
        \/ \E w \in Workers : Work(w) \/ IdleStop(w) \/ SignalStop(w)
        \/ \E e \in Executors : ExecuteRun(e) \/ Crash(e)
        \/ \E d \in Domains : DeleteSite(d)

Spec == Init /\ [][Next]_vars

\* A process that is alive keeps going.  Nothing starts a worker by itself: the
\* scheduler queues without ensure_worker, and a worker without work leaves.
Fairness == /\ \A w \in Workers : WF_vars(at[w] # "off" /\ Work(w))
            /\ \A e \in Executors : WF_vars(ExecuteRun(e))

FairSpec == Spec /\ Fairness

-----------------------------------------------------------------------------
(* Properties of every configuration *)

\* Every variable has its type, and an executor in hand of nothing holds nothing.
TypeOK ==
    /\ pc \in [Requests -> {"idle", "newsite", "check", "insert", "conflict", "done", "raised",
                            "executed"}]
    /\ kind \in [Requests -> Kinds] /\ dom \in [Requests -> Domains]
    /\ seen \in [Requests -> Requests \cup {0, NoSite}]
    /\ result \in [Requests -> Requests \cup {0}]
    /\ site \in [Domains -> Requests \cup {0, NoSite}]
    /\ status \in [Requests -> Statuses]
    /\ pages \in [Requests -> Nat] /\ results \in [Requests -> Nat]
    /\ at \in [Executors -> Phases] /\ run \in [Executors -> Requests \cup {0}]
    /\ stuck \in [Workers -> SUBSET Requests] /\ locked \subseteq Workers
    /\ emails \in [Requests -> Nat] /\ crashes \in Nat /\ deletes \in Nat
    /\ \A e \in Executors : at[e] \in Executing \cup {"claim", "email"} => run[e] \in Requests
    /\ \A r \in Requests : pc[r] \in {"done", "executed"} => result[r] \in Requests

\* A site has at most one active run, whatever requests, workers, CLI runs and
\* deletions interleave (runner.py:87-92, models/run.py:39-40).
SingleFlight ==
    \A q, r \in Requests :
        q # r /\ dom[q] = dom[r] => ~(status[q] \in Active /\ status[r] \in Active)

\* Two workers never hold the same run, even when the lock let both run
\* (worker.py:53-54).
ClaimedOnce ==
    \A v, w \in Workers :
        v # w /\ at[v] \in Executing \cup {"claim"} /\ at[w] \in Executing \cup {"claim"}
            => run[v] # run[w]

\* A complete run has its pages and its results, whoever executed it and
\* whatever failed on the way (runner.py:189, 239-241).
CompleteHasSnapshot ==
    \A r \in Requests : status[r] = "complete" => pages[r] > 0 /\ results[r] > 0

\* Workers mail a report once at most, for a run that was queued with email, and
\* never before the run's results are durable (worker.py:114-117).  What the
\* CLI mails for itself (cli.py:51-54) is not counted.
MailedOnce ==
    \A r \in Requests :
        emails[r] > 0 => /\ emails[r] = 1 /\ kind[r] = "scheduled"
                         /\ results[r] > 0 \/ status[r] = "gone"

-----------------------------------------------------------------------------
(* Properties when only workers execute, under a lock that works *)

WorkersOnly == "cli" \notin Kinds /\ LockFaults = FALSE /\ RecordMayFail = FALSE

\* The run an executor works on is running, or deleted: nobody fails it, takes
\* it or completes it from under the executor (runner.py:132-135).
ExecutedIsRunning ==
    \A e \in Executors : at[e] \in Executing => status[run[e]] \in {"running", "gone"}

\* Once the worker has reaped, every running run is the one it executes: no
\* run is left running with nobody to finish it (worker.py:133-135).
NoOrphanWhileServing ==
    \A w \in Workers : at[w] \notin {"off", "select", "reap"} =>
        \A r \in Requests : status[r] = "running" => at[w] \in Executing /\ run[w] = r

\* A run is a snapshot: complete with one page set and one result set, and
\* without results in every other state (models/run.py:3-5).
OneSnapshot ==
    \A r \in Requests : /\ pages[r] <= 1
                        /\ results[r] = IF status[r] = "complete" THEN 1 ELSE 0
                        /\ status[r] = "complete" => pages[r] = 1

\* A request is refused only for a race that it lost: to another request that
\* made the site it found absent, which it is not given the run of, or to an
\* active run that ended, or a site that was deleted, between its two looks
\* (runner.py:89-92, 101-102, 117-123).
RefusedWasOvertaken ==
    \A r \in Requests : pc[r] = "raised" =>
        LET Others == {q \in Requests \ {r} : dom[q] = dom[r]} IN
        IF seen[r] = NoSite
        THEN \E q \in Others : seen[q] = NoSite /\ status[q] # "none"
        ELSE \/ site[dom[r]] # seen[r]
             \/ \E q \in Others : status[q] \in {"complete", "failed", "gone"}

\* Assumption of the properties that promise an end: a worker is started, in the
\* end, whenever none holds the lock.  It is no part of the code's own schedule;
\* people who keep using the dashboard make it true (Dispatch!AskersAreServed),
\* the scheduler alone does not.
WorkersKeepComing == WF_vars(\E w \in Workers : Acquire(w))

\* As long as workers keep coming, a request that got a run id sees that run
\* end, across crashes, stops, reaping and deletions (README.md:95-96).
AcceptedEnds ==
    WorkersKeepComing =>
        \A r \in Requests :
            pc[r] = "done" ~> result[r] # 0 /\ status[result[r]] \in {"complete", "failed", "gone"}

\* The queue is the run life cycle it promises, and what that life cycle
\* promises to happen does as long as workers keep coming.
Lifecycle == INSTANCE RunLifecycle WITH Runs <- Requests

LifecycleRefined == Lifecycle!Safety /\ (WorkersKeepComing => Lifecycle!Progress)

-----------------------------------------------------------------------------
(* What the documentation says and some configurations refute *)

\* "pending -> running -> complete/failed on each run" (README.md:95).
RunMovesForward ==
    [][\A r \in Requests :
        status'[r] # status[r] /\ status'[r] # "gone" =>
            <<status[r], status'[r]>> \in
                {<<"none", "pending">>, <<"pending", "running">>,
                 <<"running", "complete">>, <<"running", "failed">>}]_vars

\* A scheduled request has its report mailed when its run completes: the run
\* it is given will mail (scheduler.py:5-6).
ScheduledRunMails ==
    \A r \in Requests : kind[r] = "scheduled" /\ pc[r] = "done" => kind[result[r]] = "scheduled"
=============================================================================
