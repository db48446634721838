--------------------------- MODULE RunQueueProofs ---------------------------
(***************************************************************************)
(* Theorems of RunQueue, for every value of its constants.                 *)
(***************************************************************************)
EXTENDS RunQueue, TLAPS

\* A request that has not returned has not inserted its run.
Unreturned == {"idle", "newsite", "check", "insert", "conflict"}

NotYetInserted == \A r \in Requests : pc[r] \in Unreturned => status[r] = "none"

\* Whatever an id names has been inserted.
ReturnedExists == \A r, q \in Requests : result[r] = q => status[q] # "none"
InHandExists   == \A e \in Executors : \A q \in Requests : run[e] = q => status[q] # "none"
StuckStarted   == \A w \in Workers : \A r \in stuck[w] : status[r] \notin {"none", "pending"}

\* A row locked FOR UPDATE stays as it was selected.
ClaimStillPending ==
    \A w \in Workers : \A q \in Requests : at[w] = "claim" /\ run[w] = q => status[q] = "pending"

\* What a worker executes has left the queue.
WorkedOnStarted ==
    \A w \in Workers : \A q \in Requests :
        at[w] \in Executing \cup {"email"} /\ run[w] = q => status[q] \notin {"none", "pending"}

\* Flushed rows keep their run from being deleted.
FlushedNotGone ==
    \A e \in Executors : \A q \in Requests :
        at[e] \in {"pages", "results"} /\ run[e] = q => status[q] # "gone"

\* A request that found a site still refers to one, present or deleted.
SeenASite == \A r \in Requests : pc[r] \in {"check", "insert", "conflict"} => seen[r] # NoSite

\* A domain without a site has no runs: deleting a site takes its runs.
NoSiteNoRuns == \A r \in Requests : site[dom[r]] = NoSite => status[r] \in {"none", "gone"}

\* Single-flight is not inductive by itself.  A claim makes a run active, so the
\* row it locked must still be pending; a new site's run is inserted unchecked,
\* so an absent site must have no active run; a reaper must not touch a run
\* that has yet to start.
IInv == /\ TypeOK
        /\ NotYetInserted
        /\ ReturnedExists
        /\ InHandExists
        /\ StuckStarted
        /\ ClaimStillPending
        /\ WorkedOnStarted
        /\ FlushedNotGone
        /\ ClaimedOnce
        /\ SeenASite
        /\ NoSiteNoRuns
        /\ SingleFlight

-----------------------------------------------------------------------------
\* Request numbers are integers, none of them 0 ("no run") or NoSite.
LEMMA NumbersAreNotFlags == 0 \notin Requests /\ NoSite \notin Requests /\ Requests \subseteq Int
  BY ConstantsAssumption DEF Requests, NoSite

\* Every worker is one of the executors.
LEMMA WorkersExecute == Workers \subseteq Executors
  BY DEF Executors

\* A counter that is incremented stays a natural number.
LEMMA Counted ==
  ASSUME NEW S, NEW f \in [S -> Nat], NEW x
  PROVE  [f EXCEPT ![x] = @ + 1] \in [S -> Nat]
<1>1. x \in S => f[x] + 1 \in Nat OBVIOUS
<1>2. QED BY <1>1, Zenon

\* The initial state is well typed: nothing has been asked and nothing executes.
LEMMA TypeInit == Init => TypeOK
  BY NumbersAreNotFlags DEF Init, TypeOK, Phases, Executing, Statuses

\* What the actions of one kind of process do not touch keeps its type, so each
\* action is looked at by itself.
LEMMA TypeStep == ASSUME TypeOK, [Next]_vars PROVE TypeOK'
<1> USE NumbersAreNotFlags
<1> USE DEF requestVars, args, snapshot, executorVars, outside
<1>1. ASSUME NEW r \in Requests, CreatePendingRun(r) PROVE TypeOK'
  <2>1. CASE Lookup(r)
    BY <2>1 DEF TypeOK, Lookup
  <2>2. CASE NewSite(r)
    BY <2>2 DEF TypeOK, NewSite, Return, Statuses
  <2>3. CASE CheckActive(r)
    BY <2>3 DEF TypeOK, CheckActive, Return, ActiveSeen, ActiveOn
  <2>4. CASE Insert(r)
    BY <2>4 DEF TypeOK, Insert, Return, Statuses
  <2>5. CASE Reread(r)
    BY <2>5 DEF TypeOK, Reread, Return, ActiveSeen, ActiveOn
  <2>6. QED BY <1>1, <2>1, <2>2, <2>3, <2>4, <2>5 DEF CreatePendingRun
<1>2. ASSUME NEW r \in Requests, CliExecute(r) PROVE TypeOK'
  BY <1>2 DEF TypeOK, CliExecute, Goto, Executors, Phases, Executing
<1>3. ASSUME NEW w \in Workers, Work(w) \/ IdleStop(w) \/ SignalStop(w) PROVE TypeOK'
  <2>0. w \in Executors BY DEF Executors
  <2>1. CASE Acquire(w)
    BY <2>0, <2>1 DEF TypeOK, Acquire, Goto, Phases, Executing
  <2>2. CASE ReapSelect(w)
    BY <2>0, <2>2 DEF TypeOK, ReapSelect, Goto, Phases, Executing
  <2>3. CASE ReapCommit(w)
    BY <2>0, <2>3 DEF TypeOK, ReapCommit, Quit, Goto, Phases, Executing, Statuses
  <2>4. CASE ClaimSelect(w)
    BY <2>0, <2>4 DEF TypeOK, ClaimSelect, Claimable, Goto, Phases, Executing
  <2>5. CASE ClaimCommit(w)
    BY <2>0, <2>5 DEF TypeOK, ClaimCommit, Goto, Phases, Executing, Statuses
  <2>6. CASE FindNothing(w)
    BY <2>0, <2>6 DEF TypeOK, FindNothing, Goto, Phases, Executing
  <2>7. CASE Sleep(w)
    BY <2>0, <2>7 DEF TypeOK, Sleep, Goto, Phases, Executing
  <2>8. CASE Email(w)
    <3>1. emails' \in [Requests -> Nat] BY <2>8, Counted DEF TypeOK, Email
    <3>2. QED BY <2>0, <2>8, <3>1 DEF TypeOK, Email, Goto, Phases, Executing
  <2>9. CASE EmailFails(w)
    BY <2>0, <2>9 DEF TypeOK, EmailFails, Goto, Phases, Executing
  <2>10. CASE IdleStop(w)
    BY <2>0, <2>10 DEF TypeOK, IdleStop, Quit, Goto, Phases, Executing
  <2>11. CASE SignalStop(w)
    BY <2>0, <2>11 DEF TypeOK, SignalStop, Quit, Goto, Phases, Executing
  <2>12. QED BY <1>3, <2>1, <2>2, <2>3, <2>4, <2>5, <2>6, <2>7, <2>8, <2>9, <2>10, <2>11 DEF Work
<1>4. ASSUME NEW e \in Executors, ExecuteRun(e) \/ Crash(e) PROVE TypeOK'
  <2>1. CASE Start(e)
    BY <2>1 DEF TypeOK, Start, Goto, Home, Phases, Executing, Statuses
  <2>2. CASE FlushPages(e)
    BY <2>2 DEF TypeOK, FlushPages, Goto, Home, Phases, Executing
  <2>3. CASE CommitPages(e)
    <3>1. pages' \in [Requests -> Nat] BY <2>3, Counted DEF TypeOK, CommitPages
    <3>2. QED BY <2>3, <3>1 DEF TypeOK, CommitPages, Goto, Phases, Executing
  <2>4. CASE FlushResults(e)
    BY <2>4 DEF TypeOK, FlushResults, Goto, Home, Phases, Executing
  <2>5. CASE Finish(e)
    <3>1. results' \in [Requests -> Nat] BY <2>5, Counted DEF TypeOK, Finish
    <3>2. QED BY <2>5, <3>1 DEF TypeOK, Finish, Goto, Home, Phases, Executing, Statuses
  <2>6. CASE Fail(e)
    BY <2>6 DEF TypeOK, Fail, Goto, Home, Phases, Executing, Statuses
  <2>7. CASE FailUnrecorded(e)
    BY <2>7 DEF TypeOK, FailUnrecorded, Goto, Home, Phases, Executing
  <2>8. CASE Crash(e)
    BY <2>8 DEF TypeOK, Crash, Quit, Goto, Phases, Executing
  <2>9. QED BY <1>4, <2>1, <2>2, <2>3, <2>4, <2>5, <2>6, <2>7, <2>8 DEF ExecuteRun
<1>5. ASSUME NEW d \in Domains, DeleteSite(d) PROVE TypeOK'
  BY <1>5 DEF TypeOK, DeleteSite, Statuses
<1>6. CASE UNCHANGED vars
  BY <1>6 DEF TypeOK, vars
<1>7. QED BY <1>1, <1>2, <1>3, <1>4, <1>5, <1>6 DEF Next

\* The parts of the invariant that are not about types.
Rest == NotYetInserted /\ ReturnedExists /\ InHandExists /\ StuckStarted
        /\ ClaimStillPending /\ WorkedOnStarted /\ FlushedNotGone /\ ClaimedOnce
        /\ SeenASite /\ NoSiteNoRuns /\ SingleFlight

\* Reaping fails runs that have started, and only those.
LEMMA ReapCommitRest == ASSUME IInv, NEW w \in Workers, ReapCommit(w) PROVE Rest'
<1> USE NumbersAreNotFlags, WorkersExecute
<1> USE DEF requestVars, args, snapshot, executorVars, outside
<1>1. CASE \E r \in stuck[w] : status[r] = "gone"
  <2>1. NotYetInserted' BY <1>1 DEF IInv, NotYetInserted, Unreturned, TypeOK, ReapCommit, Quit, Goto
  <2>2. ReturnedExists' BY <1>1 DEF IInv, ReturnedExists, TypeOK, ReapCommit, Quit, Goto
  <2>3. InHandExists' BY <1>1 DEF IInv, InHandExists, TypeOK, ReapCommit, Quit, Goto
  <2>4. StuckStarted'
    <3>1. \A v \in Workers : stuck'[v] \subseteq stuck[v] BY <1>1 DEF IInv, TypeOK, ReapCommit, Quit
    <3>2. status' = status BY <1>1 DEF ReapCommit
    <3>3. QED BY <3>1, <3>2 DEF IInv, StuckStarted
  <2>5. ClaimStillPending' BY <1>1 DEF IInv, ClaimStillPending, TypeOK, ReapCommit, Quit, Goto
  <2>6. WorkedOnStarted'
    BY <1>1 DEF IInv, WorkedOnStarted, Executing, TypeOK, ReapCommit, Quit, Goto
  <2>7. FlushedNotGone' BY <1>1 DEF IInv, FlushedNotGone, TypeOK, ReapCommit, Quit, Goto
  <2>8. ClaimedOnce' BY <1>1 DEF IInv, ClaimedOnce, Executing, TypeOK, ReapCommit, Quit, Goto
  <2>9. SeenASite' BY <1>1 DEF IInv, SeenASite, TypeOK, ReapCommit, Quit, Goto
  <2>10. NoSiteNoRuns' BY <1>1 DEF IInv, NoSiteNoRuns, TypeOK, ReapCommit, Quit, Goto
  <2>11. SingleFlight' BY <1>1 DEF IInv, SingleFlight, Active, TypeOK, ReapCommit, Quit, Goto
  <2>12. QED BY <2>1, <2>2, <2>3, <2>4, <2>5, <2>6, <2>7, <2>8, <2>9, <2>10, <2>11 DEF Rest
<1>2. CASE ~ \E r \in stuck[w] : status[r] = "gone"
  <2>1. NotYetInserted'
    BY <1>2 DEF IInv, NotYetInserted, StuckStarted, Unreturned, TypeOK, ReapCommit, Goto
  <2>2. ReturnedExists' BY <1>2 DEF IInv, ReturnedExists, StuckStarted, TypeOK, ReapCommit, Goto
  <2>3. InHandExists' BY <1>2 DEF IInv, InHandExists, StuckStarted, TypeOK, ReapCommit, Goto
  <2>4. StuckStarted'
    <3>1. \A v \in Workers : stuck'[v] \subseteq stuck[v] BY <1>2 DEF IInv, TypeOK, ReapCommit
    <3>2. \A q \in Requests : status'[q] \in {status[q], "failed"} BY <1>2 DEF ReapCommit
    <3>3. stuck \in [Workers -> SUBSET Requests] BY DEF IInv, TypeOK
    <3>4. QED BY <3>1, <3>2, <3>3 DEF IInv, StuckStarted
  <2>5. ClaimStillPending'
    BY <1>2 DEF IInv, ClaimStillPending, StuckStarted, TypeOK, ReapCommit, Goto
  <2>6. WorkedOnStarted'
    BY <1>2 DEF IInv, WorkedOnStarted, StuckStarted, Executing, TypeOK, ReapCommit, Goto
  <2>7. FlushedNotGone' BY <1>2 DEF IInv, FlushedNotGone, StuckStarted, TypeOK, ReapCommit, Goto
  <2>8. ClaimedOnce'
    BY <1>2 DEF IInv, ClaimedOnce, StuckStarted, Executing, TypeOK, ReapCommit, Goto
  <2>9. SeenASite' BY <1>2 DEF IInv, SeenASite, StuckStarted, TypeOK, ReapCommit, Goto
  <2>10. NoSiteNoRuns' BY <1>2 DEF IInv, NoSiteNoRuns, StuckStarted, TypeOK, ReapCommit, Goto
  <2>11. SingleFlight'
    BY <1>2 DEF IInv, SingleFlight, StuckStarted, Active, TypeOK, ReapCommit, Goto
  <2>12. QED BY <2>1, <2>2, <2>3, <2>4, <2>5, <2>6, <2>7, <2>8, <2>9, <2>10, <2>11 DEF Rest
<1>3. QED BY <1>1, <1>2

\* Starting a run keeps single-flight: the partial unique index guards the update.
LEMMA StartRest == ASSUME IInv, NEW e \in Executors, Start(e) PROVE Rest'
<1> USE NumbersAreNotFlags, WorkersExecute
<1> USE DEF requestVars, args, snapshot, executorVars, outside
<1> DEFINE r == run[e]
<1>a. r \in Requests /\ at[e] = "start" BY DEF Start, IInv, TypeOK, Executing
<1>1. CASE status[r] = "gone" \/ ActiveOn(dom[r]) \ {r} # {}
  <2>1. NotYetInserted'
    BY <1>1, <1>a DEF IInv, NotYetInserted, Unreturned, TypeOK, Start, Goto, Home
  <2>2. ReturnedExists' BY <1>1, <1>a DEF IInv, ReturnedExists, TypeOK, Start, Goto, Home
  <2>3. InHandExists' BY <1>1, <1>a DEF IInv, InHandExists, TypeOK, Start, Goto, Home
  <2>4. StuckStarted' BY <1>1, <1>a DEF IInv, StuckStarted, TypeOK, Start, Goto, Home
  <2>5. ClaimStillPending' BY <1>1, <1>a DEF IInv, ClaimStillPending, TypeOK, Start, Goto, Home
  <2>6. WorkedOnStarted'
    BY <1>1, <1>a DEF IInv, WorkedOnStarted, Executing, TypeOK, Start, Goto, Home
  <2>7. FlushedNotGone' BY <1>1, <1>a DEF IInv, FlushedNotGone, TypeOK, Start, Goto, Home
  <2>8. ClaimedOnce' BY <1>1, <1>a DEF IInv, ClaimedOnce, Executing, TypeOK, Start, Goto, Home
  <2>9. SeenASite' BY <1>1, <1>a DEF IInv, SeenASite, TypeOK, Start, Goto, Home
  <2>10. NoSiteNoRuns' BY <1>1, <1>a DEF IInv, NoSiteNoRuns, TypeOK, Start, Goto, Home
  <2>11. SingleFlight' BY <1>1, <1>a DEF IInv, SingleFlight, Active, TypeOK, Start, Goto, Home
  <2>12. QED BY <2>1, <2>2, <2>3, <2>4, <2>5, <2>6, <2>7, <2>8, <2>9, <2>10, <2>11 DEF Rest
<1>2. CASE status[r] # "gone" /\ ActiveOn(dom[r]) \ {r} = {}
  <2>1. NotYetInserted'
    BY <1>2, <1>a
    DEF IInv, NotYetInserted, InHandExists, Unreturned, TypeOK, Start, RowLocked, ActiveOn, Goto
  <2>2. ReturnedExists'
    BY <1>2, <1>a DEF IInv, ReturnedExists, InHandExists, TypeOK, Start, RowLocked, ActiveOn, Goto
  <2>3. InHandExists' BY <1>2, <1>a DEF IInv, InHandExists, TypeOK, Start, RowLocked, ActiveOn, Goto
  <2>4. StuckStarted'
    BY <1>2, <1>a DEF IInv, StuckStarted, InHandExists, TypeOK, Start, RowLocked, ActiveOn, Goto
  <2>5. ClaimStillPending'
    BY <1>2, <1>a
    DEF IInv, ClaimStillPending, InHandExists, TypeOK, Start, RowLocked, ActiveOn, Goto
  <2>6. WorkedOnStarted'
    BY <1>2, <1>a
    DEF IInv, WorkedOnStarted, InHandExists, Executing, TypeOK, Start, RowLocked, ActiveOn, Goto
  <2>7. FlushedNotGone'
    <3>1. \A q \in Requests : status'[q] \in {status[q], "running"} BY <1>2 DEF IInv, TypeOK, Start
    <3>2. \A f \in Executors : at'[f] \in {at[f], "gather"} /\ run'[f] = run[f]
      BY <1>2 DEF IInv, TypeOK, Start, Goto
    <3>3. FlushedNotGone BY DEF IInv
    <3>4. QED
      <4> HIDE NumbersAreNotFlags, WorkersExecute
      <4>1. SUFFICES ASSUME NEW f \in Executors, NEW q \in Requests,
                            at'[f] \in {"pages", "results"}, run'[f] = q
                     PROVE  status'[q] # "gone"
        BY DEF FlushedNotGone
      <4>2. at[f] \in {"pages", "results"} /\ run[f] = q BY <3>2, <4>1
      <4>3. QED BY <3>1, <3>3, <4>2 DEF FlushedNotGone
  <2>8. ClaimedOnce'
    BY <1>2, <1>a
    DEF IInv, ClaimedOnce, InHandExists, Executing, TypeOK, Start, RowLocked, ActiveOn, Goto
  <2>9. SeenASite'
    BY <1>2, <1>a DEF IInv, SeenASite, InHandExists, TypeOK, Start, RowLocked, ActiveOn, Goto
  <2>10. NoSiteNoRuns'
    BY <1>2, <1>a DEF IInv, NoSiteNoRuns, InHandExists, TypeOK, Start, RowLocked, ActiveOn, Goto
  <2>11. SingleFlight'
    BY <1>2, <1>a
    DEF IInv, SingleFlight, InHandExists, Active, TypeOK, Start, RowLocked, ActiveOn, Goto
  <2>12. QED BY <2>1, <2>2, <2>3, <2>4, <2>5, <2>6, <2>7, <2>8, <2>9, <2>10, <2>11 DEF Rest
<1>3. QED BY <1>1, <1>2

\* The flushed results keep the run from being deleted until it is complete.
LEMMA FinishRest == ASSUME IInv, NEW e \in Executors, Finish(e) PROVE Rest'
<1> USE NumbersAreNotFlags, WorkersExecute
<1> USE DEF requestVars, args, snapshot, executorVars, outside
<1> DEFINE r == run[e]
<1>a. /\ r \in Requests /\ at[e] = "results" /\ r \notin RowLocked
      /\ status' = [status EXCEPT ![r] = "complete"]
      /\ \A f \in Executors : f # e => at'[f] = at[f] /\ run'[f] = run[f]
      /\ at'[e] \in {"email", "poll", "off"} /\ run'[e] \in {r, 0}
      /\ UNCHANGED <<pc, seen, result, dom, site, stuck>>
  BY DEF Finish, Goto, Home, IInv, TypeOK, Executing
<1>1. NotYetInserted'
  BY <1>a DEF IInv, NotYetInserted, InHandExists, FlushedNotGone, Unreturned, TypeOK, RowLocked
<1>2. ReturnedExists'
  BY <1>a DEF IInv, ReturnedExists, InHandExists, FlushedNotGone, TypeOK, RowLocked
<1>3. InHandExists' BY <1>a DEF IInv, InHandExists, FlushedNotGone, TypeOK, RowLocked
<1>4. StuckStarted' BY <1>a DEF IInv, StuckStarted, InHandExists, FlushedNotGone, TypeOK, RowLocked
<1>5. ClaimStillPending'
  BY <1>a DEF IInv, ClaimStillPending, InHandExists, FlushedNotGone, TypeOK, RowLocked
<1>6. WorkedOnStarted'
  BY <1>a DEF IInv, WorkedOnStarted, InHandExists, FlushedNotGone, Executing, TypeOK, RowLocked
<1>7. FlushedNotGone' BY <1>a DEF IInv, FlushedNotGone, InHandExists, TypeOK, RowLocked
<1>8. ClaimedOnce'
  BY <1>a DEF IInv, ClaimedOnce, InHandExists, FlushedNotGone, Executing, TypeOK, RowLocked
<1>9. SeenASite' BY <1>a DEF IInv, SeenASite, InHandExists, FlushedNotGone, TypeOK, RowLocked
<1>10. NoSiteNoRuns' BY <1>a DEF IInv, NoSiteNoRuns, InHandExists, FlushedNotGone, TypeOK, RowLocked
<1>11. SingleFlight'
  BY <1>a DEF IInv, SingleFlight, InHandExists, FlushedNotGone, Active, TypeOK, RowLocked
<1>12. QED BY <1>1, <1>2, <1>3, <1>4, <1>5, <1>6, <1>7, <1>8, <1>9, <1>10, <1>11 DEF Rest

\* Every step keeps the parts of IInv beyond TypeOK, whichever process takes it.
LEMMA RestStep == ASSUME IInv, [Next]_vars PROVE Rest'
<1> USE NumbersAreNotFlags, WorkersExecute
<1> USE DEF requestVars, args, snapshot, executorVars, outside
<1> USE DEF IInv, TypeOK, Rest, NotYetInserted, ReturnedExists, InHandExists, StuckStarted,
            ClaimStillPending, WorkedOnStarted, FlushedNotGone, ClaimedOnce, SeenASite, NoSiteNoRuns,
            SingleFlight, Unreturned, Active, Executing
<1>0. TypeOK' BY TypeStep
<1>1. ASSUME NEW r \in Requests, CreatePendingRun(r) PROVE Rest'
  <2>1. CASE Lookup(r)
    BY <2>1 DEF Lookup
  <2>2. CASE NewSite(r)
    <3>1. NotYetInserted' BY <2>2 DEF NewSite, Return
    <3>2. ReturnedExists' BY <2>2 DEF NewSite, Return
    <3>3. InHandExists' BY <2>2 DEF NewSite, Return
    <3>4. StuckStarted' BY <2>2 DEF NewSite, Return
    <3>5. ClaimStillPending' BY <2>2 DEF NewSite, Return
    <3>6. WorkedOnStarted' BY <2>2 DEF NewSite, Return
    <3>7. FlushedNotGone' BY <2>2 DEF NewSite, Return
    <3>8. ClaimedOnce' BY <2>2 DEF NewSite, Return
    <3>9. SeenASite' BY <2>2 DEF NewSite, Return
    <3>10. NoSiteNoRuns' BY <2>2 DEF NewSite, Return
    <3>11. SingleFlight' BY <2>2 DEF NewSite, Return
    <3>12. QED BY <3>1, <3>2, <3>3, <3>4, <3>5, <3>6, <3>7, <3>8, <3>9, <3>10, <3>11
  <2>3. CASE CheckActive(r)
    BY <2>3 DEF CheckActive, Return, ActiveSeen, ActiveOn
  <2>4. CASE Insert(r)
    <3>1. NotYetInserted' BY <2>4 DEF Insert, Return, ActiveOn
    <3>2. ReturnedExists' BY <2>4 DEF Insert, Return, ActiveOn
    <3>3. InHandExists' BY <2>4 DEF Insert, Return, ActiveOn
    <3>4. StuckStarted' BY <2>4 DEF Insert, Return, ActiveOn
    <3>5. ClaimStillPending' BY <2>4 DEF Insert, Return, ActiveOn
    <3>6. WorkedOnStarted' BY <2>4 DEF Insert, Return, ActiveOn
    <3>7. FlushedNotGone' BY <2>4 DEF Insert, Return, ActiveOn
    <3>8. ClaimedOnce' BY <2>4 DEF Insert, Return, ActiveOn
    <3>9. SeenASite' BY <2>4 DEF Insert, Return, ActiveOn
    <3>10. NoSiteNoRuns' BY <2>4 DEF Insert, Return, ActiveOn
    <3>11. SingleFlight' BY <2>4 DEF Insert, Return, ActiveOn
    <3>12. QED BY <3>1, <3>2, <3>3, <3>4, <3>5, <3>6, <3>7, <3>8, <3>9, <3>10, <3>11
  <2>5. CASE Reread(r)
    BY <2>5 DEF Reread, Return, ActiveSeen, ActiveOn
  <2>6. QED BY <1>1, <2>1, <2>2, <2>3, <2>4, <2>5 DEF CreatePendingRun
<1>2. ASSUME NEW r \in Requests, CliExecute(r) PROVE Rest'
  BY <1>2, ConstantsAssumption DEF CliExecute, Goto, Executors
<1>3. ASSUME NEW w \in Workers, Work(w) \/ IdleStop(w) \/ SignalStop(w) PROVE Rest'
  <2>1. CASE Acquire(w)
    BY <2>1 DEF Acquire, Goto
  <2>2. CASE ReapSelect(w)
    BY <2>2 DEF ReapSelect, Goto
  <2>3. CASE ReapCommit(w)
    BY <2>3, ReapCommitRest
  <2>4. CASE ClaimSelect(w)
    <3>1. PICK r \in Claimable : Goto(w, "claim", r) BY <2>4 DEF ClaimSelect
    <3>2. r \in Requests /\ status[r] = "pending" /\ r \notin RowLocked BY <3>1 DEF Claimable
    <3>3. UNCHANGED <<pc, seen, result, dom, site, status, stuck>> BY <2>4 DEF ClaimSelect
    <3>4. NotYetInserted' BY <3>1, <3>2, <3>3 DEF RowLocked, Goto
    <3>5. ReturnedExists' BY <3>1, <3>2, <3>3 DEF RowLocked, Goto
    <3>6. InHandExists' BY <3>1, <3>2, <3>3 DEF RowLocked, Goto
    <3>7. StuckStarted' BY <3>1, <3>2, <3>3 DEF RowLocked, Goto
    <3>8. ClaimStillPending' BY <3>1, <3>2, <3>3 DEF RowLocked, Goto
    <3>9. WorkedOnStarted' BY <3>1, <3>2, <3>3 DEF RowLocked, Goto
    <3>10. FlushedNotGone' BY <3>1, <3>2, <3>3 DEF RowLocked, Goto
    <3>11. ClaimedOnce' BY <3>1, <3>2, <3>3 DEF RowLocked, Goto
    <3>12. SeenASite' BY <3>1, <3>2, <3>3 DEF RowLocked, Goto
    <3>13. NoSiteNoRuns' BY <3>1, <3>2, <3>3 DEF RowLocked, Goto
    <3>14. SingleFlight' BY <3>1, <3>2, <3>3 DEF RowLocked, Goto
    <3>15. QED BY <3>4, <3>5, <3>6, <3>7, <3>8, <3>9, <3>10, <3>11, <3>12, <3>13, <3>14
  <2>5. CASE ClaimCommit(w)
    <3>1. NotYetInserted' BY <2>5 DEF ClaimCommit, RowLocked, Goto
    <3>2. ReturnedExists' BY <2>5 DEF ClaimCommit, RowLocked, Goto
    <3>3. InHandExists' BY <2>5 DEF ClaimCommit, RowLocked, Goto
    <3>4. StuckStarted' BY <2>5 DEF ClaimCommit, RowLocked, Goto
    <3>5. ClaimStillPending' BY <2>5 DEF ClaimCommit, RowLocked, Goto
    <3>6. WorkedOnStarted' BY <2>5 DEF ClaimCommit, RowLocked, Goto
    <3>7. FlushedNotGone' BY <2>5 DEF ClaimCommit, RowLocked, Goto
    <3>8. ClaimedOnce' BY <2>5 DEF ClaimCommit, RowLocked, Goto
    <3>9. SeenASite' BY <2>5 DEF ClaimCommit, RowLocked, Goto
    <3>10. NoSiteNoRuns' BY <2>5 DEF ClaimCommit, RowLocked, Goto
    <3>11. SingleFlight' BY <2>5 DEF ClaimCommit, RowLocked, Goto
    <3>12. QED BY <3>1, <3>2, <3>3, <3>4, <3>5, <3>6, <3>7, <3>8, <3>9, <3>10, <3>11
  <2>6. CASE FindNothing(w)
    BY <2>6 DEF FindNothing, Goto
  <2>7. CASE Sleep(w)
    BY <2>7 DEF Sleep, Goto
  <2>8. CASE Email(w)
    BY <2>8 DEF Email, Goto
  <2>9. CASE EmailFails(w)
    BY <2>9 DEF EmailFails, Goto
  <2>10. CASE IdleStop(w)
    <3>1. NotYetInserted' BY <2>10 DEF IdleStop, Quit, Goto
    <3>2. ReturnedExists' BY <2>10 DEF IdleStop, Quit, Goto
    <3>3. InHandExists' BY <2>10 DEF IdleStop, Quit, Goto
    <3>4. StuckStarted' BY <2>10 DEF IdleStop, Quit, Goto
    <3>5. ClaimStillPending' BY <2>10 DEF IdleStop, Quit, Goto
    <3>6. WorkedOnStarted' BY <2>10 DEF IdleStop, Quit, Goto
    <3>7. FlushedNotGone' BY <2>10 DEF IdleStop, Quit, Goto
    <3>8. ClaimedOnce' BY <2>10 DEF IdleStop, Quit, Goto
    <3>9. SeenASite' BY <2>10 DEF IdleStop, Quit, Goto
    <3>10. NoSiteNoRuns' BY <2>10 DEF IdleStop, Quit, Goto
    <3>11. SingleFlight' BY <2>10 DEF IdleStop, Quit, Goto
    <3>12. QED BY <3>1, <3>2, <3>3, <3>4, <3>5, <3>6, <3>7, <3>8, <3>9, <3>10, <3>11
  <2>11. CASE SignalStop(w)
    <3>1. NotYetInserted' BY <2>11 DEF SignalStop, Quit, Goto
    <3>2. ReturnedExists' BY <2>11 DEF SignalStop, Quit, Goto
    <3>3. InHandExists' BY <2>11 DEF SignalStop, Quit, Goto
    <3>4. StuckStarted' BY <2>11 DEF SignalStop, Quit, Goto
    <3>5. ClaimStillPending' BY <2>11 DEF SignalStop, Quit, Goto
    <3>6. WorkedOnStarted' BY <2>11 DEF SignalStop, Quit, Goto
    <3>7. FlushedNotGone' BY <2>11 DEF SignalStop, Quit, Goto
    <3>8. ClaimedOnce' BY <2>11 DEF SignalStop, Quit, Goto
    <3>9. SeenASite' BY <2>11 DEF SignalStop, Quit, Goto
    <3>10. NoSiteNoRuns' BY <2>11 DEF SignalStop, Quit, Goto
    <3>11. SingleFlight' BY <2>11 DEF SignalStop, Quit, Goto
    <3>12. QED BY <3>1, <3>2, <3>3, <3>4, <3>5, <3>6, <3>7, <3>8, <3>9, <3>10, <3>11
  <2>12. QED BY <1>3, <2>1, <2>2, <2>3, <2>4, <2>5, <2>6, <2>7, <2>8, <2>9, <2>10, <2>11 DEF Work
<1>4. ASSUME NEW e \in Executors, ExecuteRun(e) \/ Crash(e) PROVE Rest'
  <2>1. CASE Start(e)
    BY <2>1, StartRest
  <2>2. CASE FlushPages(e)
    BY <2>2 DEF FlushPages, Goto, Home
  <2>3. CASE CommitPages(e)
    BY <2>3 DEF CommitPages, Goto
  <2>4. CASE FlushResults(e)
    BY <2>4 DEF FlushResults, Goto, Home
  <2>5. CASE Finish(e)
    BY <2>5, FinishRest
  <2>6. CASE Fail(e)
    BY <2>6 DEF Fail, RowLocked, Goto, Home
  <2>7. CASE FailUnrecorded(e)
    BY <2>7 DEF FailUnrecorded, Goto, Home
  <2>8. CASE Crash(e)
    <3>1. NotYetInserted' BY <2>8 DEF Crash, Quit, Goto
    <3>2. ReturnedExists' BY <2>8 DEF Crash, Quit, Goto
    <3>3. InHandExists' BY <2>8 DEF Crash, Quit, Goto
    <3>4. StuckStarted' BY <2>8 DEF Crash, Quit, Goto
    <3>5. ClaimStillPending' BY <2>8 DEF Crash, Quit, Goto
    <3>6. WorkedOnStarted' BY <2>8 DEF Crash, Quit, Goto
    <3>7. FlushedNotGone' BY <2>8 DEF Crash, Quit, Goto
    <3>8. ClaimedOnce' BY <2>8 DEF Crash, Quit, Goto
    <3>9. SeenASite' BY <2>8 DEF Crash, Quit, Goto
    <3>10. NoSiteNoRuns' BY <2>8 DEF Crash, Quit, Goto
    <3>11. SingleFlight' BY <2>8 DEF Crash, Quit, Goto
    <3>12. QED BY <3>1, <3>2, <3>3, <3>4, <3>5, <3>6, <3>7, <3>8, <3>9, <3>10, <3>11
  <2>9. QED BY <1>4, <2>1, <2>2, <2>3, <2>4, <2>5, <2>6, <2>7, <2>8 DEF ExecuteRun
<1>5. ASSUME NEW d \in Domains, DeleteSite(d) PROVE Rest'
  <2>1. NotYetInserted' BY <1>5 DEF DeleteSite, InUse, RowLocked
  <2>2. ReturnedExists' BY <1>5 DEF DeleteSite, InUse, RowLocked
  <2>3. InHandExists' BY <1>5 DEF DeleteSite, InUse, RowLocked
  <2>4. StuckStarted' BY <1>5 DEF DeleteSite, InUse, RowLocked
  <2>5. ClaimStillPending' BY <1>5 DEF DeleteSite, InUse, RowLocked
  <2>6. WorkedOnStarted' BY <1>5 DEF DeleteSite, InUse, RowLocked
  <2>7. FlushedNotGone' BY <1>5 DEF DeleteSite, InUse, RowLocked
  <2>8. ClaimedOnce' BY <1>5 DEF DeleteSite, InUse, RowLocked
  <2>9. SeenASite' BY <1>5 DEF DeleteSite, InUse, RowLocked
  <2>10. NoSiteNoRuns' BY <1>5 DEF DeleteSite, InUse, RowLocked
  <2>11. SingleFlight' BY <1>5 DEF DeleteSite, InUse, RowLocked
  <2>12. QED BY <2>1, <2>2, <2>3, <2>4, <2>5, <2>6, <2>7, <2>8, <2>9, <2>10, <2>11
<1>6. CASE UNCHANGED vars
  BY <1>6 DEF vars
<1>7. QED BY <1>1, <1>2, <1>3, <1>4, <1>5, <1>6 DEF Next

\* Every variable has its type, for any number of requests, workers and
\* domains, with or without the CLI and the faults.
THEOREM TypeCorrect == Spec => []TypeOK
<1>1. Init => TypeOK BY TypeInit
<1>2. TypeOK /\ [Next]_vars => TypeOK' BY TypeStep
<1>3. QED BY <1>1, <1>2, PTL DEF Spec

\* IInv holds in every state of the queue: what makes single-flight inductive.
THEOREM Invariance == Spec => []IInv
<1>1. Init => IInv
  BY TypeInit, NumbersAreNotFlags
  DEF Init, IInv, NotYetInserted, ReturnedExists, InHandExists, StuckStarted,
      ClaimStillPending, WorkedOnStarted, FlushedNotGone, ClaimedOnce, SeenASite, NoSiteNoRuns,
      SingleFlight, Active, Executing, Executors
<1>2. IInv /\ [Next]_vars => IInv'
  BY TypeStep, RestStep DEF IInv, Rest
<1>3. QED BY <1>1, <1>2, PTL DEF Spec

\* A site never has two active runs: the check, the partial unique index and
\* the row locks suffice, also when the CLI re-executes runs, two workers run
\* at once and the database refuses to record a status.
THEOREM SingleFlightHolds == Spec => []SingleFlight
<1>1. IInv => SingleFlight BY DEF IInv
<1>2. QED BY <1>1, Invariance, PTL

\* No two workers ever hold the same run, even when neither holds the lock: the
\* row lock covers the claim, and a claimed run never becomes pending again.
THEOREM ClaimedOnceHolds == Spec => []ClaimedOnce
<1>1. IInv => ClaimedOnce BY DEF IInv
<1>2. QED BY <1>1, Invariance, PTL

-----------------------------------------------------------------------------
(* What a complete run has, and who mails it *)

\* The phases in which a worker has a run in hand.
Held == Executing \cup {"claim", "email"}

\* An executor past the pages has made them durable.
PagesDurable ==
    \A e \in Executors : \A q \in Requests :
        at[e] \in {"audit", "results"} /\ run[e] = q => pages[q] > 0 \/ status[q] = "gone"

\* A run is mailed by the one worker that executed it, after its results.
MailedByExecutor ==
    /\ \A r \in Requests : status[r] \in {"none", "pending"} => emails[r] = 0
    /\ \A v, w \in Workers :
         v # w /\ at[v] \in Held /\ at[w] \in Held => run[v] # run[w]
    /\ \A w \in Workers : \A q \in Requests :
         /\ at[w] \in Held /\ run[w] = q => emails[q] = 0
         /\ at[w] = "email" /\ run[w] = q =>
              kind[q] = "scheduled" /\ (results[q] > 0 \/ status[q] = "gone")

OutcomeInv == CompleteHasSnapshot /\ PagesDurable /\ MailedOnce /\ MailedByExecutor

\* What a step may do to a run ...
RunMoves ==
    /\ kind' = kind
    /\ \A r \in Requests :
         /\ status[r] = "gone" => status'[r] = "gone"
         /\ status'[r] \in {"none", "pending"} => status[r] \in {"none", "pending"}
         /\ status'[r] = "gone" \/ (pages'[r] >= pages[r] /\ results'[r] >= results[r])
         /\ \/ status'[r] # "complete" \/ status[r] = "complete"
            \/ \E e \in Executors : /\ at[e] = "results" /\ run[e] = r
                                    /\ pages'[r] = pages[r] /\ results'[r] > 0

\* ... to an executor that goes on with one ...
ExecutorMoves ==
    \A e \in Executors : \A q \in Requests :
      at'[e] \in {"audit", "results"} /\ run'[e] = q =>
        \/ at[e] \in {"audit", "results"} /\ run[e] = q
        \/ pages'[q] > 0

\* ... and to a worker that keeps, claims or mails one.
WorkerMoves ==
    /\ \A w \in Workers :
         at'[w] \in Held =>
           \/ at[w] \in Held /\ run'[w] = run[w]
           \/ /\ status[run'[w]] = "pending" /\ run'[w] \in Requests \ RowLocked
              /\ \A v \in Workers : v # w => at'[v] = at[v] /\ run'[v] = run[v]
    /\ \A w \in Workers :
         at'[w] = "email" =>
           /\ run'[w] = run[w] /\ at[w] \in {"email", "results"}
           /\ at[w] = "results" =>
                kind[run[w]] = "scheduled" /\ results'[run[w]] > 0
    /\ \/ emails' = emails
       \/ \E w \in Workers :
            /\ at[w] = "email" /\ at'[w] = "poll"
            /\ emails' = [emails EXCEPT ![run[w]] = @ + 1]
            /\ status' = status /\ results' = results
            /\ \A v \in Workers : v # w => at'[v] = at[v] /\ run'[v] = run[v]

Moves == RunMoves /\ ExecutorMoves /\ WorkerMoves

\* A step that leaves the executors and the outcome of runs alone.
LEMMA RequestMoves ==
  ASSUME IInv, UNCHANGED <<kind, snapshot, executorVars, emails>>,
         \A r \in Requests :
           status'[r] = status[r] \/ (status[r] = "none" /\ status'[r] = "pending")
  PROVE  Moves
  BY DEF Moves, RunMoves, ExecutorMoves, WorkerMoves, IInv, TypeOK, snapshot,
         executorVars

\* The steps of a request, and a CLI process that starts to execute.
LEMMA RequestStep ==
  ASSUME IInv, NEW r \in Requests, CreatePendingRun(r) \/ CliExecute(r)
  PROVE  Moves
<1> USE DEF requestVars, args, snapshot, executorVars, outside
<1>1. CASE CreatePendingRun(r)
  <2>1. UNCHANGED <<kind, snapshot, executorVars, emails>>
    BY <1>1 DEF CreatePendingRun, Lookup, NewSite, CheckActive, Insert, Reread
  <2>2. \A q \in Requests :
          status'[q] = status[q] \/ (status[q] = "none" /\ status'[q] = "pending")
    BY <1>1
    DEF CreatePendingRun, Lookup, NewSite, CheckActive, Insert, Reread, IInv,
        NotYetInserted, Unreturned, TypeOK
  <2>3. QED BY <2>1, <2>2, RequestMoves
<1>2. CASE CliExecute(r)
  <2>1. /\ at' = [at EXCEPT ![r] = "start"] /\ r \notin Workers
        /\ run' = [run EXCEPT ![r] = result[r]]
        /\ UNCHANGED <<kind, status, pages, results, emails>>
    BY <1>2, ConstantsAssumption DEF CliExecute, Goto
  <2>2. \A w \in Workers : at'[w] = at[w] /\ run'[w] = run[w] BY <2>1
  <2>3. \A e \in Executors : at'[e] \in {"audit", "results"} =>
          at'[e] = at[e] /\ run'[e] = run[e]
    BY <2>1 DEF IInv, TypeOK
  <2>4. QED
    BY <2>1, <2>2, <2>3
    DEF Moves, RunMoves, ExecutorMoves, WorkerMoves, IInv, TypeOK
<1>3. QED BY <1>1, <1>2

\* A step of one executor that leaves the outcome of runs alone: it goes to a
\* phase in which it has no run in hand.
LEMMA LetGo ==
  ASSUME IInv, NEW e \in Executors, NEW phase, phase \notin Held, NEW q,
         Goto(e, phase, q), UNCHANGED <<kind, pages, results, emails>>,
         \A r \in Requests : status'[r] = status[r]
           \/ (status[r] # "gone" /\ status'[r] = "failed")
  PROVE  Moves
<1>1. /\ at'[e] = phase /\ run'[e] = q
      /\ \A f \in Executors : f # e => at'[f] = at[f] /\ run'[f] = run[f]
  BY DEF Goto, IInv, TypeOK
<1>2. RunMoves BY DEF RunMoves, IInv, TypeOK
<1>3. ExecutorMoves BY <1>1 DEF ExecutorMoves, Held, Executing
<1>4. WorkerMoves
  BY <1>1, WorkersExecute DEF WorkerMoves, Held, Executing
<1>5. QED BY <1>2, <1>3, <1>4 DEF Moves

\* The steps of a worker outside execute_run.
LEMMA WorkerStep ==
  ASSUME IInv, NEW w \in Workers, Work(w) \/ IdleStop(w) \/ SignalStop(w)
  PROVE  Moves
<1> USE DEF requestVars, args, snapshot, executorVars, outside
<1>1. w \in Executors BY WorkersExecute
<1>2. ASSUME NEW phase \in {"select", "reap", "poll", "idle", "off"},
             Goto(w, phase, 0), UNCHANGED <<kind, pages, results, emails>>,
             \A r \in Requests : status'[r] = status[r]
               \/ (status[r] # "gone" /\ status'[r] = "failed")
      PROVE  Moves
  <2>1. phase \notin Held BY DEF Held, Executing
  <2>2. QED BY <1>1, <1>2, <2>1, LetGo
<1>3. CASE Acquire(w) BY <1>2, <1>3 DEF Acquire
<1>4. CASE ReapSelect(w) BY <1>2, <1>4 DEF ReapSelect
<1>5. CASE ReapCommit(w)
  <2>1. \A r \in Requests : status'[r] = status[r]
          \/ (status[r] # "gone" /\ status'[r] = "failed")
    BY <1>5 DEF ReapCommit, IInv, StuckStarted
  <2>2. Goto(w, "off", 0) \/ Goto(w, "poll", 0) BY <1>5 DEF ReapCommit, Quit
  <2>3. QED BY <1>2, <1>5, <2>1, <2>2 DEF ReapCommit
<1>6. CASE ClaimSelect(w)
  <2>1. PICK r \in Claimable : Goto(w, "claim", r) BY <1>6 DEF ClaimSelect
  <2>2. r \in Requests \ RowLocked /\ status[r] = "pending" BY <2>1 DEF Claimable
  <2>3. /\ at'[w] = "claim" /\ run'[w] = r
        /\ \A f \in Executors : f # w => at'[f] = at[f] /\ run'[f] = run[f]
    BY <1>1, <2>1 DEF Goto, IInv, TypeOK
  <2>4. UNCHANGED <<kind, status, pages, results, emails>> BY <1>6 DEF ClaimSelect
  <2>5. RunMoves BY <2>4 DEF RunMoves, IInv, TypeOK
  <2>6. ExecutorMoves BY <2>3 DEF ExecutorMoves
  <2>7. WorkerMoves
    BY <2>2, <2>3, <2>4, WorkersExecute DEF WorkerMoves
  <2>8. QED BY <2>5, <2>6, <2>7 DEF Moves
<1>7. CASE ClaimCommit(w)
  <2>1. /\ at'[w] = "start" /\ run'[w] = run[w] /\ at[w] = "claim"
        /\ \A f \in Executors : f # w => at'[f] = at[f] /\ run'[f] = run[f]
    BY <1>1, <1>7 DEF ClaimCommit, Goto, IInv, TypeOK
  <2>2. UNCHANGED <<kind, pages, results, emails>> BY <1>7 DEF ClaimCommit
  <2>3. run[w] \in Requests /\ status[run[w]] = "pending"
        /\ status' = [status EXCEPT ![run[w]] = "running"]
    BY <1>1, <1>7, <2>1 DEF ClaimCommit, IInv, TypeOK, ClaimStillPending
  <2>4. RunMoves BY <2>2, <2>3 DEF RunMoves, IInv, TypeOK
  <2>5. ExecutorMoves BY <2>1 DEF ExecutorMoves
  <2>6. WorkerMoves
    BY <2>1, <2>2, WorkersExecute DEF WorkerMoves, Held
  <2>7. QED BY <2>4, <2>5, <2>6 DEF Moves
<1>8. CASE FindNothing(w) BY <1>2, <1>8 DEF FindNothing
<1>9. CASE Sleep(w) BY <1>2, <1>9 DEF Sleep
<1>10. CASE Email(w)
  <2>1. /\ at'[w] = "poll" /\ at[w] = "email"
        /\ \A f \in Executors : f # w => at'[f] = at[f] /\ run'[f] = run[f]
    BY <1>1, <1>10 DEF Email, Goto, IInv, TypeOK
  <2>2. UNCHANGED <<kind, status, pages, results>> BY <1>10 DEF Email
  <2>3. emails' = emails \/ emails' = [emails EXCEPT ![run[w]] = @ + 1]
    BY <1>10 DEF Email
  <2>4. RunMoves BY <2>2 DEF RunMoves, IInv, TypeOK
  <2>5. ExecutorMoves BY <2>1 DEF ExecutorMoves
  <2>6. WorkerMoves
    BY <2>1, <2>2, <2>3, WorkersExecute DEF WorkerMoves, Held, Executing
  <2>7. QED BY <2>4, <2>5, <2>6 DEF Moves
<1>11. CASE EmailFails(w) BY <1>2, <1>11 DEF EmailFails
<1>12. CASE IdleStop(w) BY <1>2, <1>12 DEF IdleStop, Quit
<1>13. CASE SignalStop(w) BY <1>2, <1>13 DEF SignalStop, Quit
<1>14. QED
  BY <1>3, <1>4, <1>5, <1>6, <1>7, <1>8, <1>9, <1>10, <1>11, <1>12, <1>13 DEF Work

\* A step of one executor that keeps its run, short of the email.
LEMMA GoOn ==
  ASSUME IInv, NEW e \in Executors, NEW phase \in Executing, Goto(e, phase, run[e]),
         at[e] \in Executing, UNCHANGED <<kind, emails>>, RunMoves,
         phase \in {"audit", "results"} =>
           at[e] \in {"audit", "results"} \/ pages'[run[e]] > 0
  PROVE  Moves
<1>1. /\ at'[e] = phase /\ run'[e] = run[e]
      /\ \A f \in Executors : f # e => at'[f] = at[f] /\ run'[f] = run[f]
  BY DEF Goto, IInv, TypeOK
<1>2. ExecutorMoves BY <1>1 DEF ExecutorMoves
<1>3. WorkerMoves BY <1>1, WorkersExecute DEF WorkerMoves, Held, Executing
<1>4. QED BY <1>2, <1>3 DEF Moves

\* The steps of execute_run, and the death of a process.
LEMMA ExecutorStep ==
  ASSUME IInv, NEW e \in Executors, ExecuteRun(e) \/ Crash(e)
  PROVE  Moves
<1> USE DEF requestVars, args, snapshot, executorVars, outside
<1>1. Home(e) \notin Held /\ "off" \notin Held BY DEF Home, Held, Executing
<1>2. ASSUME NEW phase \in {Home(e), "off"},
             Goto(e, phase, 0), UNCHANGED <<kind, pages, results, emails>>,
             \A r \in Requests : status'[r] = status[r]
               \/ (status[r] # "gone" /\ status'[r] = "failed")
      PROVE  Moves
  BY <1>1, <1>2, LetGo
<1>3. at[e] \in Executing => run[e] \in Requests /\ status[run[e]] # "none"
  BY DEF IInv, TypeOK, InHandExists
<1>4. CASE Start(e)
  <2>1. CASE status' = status /\ Goto(e, Home(e), 0)
    BY <1>2, <1>4, <2>1 DEF Start
  <2>2. CASE status' = [status EXCEPT ![run[e]] = "running"]
             /\ status[run[e]] # "gone" /\ Goto(e, "gather", run[e])
    <3>1. at[e] \in Executing /\ "gather" \in Executing
          /\ UNCHANGED <<kind, pages, results, emails>>
      BY <1>4 DEF Start, Executing
    <3>2. RunMoves BY <1>3, <2>2, <3>1 DEF RunMoves, IInv, TypeOK
    <3>3. QED BY <2>2, <3>1, <3>2, GoOn
  <2>3. QED BY <1>4, <2>1, <2>2 DEF Start
<1>5. ASSUME UNCHANGED <<kind, status, pages, results, emails>> PROVE RunMoves
  BY <1>5 DEF RunMoves, IInv, TypeOK
<1>6. CASE FlushPages(e)
  <2>1. UNCHANGED <<kind, status, pages, results, emails>> /\ at[e] = "gather"
    BY <1>6 DEF FlushPages
  <2>2. CASE status[run[e]] = "gone" BY <1>2, <1>6, <2>1, <2>2 DEF FlushPages
  <2>3. CASE status[run[e]] # "gone"
    <3>1. Goto(e, "pages", run[e]) /\ "pages" \in Executing /\ at[e] \in Executing
      BY <1>6, <2>1, <2>3 DEF FlushPages, Executing
    <3>2. QED BY <1>5, <2>1, <3>1, GoOn
  <2>4. QED BY <2>2, <2>3
<1>7. CASE CommitPages(e)
  <2>1. /\ Goto(e, "audit", run[e]) /\ "audit" \in Executing /\ at[e] \in Executing
        /\ UNCHANGED <<kind, status, results, emails>>
        /\ pages' = [pages EXCEPT ![run[e]] = @ + 1]
    BY <1>7 DEF CommitPages, Executing
  <2>2. \A q \in Requests : pages[q] \in Nat /\ results[q] \in Nat
        /\ pages'[q] = IF q = run[e] THEN pages[q] + 1 ELSE pages[q]
    BY <2>1 DEF IInv, TypeOK
  <2>3. RunMoves BY <2>1, <2>2 DEF RunMoves
  <2>4. pages'[run[e]] > 0 BY <1>3, <2>1, <2>2
  <2>5. QED BY <2>1, <2>3, <2>4, GoOn
<1>8. CASE FlushResults(e)
  <2>1. UNCHANGED <<kind, status, pages, results, emails>> /\ at[e] = "audit"
    BY <1>8 DEF FlushResults
  <2>2. CASE status[run[e]] = "gone" BY <1>2, <1>8, <2>1, <2>2 DEF FlushResults
  <2>3. CASE status[run[e]] # "gone"
    <3>1. Goto(e, "results", run[e]) /\ "results" \in Executing /\ at[e] \in Executing
      BY <1>8, <2>1, <2>3 DEF FlushResults, Executing
    <3>2. QED BY <1>5, <2>1, <3>1, GoOn
  <2>4. QED BY <2>2, <2>3
<1>9. CASE Finish(e)
  <2>1. /\ at[e] = "results" /\ at[e] \in Executing /\ run[e] \in Requests
        /\ UNCHANGED <<kind, pages, emails>>
        /\ status' = [status EXCEPT ![run[e]] = "complete"]
        /\ results' = [results EXCEPT ![run[e]] = @ + 1]
    BY <1>3, <1>9 DEF Finish, Executing
  <2>2. status[run[e]] # "gone" BY <2>1 DEF IInv, FlushedNotGone
  <2>3. \A q \in Requests : pages[q] \in Nat /\ results[q] \in Nat
        /\ results'[q] = IF q = run[e] THEN results[q] + 1 ELSE results[q]
    BY <2>1 DEF IInv, TypeOK
  <2>4. RunMoves BY <2>1, <2>2, <2>3 DEF RunMoves, IInv, TypeOK
  <2>5. CASE Goto(e, Home(e), 0)
    <3>1. /\ at'[e] = Home(e)
          /\ \A f \in Executors : f # e => at'[f] = at[f] /\ run'[f] = run[f]
      BY <2>5 DEF Goto, IInv, TypeOK
    <3>2. ExecutorMoves BY <1>1, <3>1 DEF ExecutorMoves, Held, Executing
    <3>3. WorkerMoves
      BY <1>1, <2>1, <3>1, WorkersExecute DEF WorkerMoves, Held, Executing
    <3>4. QED BY <2>4, <3>2, <3>3 DEF Moves
  <2>6. CASE e \in Workers /\ kind[run[e]] = "scheduled" /\ Goto(e, "email", run[e])
    <3>1. /\ at'[e] = "email" /\ run'[e] = run[e]
          /\ \A f \in Executors : f # e => at'[f] = at[f] /\ run'[f] = run[f]
      BY <2>6 DEF Goto, IInv, TypeOK
    <3>2. ExecutorMoves BY <3>1 DEF ExecutorMoves
    <3>3. results'[run[e]] > 0 BY <2>1, <2>3
    <3>4. WorkerMoves
      BY <2>1, <2>6, <3>1, <3>3, WorkersExecute DEF WorkerMoves, Held
    <3>5. QED BY <2>4, <3>2, <3>4 DEF Moves
  <2>7. QED BY <1>9, <2>5, <2>6 DEF Finish
<1>10. CASE Fail(e)
  <2>1. /\ at[e] \in Executing /\ Goto(e, Home(e), 0)
        /\ UNCHANGED <<kind, pages, results, emails>>
        /\ status' = [status EXCEPT ![run[e]] = IF @ = "gone" THEN "gone" ELSE "failed"]
    BY <1>10 DEF Fail
  <2>2. QED BY <1>2, <2>1 DEF IInv, TypeOK
<1>11. CASE FailUnrecorded(e) BY <1>2, <1>11 DEF FailUnrecorded
<1>12. CASE Crash(e) BY <1>2, <1>12 DEF Crash, Quit
<1>13. QED
  BY <1>4, <1>6, <1>7, <1>8, <1>9, <1>10, <1>11, <1>12 DEF ExecuteRun

\* A deletion takes the runs of the site with what they stored.
LEMMA DeleteMoves == ASSUME IInv, NEW d \in Domains, DeleteSite(d) PROVE Moves
<1>1. UNCHANGED <<kind, at, run, emails>>
  BY DEF DeleteSite, args, executorVars
<1>2. \A r \in Requests :
        \/ /\ status'[r] = status[r] /\ pages'[r] = pages[r] /\ results'[r] = results[r]
           /\ pages[r] \in Nat /\ results[r] \in Nat
        \/ status'[r] = "gone"
  BY DEF DeleteSite, IInv, TypeOK
<1>3. RunMoves BY <1>1, <1>2 DEF RunMoves
<1>4. ExecutorMoves BY <1>1 DEF ExecutorMoves
<1>5. WorkerMoves BY <1>1 DEF WorkerMoves
<1>6. QED BY <1>3, <1>4, <1>5 DEF Moves

\* Every step moves runs, executors and workers in this way.
LEMMA NextMoves == ASSUME IInv, [Next]_vars PROVE Moves
<1>1. CASE UNCHANGED vars
  <2>1. UNCHANGED <<kind, snapshot, executorVars, emails>> /\ status' = status
    BY <1>1 DEF vars, args, snapshot, executorVars, outside
  <2>2. QED BY <2>1, RequestMoves
<1>2. QED
  BY <1>1, RequestStep, WorkerStep, ExecutorStep, DeleteMoves DEF Next

\* A run that becomes complete has the pages and the results of its executor.
LEMMA SnapshotStep ==
  ASSUME IInv, TypeOK', Moves, CompleteHasSnapshot, PagesDurable
  PROVE  CompleteHasSnapshot' /\ PagesDurable'
<1>1. \A q \in Requests : /\ pages[q] \in Nat /\ results[q] \in Nat
                          /\ pages'[q] \in Nat /\ results'[q] \in Nat
  BY DEF IInv, TypeOK
<1>2. ASSUME NEW r \in Requests, status'[r] = "complete"
      PROVE  pages'[r] > 0 /\ results'[r] > 0
  <2>1. /\ status'[r] # "gone" /\ status[r] # "gone"
        /\ pages'[r] >= pages[r] /\ results'[r] >= results[r]
    BY <1>2 DEF Moves, RunMoves
  <2>2. CASE status[r] = "complete"
    BY <1>1, <2>1, <2>2 DEF CompleteHasSnapshot
  <2>3. CASE \E e \in Executors : /\ at[e] = "results" /\ run[e] = r
                                  /\ pages'[r] = pages[r] /\ results'[r] > 0
    BY <2>1, <2>3 DEF PagesDurable
  <2>4. QED BY <1>2, <2>2, <2>3 DEF Moves, RunMoves
<1>3. ASSUME NEW e \in Executors, NEW q \in Requests,
             at'[e] \in {"audit", "results"}, run'[e] = q
      PROVE  pages'[q] > 0 \/ status'[q] = "gone"
  <2>1. CASE at[e] \in {"audit", "results"} /\ run[e] = q
    <3>1. pages[q] > 0 \/ status[q] = "gone" BY <2>1 DEF PagesDurable
    <3>2. status[q] = "gone" => status'[q] = "gone" BY DEF Moves, RunMoves
    <3>3. status'[q] = "gone" \/ pages'[q] >= pages[q] BY DEF Moves, RunMoves
    <3>4. QED BY <1>1, <3>1, <3>2, <3>3
  <2>2. CASE pages'[q] > 0 BY <2>2
  <2>3. QED BY <1>3, <2>1, <2>2 DEF Moves, ExecutorMoves
<1>4. QED BY <1>2, <1>3 DEF CompleteHasSnapshot, PagesDurable

\* A run is in the hands of one worker from its claim to its email.
LEMMA MailStep ==
  ASSUME IInv, TypeOK', Moves, MailedOnce, MailedByExecutor
  PROVE  MailedOnce' /\ MailedByExecutor'
<1>1. \A r \in Requests : /\ emails[r] \in Nat /\ results[r] \in Nat
                          /\ emails'[r] \in Nat /\ results'[r] \in Nat
  BY DEF IInv, TypeOK
<1>2. ASSUME NEW r \in Requests, results[r] > 0 \/ status[r] = "gone"
      PROVE  results'[r] > 0 \/ status'[r] = "gone"
  <2>1. status'[r] = "gone" \/ (status[r] # "gone" /\ results'[r] >= results[r])
    BY DEF Moves, RunMoves
  <2>2. QED BY <1>1, <1>2, <2>1
<1>3. ASSUME NEW w \in Workers, at[w] \in Held
      PROVE  /\ run[w] \in Requests /\ emails[run[w]] = 0
             /\ at[w] # "claim" => status[run[w]] \notin {"none", "pending"}
             /\ at[w] = "claim" => run[w] \in RowLocked
  BY <1>3, WorkersExecute
  DEF IInv, TypeOK, Held, Executing, MailedByExecutor, WorkedOnStarted, RowLocked
<1>4. ASSUME NEW w \in Workers, NEW v \in Workers, v # w,
             status[run'[w]] = "pending", run'[w] \in Requests \ RowLocked,
             at[v] \in Held
      PROVE  run[v] # run'[w]
  BY <1>3, <1>4
<1>5. ASSUME NEW v \in Workers, NEW w \in Workers, v # w,
             at'[v] \in Held, at'[w] \in Held
      PROVE  run'[v] # run'[w]
  <2>1. CASE at[v] \in Held /\ run'[v] = run[v] /\ at[w] \in Held /\ run'[w] = run[w]
    BY <1>5, <2>1 DEF MailedByExecutor
  <2>2. CASE /\ status[run'[w]] = "pending" /\ run'[w] \in Requests \ RowLocked
             /\ at'[v] = at[v] /\ run'[v] = run[v]
    BY <1>4, <1>5, <2>2
  <2>3. CASE /\ status[run'[v]] = "pending" /\ run'[v] \in Requests \ RowLocked
             /\ at'[w] = at[w] /\ run'[w] = run[w]
    BY <1>4, <1>5, <2>3
  <2>4. QED BY <1>5, <2>1, <2>2, <2>3 DEF Moves, WorkerMoves
<1>6. ASSUME NEW w \in Workers, at[w] = "email", at'[w] = "poll",
             emails' = [emails EXCEPT ![run[w]] = @ + 1],
             status' = status, results' = results,
             \A v \in Workers : v # w => at'[v] = at[v] /\ run'[v] = run[v]
      PROVE  /\ MailedOnce'
             /\ \A r \in Requests : status'[r] \in {"none", "pending"} => emails'[r] = 0
             /\ \A v \in Workers : \A q \in Requests :
                  at'[v] \in Held /\ run'[v] = q => emails'[q] = 0
  <2>1. PICK q \in Requests : q = run[w] BY <1>3, <1>6 DEF Held
  <2>2. /\ emails[q] = 0 /\ status[q] \notin {"none", "pending"}
        /\ kind[q] = "scheduled" /\ (results[q] > 0 \/ status[q] = "gone")
    BY <1>3, <1>6, <2>1 DEF Held, MailedByExecutor
  <2>3. \A r \in Requests : emails'[r] = IF r = q THEN 1 ELSE emails[r]
    BY <1>6, <2>1, <2>2 DEF IInv, TypeOK
  <2>4. MailedOnce'
    BY <1>6, <2>2, <2>3 DEF MailedOnce, Moves, RunMoves
  <2>5. \A r \in Requests : status'[r] \in {"none", "pending"} => emails'[r] = 0
    BY <1>6, <2>2, <2>3 DEF MailedByExecutor
  <2>6. ASSUME NEW v \in Workers, at'[v] \in Held PROVE emails'[run'[v]] = 0
    <3>1. v # w BY <1>6, <2>6 DEF Held, Executing
    <3>2. at[v] \in Held /\ run'[v] = run[v] BY <1>6, <2>6, <3>1
    <3>3. run[v] # q BY <1>6, <2>1, <3>1, <3>2 DEF Held, MailedByExecutor
    <3>4. QED BY <1>3, <2>3, <3>2, <3>3
  <2>7. QED BY <2>4, <2>5, <2>6
<1>7. ASSUME emails' = emails
      PROVE  /\ MailedOnce'
             /\ \A r \in Requests : status'[r] \in {"none", "pending"} => emails'[r] = 0
             /\ \A v \in Workers : \A q \in Requests :
                  at'[v] \in Held /\ run'[v] = q => emails'[q] = 0
  <2>1. MailedOnce' BY <1>2, <1>7 DEF MailedOnce, Moves, RunMoves
  <2>2. \A r \in Requests : status'[r] \in {"none", "pending"} => emails'[r] = 0
    BY <1>7 DEF MailedByExecutor, Moves, RunMoves
  <2>3. ASSUME NEW v \in Workers, at'[v] \in Held PROVE emails'[run'[v]] = 0
    <3>1. CASE at[v] \in Held /\ run'[v] = run[v] BY <1>3, <1>7, <3>1
    <3>2. CASE status[run'[v]] = "pending" /\ run'[v] \in Requests
      BY <1>7, <3>2 DEF MailedByExecutor
    <3>3. QED BY <2>3, <3>1, <3>2 DEF Moves, WorkerMoves
  <2>4. QED BY <2>1, <2>2, <2>3
<1>8. ASSUME NEW w \in Workers, NEW q \in Requests, at'[w] = "email", run'[w] = q
      PROVE  kind'[q] = "scheduled" /\ (results'[q] > 0 \/ status'[q] = "gone")
  <2>1. /\ run'[w] = run[w] /\ at[w] \in {"email", "results"} /\ kind' = kind
        /\ at[w] = "results" => kind[run[w]] = "scheduled" /\ results'[run[w]] > 0
    BY <1>8 DEF Moves, WorkerMoves, RunMoves
  <2>2. CASE at[w] = "results" BY <1>8, <2>1, <2>2
  <2>3. CASE at[w] = "email"
    <3>1. kind[q] = "scheduled" /\ (results[q] > 0 \/ status[q] = "gone")
      BY <1>8, <2>1, <2>3 DEF MailedByExecutor
    <3>2. QED BY <1>2, <2>1, <3>1
  <2>4. QED BY <2>1, <2>2, <2>3
<1>9. /\ MailedOnce'
      /\ \A r \in Requests : status'[r] \in {"none", "pending"} => emails'[r] = 0
      /\ \A v \in Workers : \A q \in Requests :
           at'[v] \in Held /\ run'[v] = q => emails'[q] = 0
  BY <1>6, <1>7 DEF Moves, WorkerMoves
<1>10. QED BY <1>5, <1>8, <1>9 DEF MailedByExecutor

\* The invariant of a run's outcome.
THEOREM OutcomeInvariant == Spec => []OutcomeInv
<1>1. Init => OutcomeInv
  BY DEF Init, OutcomeInv, CompleteHasSnapshot, PagesDurable, MailedOnce,
         MailedByExecutor, Held, Executing, Executors
<1>2. IInv /\ IInv' /\ OutcomeInv /\ [Next]_vars => OutcomeInv'
  BY NextMoves, SnapshotStep, MailStep DEF OutcomeInv, IInv
<1>3. QED BY <1>1, <1>2, Invariance, PTL DEF Spec

\* A complete run has its pages and its results, whoever executed it.
THEOREM SnapshotHolds == Spec => []CompleteHasSnapshot
<1>1. OutcomeInv => CompleteHasSnapshot BY DEF OutcomeInv
<1>2. QED BY <1>1, OutcomeInvariant, PTL

\* A report is mailed once at most, and never before its results are durable.
THEOREM MailedOnceHolds == Spec => []MailedOnce
<1>1. OutcomeInv => MailedOnce BY DEF OutcomeInv
<1>2. QED BY <1>1, OutcomeInvariant, PTL

(***************************************************************************)
(* What holds while only workers execute runs under a lock that works: a   *)
(* run is one snapshot, nothing is orphaned while a worker serves, and the *)
(* queue implements RunLifecycle.                                          *)
(***************************************************************************)
\* A worker process past the lock is the only one, and no CLI process executes.
LockHeld == \A w \in Workers : at[w] # "off" => locked = {w}
CliOff   == \A r \in Requests : at[r] = "off"

\* What a starting worker selects to reap is what is running, less what is
\* deleted before it commits.
ReapExact ==
    \A w \in Workers :
        /\ at[w] # "reap" => stuck[w] = {}
        /\ at[w] = "reap" => \A q \in Requests :
              /\ status[q] = "running" => q \in stuck[w]
              /\ q \in stuck[w] => status[q] \in {"running", "gone"}

\* Nothing is recorded for a run before it starts.
FreshIsEmpty == \A q \in Requests : status[q] \in {"none", "pending"} => pages[q] = 0

\* The pages of a run are there once its executor has committed them.
PagesFollowPhase ==
    \A e \in Executors : \A q \in Requests : run[e] = q =>
        /\ at[e] \in {"claim", "start", "gather", "pages"} => pages[q] = 0
        /\ at[e] \in {"audit", "results"} => pages[q] = 1 \/ status[q] = "gone"

CInv == IInv /\ LockHeld /\ CliOff /\ ReapExact /\ ExecutedIsRunning /\ NoOrphanWhileServing
        /\ FreshIsEmpty /\ PagesFollowPhase /\ OneSnapshot

\* The parts that IInv does not have.
Clean == LockHeld /\ CliOff /\ ReapExact /\ ExecutedIsRunning /\ NoOrphanWhileServing
         /\ FreshIsEmpty /\ PagesFollowPhase /\ OneSnapshot

\* A worker process is not a CLI process, which a request number names.
LEMMA WorkerIsNoRequest == \A w \in Workers : w \notin Requests
  BY ConstantsAssumption

\* Under the lock there is one executor at a time, and it is a worker.
LEMMA Alone ==
  ASSUME CInv, NEW e \in Executors, NEW f \in Executors, at[e] # "off", at[f] # "off"
  PROVE  e = f /\ e \in Workers
<1>1. e \in Workers /\ f \in Workers BY DEF CInv, CliOff, Executors
<1>2. QED BY <1>1 DEF CInv, LockHeld

\* A run inserted with its site is in nobody's hands and has recorded nothing.
LEMMA NewSiteClean == ASSUME CInv, WorkersOnly, NEW r \in Requests, NewSite(r) PROVE Clean'
<1> USE NumbersAreNotFlags, WorkersExecute, Alone
<1> USE DEF requestVars, args, snapshot, executorVars, outside
<1>1. LockHeld' BY DEF CInv, LockHeld, NotYetInserted, Unreturned, IInv, TypeOK, NewSite, Return
<1>2. CliOff' BY DEF CInv, CliOff, NotYetInserted, Unreturned, IInv, TypeOK, NewSite, Return
<1>3. ReapExact' BY DEF CInv, ReapExact, NotYetInserted, Unreturned, IInv, TypeOK, NewSite, Return
<1>4. ExecutedIsRunning'
  BY ZenonT(30)
     DEF CInv, ExecutedIsRunning, NotYetInserted, Unreturned, Executing, IInv, TypeOK,
         NewSite, Return
<1>5. NoOrphanWhileServing'
  BY DEF CInv, NoOrphanWhileServing, NotYetInserted, Unreturned, Executing, IInv, TypeOK, NewSite,
         Return
<1>6. FreshIsEmpty'
  BY DEF CInv, FreshIsEmpty, NotYetInserted, Unreturned, IInv, TypeOK, NewSite, Return
<1>7. PagesFollowPhase'
  BY DEF CInv, PagesFollowPhase, NotYetInserted, Unreturned, IInv, TypeOK, NewSite, Return
<1>8. OneSnapshot'
  BY DEF CInv, OneSnapshot, NotYetInserted, Unreturned, IInv, TypeOK, NewSite, Return
<1>9. QED BY <1>1, <1>2, <1>3, <1>4, <1>5, <1>6, <1>7, <1>8 DEF Clean

\* A run inserted for a site that exists is in nobody's hands.
LEMMA InsertClean == ASSUME CInv, WorkersOnly, NEW r \in Requests, Insert(r) PROVE Clean'
<1> USE NumbersAreNotFlags, WorkersExecute, Alone
<1> USE DEF requestVars, args, snapshot, executorVars, outside
<1>1. LockHeld' BY DEF CInv, LockHeld, NotYetInserted, Unreturned, IInv, TypeOK, Insert, Return
<1>2. CliOff' BY DEF CInv, CliOff, NotYetInserted, Unreturned, IInv, TypeOK, Insert, Return
<1>3. ReapExact' BY DEF CInv, ReapExact, NotYetInserted, Unreturned, IInv, TypeOK, Insert, Return
<1>4. ExecutedIsRunning'
  BY ZenonT(30)
     DEF CInv, ExecutedIsRunning, NotYetInserted, Unreturned, Executing, IInv, TypeOK,
         Insert, Return
<1>5. NoOrphanWhileServing'
  BY DEF CInv, NoOrphanWhileServing, NotYetInserted, Unreturned, Executing, IInv, TypeOK, Insert,
         Return
<1>6. FreshIsEmpty'
  BY DEF CInv, FreshIsEmpty, NotYetInserted, Unreturned, IInv, TypeOK, Insert, Return
<1>7. PagesFollowPhase'
  BY DEF CInv, PagesFollowPhase, NotYetInserted, Unreturned, IInv, TypeOK, Insert, Return
<1>8. OneSnapshot'
  BY DEF CInv, OneSnapshot, NotYetInserted, Unreturned, IInv, TypeOK, Insert, Return
<1>9. QED BY <1>1, <1>2, <1>3, <1>4, <1>5, <1>6, <1>7, <1>8 DEF Clean

\* The worker that takes the lock is alone and has selected nothing yet.
LEMMA AcquireClean == ASSUME CInv, WorkersOnly, NEW w \in Workers, Acquire(w) PROVE Clean'
<1> USE NumbersAreNotFlags, WorkersExecute, Alone
<1> USE DEF requestVars, args, snapshot, executorVars, outside
<1>1. LockHeld' BY SMTT(30) DEF CInv, LockHeld, IInv, TypeOK, WorkersOnly, Acquire, Goto
<1>2. CliOff'
  <2>1. \A f \in Executors : f # w => at'[f] = at[f] BY DEF Acquire, Goto, CInv, IInv, TypeOK
  <2>2. QED BY <2>1, WorkerIsNoRequest DEF CInv, CliOff, Executors
<1>3. ReapExact' BY DEF CInv, ReapExact, IInv, TypeOK, Acquire, Goto
<1>4. ExecutedIsRunning' BY DEF CInv, ExecutedIsRunning, Executing, IInv, TypeOK, Acquire, Goto
<1>5. NoOrphanWhileServing'
  BY DEF CInv, NoOrphanWhileServing, Executing, IInv, TypeOK, Acquire, Goto
<1>6. FreshIsEmpty' BY DEF CInv, FreshIsEmpty, IInv, TypeOK, Acquire, Goto
<1>7. PagesFollowPhase' BY DEF CInv, PagesFollowPhase, IInv, TypeOK, Acquire, Goto
<1>8. OneSnapshot' BY DEF CInv, OneSnapshot, IInv, TypeOK, Acquire, Goto
<1>9. QED BY <1>1, <1>2, <1>3, <1>4, <1>5, <1>6, <1>7, <1>8 DEF Clean

\* A reaper selects exactly what is running.
LEMMA ReapSelectClean == ASSUME CInv, WorkersOnly, NEW w \in Workers, ReapSelect(w) PROVE Clean'
<1> USE NumbersAreNotFlags, WorkersExecute, Alone
<1> USE DEF requestVars, args, snapshot, executorVars, outside
<1>1. LockHeld' BY DEF CInv, LockHeld, IInv, TypeOK, ReapSelect, Goto
<1>2. CliOff' BY DEF CInv, CliOff, IInv, TypeOK, ReapSelect, Goto
<1>3. ReapExact' BY DEF CInv, ReapExact, IInv, TypeOK, ReapSelect, Goto
<1>4. ExecutedIsRunning' BY DEF CInv, ExecutedIsRunning, Executing, IInv, TypeOK, ReapSelect, Goto
<1>5. NoOrphanWhileServing'
  BY DEF CInv, NoOrphanWhileServing, Executing, IInv, TypeOK, ReapSelect, Goto
<1>6. FreshIsEmpty' BY DEF CInv, FreshIsEmpty, IInv, TypeOK, ReapSelect, Goto
<1>7. PagesFollowPhase' BY DEF CInv, PagesFollowPhase, IInv, TypeOK, ReapSelect, Goto
<1>8. OneSnapshot' BY DEF CInv, OneSnapshot, IInv, TypeOK, ReapSelect, Goto
<1>9. QED BY <1>1, <1>2, <1>3, <1>4, <1>5, <1>6, <1>7, <1>8 DEF Clean

\* Having reaped, a worker leaves nothing running: what it selected still ran, or the
\* update raised and the worker is gone.
LEMMA ReapCommitClean == ASSUME CInv, WorkersOnly, NEW w \in Workers, ReapCommit(w) PROVE Clean'
<1> USE NumbersAreNotFlags, WorkersExecute, Alone
<1> USE DEF requestVars, args, snapshot, executorVars, outside
<1>1. LockHeld' BY DEF CInv, LockHeld, IInv, TypeOK, ReapCommit, Quit, Goto
<1>2. CliOff'
  <2>1. \A f \in Executors : f # w => at'[f] = at[f]
    BY DEF ReapCommit, Quit, Goto, CInv, IInv, TypeOK
  <2>2. QED BY <2>1, WorkerIsNoRequest DEF CInv, CliOff, Executors
<1>3. ReapExact' BY DEF CInv, ReapExact, IInv, TypeOK, ReapCommit, Quit, Goto
<1>4. ExecutedIsRunning'
  BY DEF CInv, ExecutedIsRunning, Executing, IInv, TypeOK, ReapCommit, Quit, Goto
<1>5. NoOrphanWhileServing'
  <2>1. CASE \E r \in stuck[w] : status[r] = "gone"
    <3>1. \A v \in Workers : at'[v] = "off"
      BY <2>1, Alone DEF CInv, IInv, TypeOK, ReapCommit, Quit, Goto
    <3>2. QED BY <3>1 DEF NoOrphanWhileServing
  <2>2. CASE ~ \E r \in stuck[w] : status[r] = "gone"
    <3>1. \A q \in Requests : status'[q] # "running"
      BY <2>2 DEF CInv, ReapExact, IInv, TypeOK, ReapCommit
    <3>2. QED BY <3>1 DEF NoOrphanWhileServing
  <2>3. QED BY <2>1, <2>2
<1>6. FreshIsEmpty' BY DEF CInv, FreshIsEmpty, IInv, TypeOK, ReapCommit, Quit, Goto
<1>7. PagesFollowPhase' BY DEF CInv, PagesFollowPhase, IInv, TypeOK, ReapCommit, Quit, Goto
<1>8. OneSnapshot'
  <2>1. \A q \in Requests : status'[q] = status[q] \/ {status[q], status'[q]} \cap {"complete"} = {}
    BY DEF CInv, ReapExact, IInv, TypeOK, ReapCommit
  <2>2. QED BY <2>1 DEF CInv, OneSnapshot, ReapCommit
<1>9. QED BY <1>1, <1>2, <1>3, <1>4, <1>5, <1>6, <1>7, <1>8 DEF Clean

\* Selecting a pending run: it has recorded no pages.
LEMMA ClaimSelectClean == ASSUME CInv, WorkersOnly, NEW w \in Workers, ClaimSelect(w) PROVE Clean'
<1> USE NumbersAreNotFlags, WorkersExecute, Alone
<1> USE DEF requestVars, args, snapshot, executorVars, outside
<1>1. LockHeld'
  BY DEF CInv, LockHeld, FreshIsEmpty, IInv, TypeOK, ClaimSelect, Claimable, RowLocked, Goto
<1>2. CliOff'
  <2>1. \A f \in Executors : f # w => at'[f] = at[f] BY DEF ClaimSelect, Goto, CInv, IInv, TypeOK
  <2>2. QED BY <2>1, WorkerIsNoRequest DEF CInv, CliOff, Executors
<1>3. ReapExact'
  BY DEF CInv, ReapExact, FreshIsEmpty, IInv, TypeOK, ClaimSelect, Claimable, RowLocked, Goto
<1>4. ExecutedIsRunning'
  BY DEF CInv, ExecutedIsRunning, FreshIsEmpty, Executing, IInv, TypeOK, ClaimSelect, Claimable,
         RowLocked, Goto
<1>5. NoOrphanWhileServing'
  BY DEF CInv, NoOrphanWhileServing, FreshIsEmpty, Executing, IInv, TypeOK, ClaimSelect, Claimable,
         RowLocked, Goto
<1>6. FreshIsEmpty' BY DEF CInv, FreshIsEmpty, IInv, TypeOK, ClaimSelect, Claimable, RowLocked, Goto
<1>7. PagesFollowPhase'
  BY DEF CInv, PagesFollowPhase, FreshIsEmpty, IInv, TypeOK, ClaimSelect, Claimable, RowLocked, Goto
<1>8. OneSnapshot'
  BY DEF CInv, OneSnapshot, FreshIsEmpty, IInv, TypeOK, ClaimSelect, Claimable, RowLocked, Goto
<1>9. QED BY <1>1, <1>2, <1>3, <1>4, <1>5, <1>6, <1>7, <1>8 DEF Clean

\* Claiming makes the selected run the only running one, in its worker's hands.
LEMMA ClaimCommitClean == ASSUME CInv, WorkersOnly, NEW w \in Workers, ClaimCommit(w) PROVE Clean'
<1> USE NumbersAreNotFlags, WorkersExecute, Alone
<1> USE DEF requestVars, args, snapshot, executorVars, outside
<1>1. LockHeld'
  BY DEF CInv, LockHeld, ClaimStillPending, FreshIsEmpty, IInv, TypeOK, ClaimCommit, RowLocked, Goto
<1>2. CliOff'
  BY DEF CInv, CliOff, ClaimStillPending, FreshIsEmpty, IInv, TypeOK, ClaimCommit, RowLocked, Goto
<1>3. ReapExact'
  BY DEF CInv, ReapExact, ClaimStillPending, FreshIsEmpty, IInv, TypeOK, ClaimCommit, RowLocked,
         Goto
<1>4. ExecutedIsRunning'
  BY DEF CInv, ExecutedIsRunning, ClaimStillPending, FreshIsEmpty, Executing, IInv, TypeOK,
         ClaimCommit, RowLocked, Goto
<1>5. NoOrphanWhileServing'
  BY DEF CInv, NoOrphanWhileServing, ClaimStillPending, FreshIsEmpty, Executing, IInv, TypeOK,
         ClaimCommit, RowLocked, Goto
<1>6. FreshIsEmpty'
  BY DEF CInv, FreshIsEmpty, ClaimStillPending, IInv, TypeOK, ClaimCommit, RowLocked, Goto
<1>7. PagesFollowPhase'
  BY DEF CInv, PagesFollowPhase, ClaimStillPending, FreshIsEmpty, IInv, TypeOK, ClaimCommit,
         RowLocked, Goto
<1>8. OneSnapshot'
  BY DEF CInv, OneSnapshot, ClaimStillPending, FreshIsEmpty, IInv, TypeOK, ClaimCommit, RowLocked,
         Goto
<1>9. QED BY <1>1, <1>2, <1>3, <1>4, <1>5, <1>6, <1>7, <1>8 DEF Clean

\* Finding nothing to claim, a worker holds no run.
LEMMA FindNothingClean == ASSUME CInv, WorkersOnly, NEW w \in Workers, FindNothing(w) PROVE Clean'
<1> USE NumbersAreNotFlags, WorkersExecute, Alone
<1> USE DEF requestVars, args, snapshot, executorVars, outside
<1>1. LockHeld' BY DEF CInv, LockHeld, IInv, TypeOK, FindNothing, Goto
<1>2. CliOff' BY DEF CInv, CliOff, IInv, TypeOK, FindNothing, Goto
<1>3. ReapExact' BY DEF CInv, ReapExact, IInv, TypeOK, FindNothing, Goto
<1>4. ExecutedIsRunning' BY DEF CInv, ExecutedIsRunning, Executing, IInv, TypeOK, FindNothing, Goto
<1>5. NoOrphanWhileServing'
  BY DEF CInv, NoOrphanWhileServing, Executing, IInv, TypeOK, FindNothing, Goto
<1>6. FreshIsEmpty' BY DEF CInv, FreshIsEmpty, IInv, TypeOK, FindNothing, Goto
<1>7. PagesFollowPhase' BY DEF CInv, PagesFollowPhase, IInv, TypeOK, FindNothing, Goto
<1>8. OneSnapshot' BY DEF CInv, OneSnapshot, IInv, TypeOK, FindNothing, Goto
<1>9. QED BY <1>1, <1>2, <1>3, <1>4, <1>5, <1>6, <1>7, <1>8 DEF Clean

\* Waking up for the next poll changes nothing but the phase.
LEMMA SleepClean == ASSUME CInv, WorkersOnly, NEW w \in Workers, Sleep(w) PROVE Clean'
<1> USE NumbersAreNotFlags, WorkersExecute, Alone
<1> USE DEF requestVars, args, snapshot, executorVars, outside
<1>1. LockHeld' BY DEF CInv, LockHeld, IInv, TypeOK, Sleep, Goto
<1>2. CliOff' BY DEF CInv, CliOff, IInv, TypeOK, Sleep, Goto
<1>3. ReapExact' BY DEF CInv, ReapExact, IInv, TypeOK, Sleep, Goto
<1>4. ExecutedIsRunning' BY DEF CInv, ExecutedIsRunning, Executing, IInv, TypeOK, Sleep, Goto
<1>5. NoOrphanWhileServing' BY DEF CInv, NoOrphanWhileServing, Executing, IInv, TypeOK, Sleep, Goto
<1>6. FreshIsEmpty' BY DEF CInv, FreshIsEmpty, IInv, TypeOK, Sleep, Goto
<1>7. PagesFollowPhase' BY DEF CInv, PagesFollowPhase, IInv, TypeOK, Sleep, Goto
<1>8. OneSnapshot' BY DEF CInv, OneSnapshot, IInv, TypeOK, Sleep, Goto
<1>9. QED BY <1>1, <1>2, <1>3, <1>4, <1>5, <1>6, <1>7, <1>8 DEF Clean

\* Mailing a report leaves the runs alone.
LEMMA EmailClean == ASSUME CInv, WorkersOnly, NEW w \in Workers, Email(w) PROVE Clean'
<1> USE NumbersAreNotFlags, WorkersExecute, Alone
<1> USE DEF requestVars, args, snapshot, executorVars, outside
<1>1. LockHeld' BY DEF CInv, LockHeld, IInv, TypeOK, Email, Goto
<1>2. CliOff' BY DEF CInv, CliOff, IInv, TypeOK, Email, Goto
<1>3. ReapExact' BY DEF CInv, ReapExact, IInv, TypeOK, Email, Goto
<1>4. ExecutedIsRunning' BY DEF CInv, ExecutedIsRunning, Executing, IInv, TypeOK, Email, Goto
<1>5. NoOrphanWhileServing' BY DEF CInv, NoOrphanWhileServing, Executing, IInv, TypeOK, Email, Goto
<1>6. FreshIsEmpty' BY DEF CInv, FreshIsEmpty, IInv, TypeOK, Email, Goto
<1>7. PagesFollowPhase' BY DEF CInv, PagesFollowPhase, IInv, TypeOK, Email, Goto
<1>8. OneSnapshot' BY DEF CInv, OneSnapshot, IInv, TypeOK, Email, Goto
<1>9. QED BY <1>1, <1>2, <1>3, <1>4, <1>5, <1>6, <1>7, <1>8 DEF Clean

\* A mail that fails leaves the runs alone.
LEMMA EmailFailsClean == ASSUME CInv, WorkersOnly, NEW w \in Workers, EmailFails(w) PROVE Clean'
<1> USE NumbersAreNotFlags, WorkersExecute, Alone
<1> USE DEF requestVars, args, snapshot, executorVars, outside
<1>1. LockHeld' BY DEF CInv, LockHeld, IInv, TypeOK, EmailFails, Goto
<1>2. CliOff' BY DEF CInv, CliOff, IInv, TypeOK, EmailFails, Goto
<1>3. ReapExact' BY DEF CInv, ReapExact, IInv, TypeOK, EmailFails, Goto
<1>4. ExecutedIsRunning' BY DEF CInv, ExecutedIsRunning, Executing, IInv, TypeOK, EmailFails, Goto
<1>5. NoOrphanWhileServing'
  BY DEF CInv, NoOrphanWhileServing, Executing, IInv, TypeOK, EmailFails, Goto
<1>6. FreshIsEmpty' BY DEF CInv, FreshIsEmpty, IInv, TypeOK, EmailFails, Goto
<1>7. PagesFollowPhase' BY DEF CInv, PagesFollowPhase, IInv, TypeOK, EmailFails, Goto
<1>8. OneSnapshot' BY DEF CInv, OneSnapshot, IInv, TypeOK, EmailFails, Goto
<1>9. QED BY <1>1, <1>2, <1>3, <1>4, <1>5, <1>6, <1>7, <1>8 DEF Clean

\* A worker that is idle leaves no run behind and gives up the lock.
LEMMA IdleStopClean == ASSUME CInv, WorkersOnly, NEW w \in Workers, IdleStop(w) PROVE Clean'
<1> USE NumbersAreNotFlags, WorkersExecute, Alone
<1> USE DEF requestVars, args, snapshot, executorVars, outside
<1>1. LockHeld' BY DEF CInv, LockHeld, IInv, TypeOK, IdleStop, Quit, Goto
<1>2. CliOff' BY DEF CInv, CliOff, IInv, TypeOK, IdleStop, Quit, Goto
<1>3. ReapExact' BY DEF CInv, ReapExact, IInv, TypeOK, IdleStop, Quit, Goto
<1>4. ExecutedIsRunning'
  BY DEF CInv, ExecutedIsRunning, Executing, IInv, TypeOK, IdleStop, Quit, Goto
<1>5. NoOrphanWhileServing'
  BY DEF CInv, NoOrphanWhileServing, Executing, IInv, TypeOK, IdleStop, Quit, Goto
<1>6. FreshIsEmpty' BY DEF CInv, FreshIsEmpty, IInv, TypeOK, IdleStop, Quit, Goto
<1>7. PagesFollowPhase' BY DEF CInv, PagesFollowPhase, IInv, TypeOK, IdleStop, Quit, Goto
<1>8. OneSnapshot' BY DEF CInv, OneSnapshot, IInv, TypeOK, IdleStop, Quit, Goto
<1>9. QED BY <1>1, <1>2, <1>3, <1>4, <1>5, <1>6, <1>7, <1>8 DEF Clean

\* A signalled worker leaves between two runs, so no run is left behind.
LEMMA SignalStopClean == ASSUME CInv, WorkersOnly, NEW w \in Workers, SignalStop(w) PROVE Clean'
<1> USE NumbersAreNotFlags, WorkersExecute, Alone
<1> USE DEF requestVars, args, snapshot, executorVars, outside
<1>1. LockHeld' BY DEF CInv, LockHeld, IInv, TypeOK, SignalStop, Quit, Goto
<1>2. CliOff' BY DEF CInv, CliOff, IInv, TypeOK, SignalStop, Quit, Goto
<1>3. ReapExact' BY DEF CInv, ReapExact, IInv, TypeOK, SignalStop, Quit, Goto
<1>4. ExecutedIsRunning'
  BY DEF CInv, ExecutedIsRunning, Executing, IInv, TypeOK, SignalStop, Quit, Goto
<1>5. NoOrphanWhileServing'
  BY DEF CInv, NoOrphanWhileServing, Executing, IInv, TypeOK, SignalStop, Quit, Goto
<1>6. FreshIsEmpty' BY DEF CInv, FreshIsEmpty, IInv, TypeOK, SignalStop, Quit, Goto
<1>7. PagesFollowPhase' BY DEF CInv, PagesFollowPhase, IInv, TypeOK, SignalStop, Quit, Goto
<1>8. OneSnapshot' BY DEF CInv, OneSnapshot, IInv, TypeOK, SignalStop, Quit, Goto
<1>9. QED BY <1>1, <1>2, <1>3, <1>4, <1>5, <1>6, <1>7, <1>8 DEF Clean

\* execute_run starts the run its worker claimed, running already.
LEMMA StartClean == ASSUME CInv, WorkersOnly, NEW e \in Executors, Start(e) PROVE Clean'
<1> USE NumbersAreNotFlags, WorkersExecute, Alone
<1> USE DEF requestVars, args, snapshot, executorVars, outside
<1>1. LockHeld'
  BY DEF CInv, LockHeld, ExecutedIsRunning, Executing, IInv, TypeOK, Start, ActiveOn, Goto, Home
<1>2. CliOff'
  <2>1. e \in Workers BY DEF Start
  <2>2. \A f \in Executors : f # e => at'[f] = at[f] BY DEF Start, Goto, CInv, IInv, TypeOK
  <2>3. QED BY <2>1, <2>2, WorkerIsNoRequest DEF CInv, CliOff, Executors
<1>3. ReapExact'
  BY DEF CInv, ReapExact, ExecutedIsRunning, Executing, IInv, TypeOK, Start, ActiveOn, Goto, Home
<1>4. ExecutedIsRunning'
  BY DEF CInv, ExecutedIsRunning, Executing, IInv, TypeOK, Start, ActiveOn, Goto, Home
<1>5. NoOrphanWhileServing'
  <2>1. e \in Workers /\ run[e] \in Requests /\ status[run[e]] \in {"running", "gone"}
    BY DEF Start, CInv, ExecutedIsRunning, Executing, IInv, TypeOK
  <2>2. \A v \in Workers : v # e => at'[v] = "off" BY <2>1 DEF Start, Goto, CInv, IInv, TypeOK
  <2>3. CASE status[run[e]] = "running"
    <3>1. ActiveOn(dom[run[e]]) \ {run[e]} = {}
      BY <2>1, <2>3
      DEF ActiveOn, Active, CInv, NoOrphanWhileServing, SingleFlight, IInv, TypeOK, Start
    <3>2. /\ status' = [status EXCEPT ![run[e]] = "running"]
          /\ at' = [at EXCEPT ![e] = "gather"] /\ run' = [run EXCEPT ![e] = run[e]]
      BY <2>3, <3>1 DEF Start, Goto
    <3>4. status' = status BY <3>2, <2>3, <2>1 DEF CInv, IInv, TypeOK
    <3>5. at'[e] = "gather" /\ run'[e] = run[e] BY <3>2 DEF CInv, IInv, TypeOK
    <3>6. QED BY <2>1, <2>2, <3>4, <3>5 DEF CInv, NoOrphanWhileServing, Executing, Start
  <2>4. CASE status[run[e]] = "gone"
    <3>1. status' = status BY <2>4 DEF Start
    <3>2. \A q \in Requests : status[q] # "running"
      BY <2>1, <2>4 DEF CInv, NoOrphanWhileServing, Executing, Start
    <3>3. QED BY <3>1, <3>2 DEF NoOrphanWhileServing
  <2>5. QED BY <2>1, <2>3, <2>4
<1>6. FreshIsEmpty'
  BY DEF CInv, FreshIsEmpty, ExecutedIsRunning, Executing, IInv, TypeOK, Start, ActiveOn, Goto, Home
<1>7. PagesFollowPhase'
  BY DEF CInv, PagesFollowPhase, ExecutedIsRunning, Executing, IInv, TypeOK, Start, ActiveOn, Goto,
         Home
<1>8. OneSnapshot'
  BY DEF CInv, OneSnapshot, ExecutedIsRunning, Executing, IInv, TypeOK, Start, ActiveOn, Goto, Home
<1>9. QED BY <1>1, <1>2, <1>3, <1>4, <1>5, <1>6, <1>7, <1>8 DEF Clean

\* Flushing pages commits nothing; a deleted run sends the worker back to poll.
LEMMA FlushPagesClean == ASSUME CInv, WorkersOnly, NEW e \in Executors, FlushPages(e) PROVE Clean'
<1> USE NumbersAreNotFlags, WorkersExecute, Alone
<1> USE DEF requestVars, args, snapshot, executorVars, outside
<1>1. LockHeld' BY DEF CInv, LockHeld, IInv, TypeOK, FlushPages, Goto, Home
<1>2. CliOff' BY DEF CInv, CliOff, IInv, TypeOK, FlushPages, Goto, Home
<1>3. ReapExact' BY DEF CInv, ReapExact, IInv, TypeOK, FlushPages, Goto, Home
<1>4. ExecutedIsRunning'
  BY DEF CInv, ExecutedIsRunning, Executing, IInv, TypeOK, FlushPages, Goto, Home
<1>5. NoOrphanWhileServing'
  BY DEF CInv, NoOrphanWhileServing, Executing, IInv, TypeOK, FlushPages, Goto, Home
<1>6. FreshIsEmpty' BY DEF CInv, FreshIsEmpty, IInv, TypeOK, FlushPages, Goto, Home
<1>7. PagesFollowPhase' BY DEF CInv, PagesFollowPhase, IInv, TypeOK, FlushPages, Goto, Home
<1>8. OneSnapshot' BY DEF CInv, OneSnapshot, IInv, TypeOK, FlushPages, Goto, Home
<1>9. QED BY <1>1, <1>2, <1>3, <1>4, <1>5, <1>6, <1>7, <1>8 DEF Clean

\* Pages are committed once: the run had none.
LEMMA CommitPagesClean == ASSUME CInv, WorkersOnly, NEW e \in Executors, CommitPages(e) PROVE Clean'
<1> USE NumbersAreNotFlags, WorkersExecute, Alone
<1> USE DEF requestVars, args, snapshot, executorVars, outside
<1>1. LockHeld'
  BY DEF CInv, LockHeld, ExecutedIsRunning, PagesFollowPhase, Executing, IInv, TypeOK, CommitPages,
         Goto
<1>2. CliOff'
  BY DEF CInv, CliOff, ExecutedIsRunning, PagesFollowPhase, Executing, IInv, TypeOK, CommitPages,
         Goto
<1>3. ReapExact'
  BY DEF CInv, ReapExact, ExecutedIsRunning, PagesFollowPhase, Executing, IInv, TypeOK, CommitPages,
         Goto
<1>4. ExecutedIsRunning'
  BY DEF CInv, ExecutedIsRunning, PagesFollowPhase, Executing, IInv, TypeOK, CommitPages, Goto
<1>5. NoOrphanWhileServing'
  BY DEF CInv, NoOrphanWhileServing, ExecutedIsRunning, PagesFollowPhase, Executing, IInv, TypeOK,
         CommitPages, Goto
<1>6. FreshIsEmpty'
  BY DEF CInv, FreshIsEmpty, ExecutedIsRunning, PagesFollowPhase, Executing, IInv, TypeOK,
         CommitPages, Goto
<1>7. PagesFollowPhase'
  BY DEF CInv, PagesFollowPhase, ExecutedIsRunning, Executing, IInv, TypeOK, CommitPages, Goto
<1>8. OneSnapshot'
  BY DEF CInv, OneSnapshot, ExecutedIsRunning, PagesFollowPhase, Executing, IInv, TypeOK,
         CommitPages, Goto
<1>9. QED BY <1>1, <1>2, <1>3, <1>4, <1>5, <1>6, <1>7, <1>8 DEF Clean

\* Flushing results commits nothing; a deleted run sends the worker back to poll.
LEMMA FlushResultsClean == ASSUME CInv, WorkersOnly, NEW e \in Executors, FlushResults(e) PROVE Clean'
<1> USE NumbersAreNotFlags, WorkersExecute, Alone
<1> USE DEF requestVars, args, snapshot, executorVars, outside
<1>1. LockHeld' BY DEF CInv, LockHeld, IInv, TypeOK, FlushResults, Goto, Home
<1>2. CliOff' BY DEF CInv, CliOff, IInv, TypeOK, FlushResults, Goto, Home
<1>3. ReapExact' BY DEF CInv, ReapExact, IInv, TypeOK, FlushResults, Goto, Home
<1>4. ExecutedIsRunning'
  BY DEF CInv, ExecutedIsRunning, Executing, IInv, TypeOK, FlushResults, Goto, Home
<1>5. NoOrphanWhileServing'
  BY DEF CInv, NoOrphanWhileServing, Executing, IInv, TypeOK, FlushResults, Goto, Home
<1>6. FreshIsEmpty' BY DEF CInv, FreshIsEmpty, IInv, TypeOK, FlushResults, Goto, Home
<1>7. PagesFollowPhase' BY DEF CInv, PagesFollowPhase, IInv, TypeOK, FlushResults, Goto, Home
<1>8. OneSnapshot' BY DEF CInv, OneSnapshot, IInv, TypeOK, FlushResults, Goto, Home
<1>9. QED BY <1>1, <1>2, <1>3, <1>4, <1>5, <1>6, <1>7, <1>8 DEF Clean

\* Completing a run commits its one result set beside its one page set.
LEMMA FinishClean == ASSUME CInv, WorkersOnly, NEW e \in Executors, Finish(e) PROVE Clean'
<1> USE NumbersAreNotFlags, WorkersExecute, Alone
<1> USE DEF requestVars, args, snapshot, executorVars, outside
<1>1. LockHeld'
  BY DEF CInv, LockHeld, ExecutedIsRunning, PagesFollowPhase, FlushedNotGone, Executing, IInv,
         TypeOK, Finish, Goto, Home
<1>2. CliOff'
  <2>1. e \in Workers BY DEF Finish
  <2>2. \A f \in Executors : f # e => at'[f] = at[f] BY DEF Finish, Goto, CInv, IInv, TypeOK
  <2>3. QED BY <2>1, <2>2, WorkerIsNoRequest DEF CInv, CliOff, Executors
<1>3. ReapExact'
  BY DEF CInv, ReapExact, ExecutedIsRunning, PagesFollowPhase, FlushedNotGone, Executing, IInv,
         TypeOK, Finish, Goto, Home
<1>4. ExecutedIsRunning'
  BY DEF CInv, ExecutedIsRunning, PagesFollowPhase, FlushedNotGone, Executing, IInv, TypeOK, Finish,
         Goto, Home
<1>5. NoOrphanWhileServing'
  BY DEF CInv, NoOrphanWhileServing, ExecutedIsRunning, PagesFollowPhase, FlushedNotGone, Executing,
         IInv, TypeOK, Finish, Goto, Home
<1>6. FreshIsEmpty'
  BY DEF CInv, FreshIsEmpty, ExecutedIsRunning, PagesFollowPhase, FlushedNotGone, Executing, IInv,
         TypeOK, Finish, Goto, Home
<1>7. PagesFollowPhase'
  BY DEF CInv, PagesFollowPhase, ExecutedIsRunning, FlushedNotGone, Executing, IInv, TypeOK, Finish,
         Goto, Home
<1>8. OneSnapshot'
  BY DEF CInv, OneSnapshot, ExecutedIsRunning, PagesFollowPhase, FlushedNotGone, Executing, IInv,
         TypeOK, Finish, Goto, Home
<1>9. QED BY <1>1, <1>2, <1>3, <1>4, <1>5, <1>6, <1>7, <1>8 DEF Clean

\* Failing a run records no results and takes it out of its worker's hands.
LEMMA FailClean == ASSUME CInv, WorkersOnly, NEW e \in Executors, Fail(e) PROVE Clean'
<1> USE NumbersAreNotFlags, WorkersExecute, Alone
<1> USE DEF requestVars, args, snapshot, executorVars, outside
<1>1. LockHeld' BY DEF CInv, LockHeld, ExecutedIsRunning, Executing, IInv, TypeOK, Fail, Goto, Home
<1>2. CliOff' BY DEF CInv, CliOff, ExecutedIsRunning, Executing, IInv, TypeOK, Fail, Goto, Home
<1>3. ReapExact'
  BY DEF CInv, ReapExact, ExecutedIsRunning, Executing, IInv, TypeOK, Fail, Goto, Home
<1>4. ExecutedIsRunning' BY DEF CInv, ExecutedIsRunning, Executing, IInv, TypeOK, Fail, Goto, Home
<1>5. NoOrphanWhileServing'
  BY DEF CInv, NoOrphanWhileServing, ExecutedIsRunning, Executing, IInv, TypeOK, Fail, Goto, Home
<1>6. FreshIsEmpty'
  BY DEF CInv, FreshIsEmpty, ExecutedIsRunning, Executing, IInv, TypeOK, Fail, Goto, Home
<1>7. PagesFollowPhase'
  BY DEF CInv, PagesFollowPhase, ExecutedIsRunning, Executing, IInv, TypeOK, Fail, Goto, Home
<1>8. OneSnapshot'
  BY DEF CInv, OneSnapshot, ExecutedIsRunning, Executing, IInv, TypeOK, Fail, Goto, Home
<1>9. QED BY <1>1, <1>2, <1>3, <1>4, <1>5, <1>6, <1>7, <1>8 DEF Clean

\* A crash takes the lock and the reap in progress with the process; the run it leaves
\* running is for the next worker, which must reap before it serves.
LEMMA CrashClean == ASSUME CInv, WorkersOnly, NEW e \in Executors, Crash(e) PROVE Clean'
<1> USE NumbersAreNotFlags, WorkersExecute, Alone
<1> USE DEF requestVars, args, snapshot, executorVars, outside
<1>1. LockHeld' BY DEF CInv, LockHeld, IInv, TypeOK, Crash, Quit, Goto
<1>2. CliOff' BY DEF CInv, CliOff, IInv, TypeOK, Crash, Quit, Goto
<1>3. ReapExact' BY DEF CInv, ReapExact, IInv, TypeOK, Crash, Quit, Goto
<1>4. ExecutedIsRunning' BY DEF CInv, ExecutedIsRunning, Executing, IInv, TypeOK, Crash, Quit, Goto
<1>5. NoOrphanWhileServing'
  BY DEF CInv, NoOrphanWhileServing, Executing, IInv, TypeOK, Crash, Quit, Goto
<1>6. FreshIsEmpty' BY DEF CInv, FreshIsEmpty, IInv, TypeOK, Crash, Quit, Goto
<1>7. PagesFollowPhase' BY DEF CInv, PagesFollowPhase, IInv, TypeOK, Crash, Quit, Goto
<1>8. OneSnapshot' BY DEF CInv, OneSnapshot, IInv, TypeOK, Crash, Quit, Goto
<1>9. QED BY <1>1, <1>2, <1>3, <1>4, <1>5, <1>6, <1>7, <1>8 DEF Clean

\* Deleting a site takes its runs, pages and results together.
LEMMA DeleteSiteClean == ASSUME CInv, WorkersOnly, NEW d \in Domains, DeleteSite(d) PROVE Clean'
<1> USE NumbersAreNotFlags, WorkersExecute, Alone
<1> USE DEF requestVars, args, snapshot, executorVars, outside
<1>1. LockHeld' BY DEF CInv, LockHeld, IInv, TypeOK, DeleteSite, InUse
<1>2. CliOff' BY DEF CInv, CliOff, IInv, TypeOK, DeleteSite, InUse
<1>3. ReapExact' BY DEF CInv, ReapExact, IInv, TypeOK, DeleteSite, InUse
<1>4. ExecutedIsRunning' BY DEF CInv, ExecutedIsRunning, Executing, IInv, TypeOK, DeleteSite, InUse
<1>5. NoOrphanWhileServing'
  BY DEF CInv, NoOrphanWhileServing, Executing, IInv, TypeOK, DeleteSite, InUse
<1>6. FreshIsEmpty' BY DEF CInv, FreshIsEmpty, IInv, TypeOK, DeleteSite, InUse
<1>7. PagesFollowPhase' BY DEF CInv, PagesFollowPhase, IInv, TypeOK, DeleteSite, InUse
<1>8. OneSnapshot' BY DEF CInv, OneSnapshot, IInv, TypeOK, DeleteSite, InUse
<1>9. QED BY <1>1, <1>2, <1>3, <1>4, <1>5, <1>6, <1>7, <1>8 DEF Clean

-----------------------------------------------------------------------------
\* A step that leaves the database and the executors alone, as those of
\* create_pending_run that only read.
LEMMA UnchangedClean ==
  ASSUME CInv, UNCHANGED <<site, status, snapshot, executorVars>>
  PROVE  Clean'
  BY DEF snapshot, executorVars, CInv, Clean, LockHeld, CliOff, ReapExact, ExecutedIsRunning,
         NoOrphanWhileServing, FreshIsEmpty, PagesFollowPhase, OneSnapshot

\* Every step keeps CInv when only workers execute.
LEMMA CleanStep == ASSUME CInv, [Next]_vars, WorkersOnly PROVE CInv'
<1>0. IInv' BY TypeStep, RestStep DEF CInv, IInv, Rest
<1>1. ASSUME NEW r \in Requests, CreatePendingRun(r) PROVE Clean'
  <2>1. CASE Lookup(r) \/ CheckActive(r) \/ Reread(r)
    BY <2>1, UnchangedClean DEF Lookup, CheckActive, Reread
  <2>2. QED BY <1>1, <2>1, NewSiteClean, InsertClean DEF CreatePendingRun
<1>2. ASSUME NEW r \in Requests, CliExecute(r) PROVE Clean'
  <2>1. kind[r] \in Kinds BY DEF CInv, IInv, TypeOK
  <2>2. QED BY <1>2, <2>1 DEF CliExecute, WorkersOnly
<1>3. ASSUME NEW w \in Workers, Work(w) \/ IdleStop(w) \/ SignalStop(w) PROVE Clean'
  BY <1>3, AcquireClean, ReapSelectClean, ReapCommitClean, ClaimSelectClean, ClaimCommitClean,
     FindNothingClean, SleepClean, EmailClean, EmailFailsClean, IdleStopClean, SignalStopClean
  DEF Work
<1>4. ASSUME NEW e \in Executors, ExecuteRun(e) \/ Crash(e) PROVE Clean'
  <2>1. ~FailUnrecorded(e) BY DEF FailUnrecorded, WorkersOnly
  <2>2. QED BY <1>4, <2>1, StartClean, FlushPagesClean, CommitPagesClean, FlushResultsClean,
               FinishClean, FailClean, CrashClean DEF ExecuteRun
<1>5. ASSUME NEW d \in Domains, DeleteSite(d) PROVE Clean'
  BY <1>5, DeleteSiteClean
<1>6. ASSUME UNCHANGED vars PROVE Clean'
  BY <1>6, UnchangedClean DEF vars, snapshot, executorVars
<1>7. Clean' BY <1>1, <1>2, <1>3, <1>4, <1>5, <1>6 DEF Next
<1>8. QED BY <1>0, <1>7 DEF CInv, Clean

\* CInv holds initially.
LEMMA CleanInit == Init => CInv
<1>1. Init => IInv
  BY TypeInit, NumbersAreNotFlags
  DEF Init, IInv, NotYetInserted, ReturnedExists, InHandExists, StuckStarted,
      ClaimStillPending, WorkedOnStarted, FlushedNotGone, ClaimedOnce, SeenASite, NoSiteNoRuns,
      SingleFlight, Active, Executing, Executors
<1>2. QED
  BY <1>1 DEF Init, CInv, LockHeld, CliOff, ReapExact, ExecutedIsRunning, NoOrphanWhileServing,
              FreshIsEmpty, PagesFollowPhase, OneSnapshot, Executors, Executing

\* CInv holds in every state while only workers execute under a lock that works.
THEOREM CleanInvariance == ASSUME WorkersOnly PROVE Spec => []CInv
<1>1. Init => CInv BY CleanInit
<1>2. CInv /\ [Next]_vars => CInv' BY CleanStep
<1>3. QED BY <1>1, <1>2, PTL DEF Spec

\* While only workers execute, under a lock that works, each run that completes
\* has exactly one page set and one result set, and no other run has results.
THEOREM OneSnapshotHolds == ASSUME WorkersOnly PROVE Spec => []OneSnapshot
<1>1. CInv => OneSnapshot BY DEF CInv
<1>2. QED BY <1>1, CleanInvariance, PTL

\* ... a worker that has reaped leaves no running run but the one it executes.
THEOREM NoOrphanHolds == ASSUME WorkersOnly PROVE Spec => []NoOrphanWhileServing
<1>1. CInv => NoOrphanWhileServing BY DEF CInv
<1>2. QED BY <1>1, CleanInvariance, PTL

\* ... and nobody changes the status of a run under its executor, unless the
\* whole site is deleted.
THEOREM ExecutedIsRunningHolds == ASSUME WorkersOnly PROVE Spec => []ExecutedIsRunning
<1>1. CInv => ExecutedIsRunning BY DEF CInv
<1>2. QED BY <1>1, CleanInvariance, PTL

-----------------------------------------------------------------------------
(* Refinement *)

\* Every step of the queue is a step of the life cycle or leaves it alone.
LEMMA StepRefines ==
  ASSUME CInv, [Next]_vars, WorkersOnly
  PROVE  [Lifecycle!Next]_(Lifecycle!vars)
<1> USE NumbersAreNotFlags, WorkersExecute
<1> DEFINE Stays == UNCHANGED <<status, dom>>
<1>0. TypeOK BY DEF CInv, IInv
<1>1. ASSUME NEW r \in Requests, CreatePendingRun(r)
      PROVE  Stays \/ Lifecycle!Enqueue(r)
  <2>1. CASE Lookup(r) \/ CheckActive(r) \/ Reread(r)
    BY <2>1 DEF Lookup, CheckActive, Reread, args
  <2>2. CASE NewSite(r)
    <3>1. status[r] = "none" BY <2>2 DEF NewSite, CInv, IInv, NotYetInserted, Unreturned
    <3>2. site[dom[r]] = NoSite => \A q \in Requests : dom[q] = dom[r] => status[q] \notin Active
      BY DEF CInv, IInv, NoSiteNoRuns, Active
    <3>3. QED BY <2>2, <3>1, <3>2 DEF NewSite, args, Lifecycle!Enqueue, Lifecycle!Active, Active
  <2>3. CASE Insert(r)
    <3>1. status[r] = "none" BY <2>3 DEF Insert, CInv, IInv, NotYetInserted, Unreturned
    <3>2. QED BY <2>3, <3>1 DEF Insert, ActiveOn, args, Lifecycle!Enqueue, Lifecycle!Active, Active
  <2>4. QED BY <1>1, <2>1, <2>2, <2>3 DEF CreatePendingRun
<1>2. ASSUME NEW r \in Requests, CliExecute(r) PROVE Stays
  BY <1>2 DEF CliExecute, args
<1>3. ASSUME NEW w \in Workers, Work(w) \/ IdleStop(w) \/ SignalStop(w)
      PROVE  Stays \/ (\E r \in Requests : Lifecycle!Claim(r))
                   \/ \E R \in SUBSET Requests : Lifecycle!Fail(R)
  <2>1. CASE ReapCommit(w)
    <3>1. CASE \E r \in stuck[w] : status[r] = "gone"
      BY <2>1, <3>1 DEF ReapCommit, args
    <3>2. CASE ~ \E r \in stuck[w] : status[r] = "gone"
      <4>1. stuck[w] \in SUBSET Requests /\ \A r \in stuck[w] : status[r] = "running"
        BY <2>1, <3>2, <1>0 DEF ReapCommit, CInv, ReapExact, TypeOK
      <4>2. Lifecycle!Fail(stuck[w])
        BY <2>1, <3>2, <4>1 DEF ReapCommit, args, Lifecycle!Fail
      <4>3. QED BY <4>1, <4>2
    <3>3. QED BY <3>1, <3>2
  <2>2. CASE ClaimCommit(w)
    <3>1. run[w] \in Requests BY <2>2, <1>0 DEF ClaimCommit, TypeOK
    <3>2. status[run[w]] = "pending"
      BY <2>2, <3>1 DEF ClaimCommit, CInv, IInv, ClaimStillPending
    <3>3. Lifecycle!Claim(run[w]) BY <2>2, <3>2 DEF ClaimCommit, args, Lifecycle!Claim
    <3>4. QED BY <3>1, <3>3
  <2>3. CASE Acquire(w) \/ ReapSelect(w) \/ ClaimSelect(w) \/ FindNothing(w) \/ Sleep(w)
    BY <2>3 DEF Acquire, ReapSelect, ClaimSelect, FindNothing, Sleep, args
  <2>4. CASE Email(w) \/ EmailFails(w) \/ IdleStop(w) \/ SignalStop(w)
    BY <2>4 DEF Email, EmailFails, IdleStop, SignalStop, args
  <2>5. QED BY <1>3, <2>1, <2>2, <2>3, <2>4 DEF Work
<1>4. ASSUME NEW e \in Executors, ExecuteRun(e) \/ Crash(e)
      PROVE  Stays \/ (\E r \in Requests : Lifecycle!Complete(r))
                   \/ \E R \in SUBSET Requests : Lifecycle!Fail(R)
  <2> DEFINE r == run[e]
  <2>1. at[e] \in Executing => r \in Requests /\ status[r] \in {"running", "gone"}
    BY <1>0 DEF TypeOK, CInv, ExecutedIsRunning
  <2>2. CASE Start(e)
    <3>1. status' \in {status, [status EXCEPT ![r] = "running"]} BY <2>2 DEF Start
    <3>2. status[r] = "gone" => status' = status BY <2>2 DEF Start
    <3>3. r \in Requests /\ status[r] \in {"running", "gone"}
      BY <2>1, <2>2 DEF Start, Executing
    <3>4. status' = status
      <4>1. CASE status[r] = "running"
        <5>1. [status EXCEPT ![r] = "running"] = status BY <1>0, <4>1 DEF TypeOK
        <5>2. QED BY <3>1, <5>1
      <4>2. QED BY <3>2, <3>3, <4>1
    <3>5. QED BY <2>2, <3>4 DEF Start, args
  <2>3. CASE Finish(e)
    <3>1. at[e] = "results" /\ r \in Requests BY <2>1, <2>3 DEF Finish, Executing
    <3>2. status[r] = "running" BY <2>1, <3>1 DEF Executing, CInv, IInv, FlushedNotGone
    <3>3. Lifecycle!Complete(r) BY <2>3, <3>2 DEF Finish, args, Lifecycle!Complete
    <3>4. QED BY <3>1, <3>3
  <2>4. CASE Fail(e)
    <3>1. r \in Requests /\ status[r] \in {"running", "gone"} BY <2>1, <2>4 DEF Fail
    <3>2. CASE status[r] = "gone"
      <4>1. status' = status BY <1>0, <2>4, <3>1, <3>2 DEF Fail, TypeOK
      <4>2. QED BY <2>4, <4>1 DEF Fail, args
    <3>3. CASE status[r] = "running"
      <4>1. status' = [q \in Requests |-> IF q \in {r} THEN "failed" ELSE status[q]]
        BY <1>0, <2>4, <3>1, <3>3 DEF Fail, TypeOK
      <4>2. Lifecycle!Fail({r}) BY <2>4, <3>1, <3>3, <4>1 DEF Fail, args, Lifecycle!Fail
      <4>3. {r} \in SUBSET Requests BY <3>1
      <4>4. QED BY <4>2, <4>3
    <3>4. QED BY <3>1, <3>2, <3>3
  <2>5. CASE FlushPages(e) \/ CommitPages(e) \/ FlushResults(e) \/ FailUnrecorded(e) \/ Crash(e)
    BY <2>5 DEF FlushPages, CommitPages, FlushResults, FailUnrecorded, Crash, args
  <2>6. QED BY <1>4, <2>2, <2>3, <2>4, <2>5 DEF ExecuteRun
<1>5. ASSUME NEW d \in Domains, DeleteSite(d) PROVE Lifecycle!Drop(d)
  BY <1>5 DEF DeleteSite, args, Lifecycle!Drop
<1>6. CASE UNCHANGED vars
  BY <1>6 DEF vars, args, Lifecycle!vars
<1>7. QED
  BY <1>1, <1>2, <1>3, <1>4, <1>5, <1>6 DEF Next, Lifecycle!Next, Lifecycle!vars

\* The queue, with its races, restarts and deletions, implements the life cycle
\* its users are told of.
THEOREM Refinement == ASSUME WorkersOnly PROVE Spec => Lifecycle!Safety
<1>1. Init => Lifecycle!Init
  BY DEF Init, Lifecycle!Init
<1>2. CInv /\ [Next]_vars => [Lifecycle!Next]_(Lifecycle!vars)
  BY StepRefines
<1>3. QED BY <1>1, <1>2, CleanInvariance, PTL DEF Spec, Lifecycle!Safety

\* A run's status moves forward only.
LEMMA ForwardStep ==
  ASSUME CInv, [Next]_vars, WorkersOnly, NEW r \in Requests,
         status'[r] # status[r], status'[r] # "gone"
  PROVE  <<status[r], status'[r]>> \in
           {<<"none", "pending">>, <<"pending", "running">>,
            <<"running", "complete">>, <<"running", "failed">>}
<1>1. status \in [Requests -> Statuses] BY DEF CInv, IInv, TypeOK
<1>2. [Lifecycle!Next]_(Lifecycle!vars) BY StepRefines
<1>3. QED
  BY <1>1, <1>2
  DEF Lifecycle!Next, Lifecycle!vars, Lifecycle!Enqueue, Lifecycle!Claim, Lifecycle!Complete,
      Lifecycle!Fail, Lifecycle!Drop

\* Every run goes pending, running, then complete or failed, and never back.
THEOREM RunMovesForwardHolds == ASSUME WorkersOnly PROVE Spec => RunMovesForward
<1>1. CInv /\ [Next]_vars =>
        [\A r \in Requests :
           status'[r] # status[r] /\ status'[r] # "gone" =>
             <<status[r], status'[r]>> \in
               {<<"none", "pending">>, <<"pending", "running">>,
                <<"running", "complete">>, <<"running", "failed">>}]_vars
  BY ForwardStep
<1>2. QED BY <1>1, CleanInvariance, PTL DEF Spec, RunMovesForward

-----------------------------------------------------------------------------
(* Why a request is refused *)

Final == {"complete", "failed", "gone"}

\* A site that is there since a request inserted it: that request had found
\* none, and has returned its run.
SiteMade ==
    \A d \in Domains : site[d] \in Requests =>
        /\ dom[site[d]] = d /\ seen[site[d]] = NoSite
        /\ status[site[d]] # "none" /\ pc[site[d]] \notin Unreturned

\* The sites that requests found were there at the start or made like that, so
\* that a deleted site does not come back.
SeenMade == \A r \in Requests : seen[r] \in Requests => pc[seen[r]] \notin Unreturned

\* A site absent at the start is absent or made by a request.
FoundAbsent ==
    \A r \in Requests :
        /\ pc[r] = "newsite" => seen[r] = NoSite
        /\ pc[r] # "idle" /\ seen[r] = NoSite => site[dom[r]] # 0

\* The database refuses an insert for a deletion, or for another's active run.
ConflictHasCause ==
    \A r \in Requests : pc[r] = "conflict" =>
        \/ site[dom[r]] # seen[r]
        \/ \E q \in Requests \ {r} : dom[q] = dom[r] /\ status[q] # "none"

RefusalInv == SiteMade /\ SeenMade /\ FoundAbsent /\ ConflictHasCause /\ RefusedWasOvertaken

\* What every step does to runs.
LEMMA RunsGoOn ==
  ASSUME CInv, [Next]_vars, WorkersOnly, NEW q \in Requests
  PROVE  /\ status[q] # "none" => status'[q] # "none"
         /\ status[q] \in Final => status'[q] \in Final
  BY ForwardStep DEF Final

\* What a step that is not a request's does.
LEMMA OtherStep ==
  ASSUME CInv, [Next]_vars, WorkersOnly, ~\E r \in Requests : CreatePendingRun(r)
  PROVE  /\ UNCHANGED <<pc, seen, dom>>
         /\ \A d \in Domains : site'[d] = site[d] \/ site'[d] = NoSite
<1> USE DEF requestVars, args
<1>0. site \in [Domains -> Requests \cup {0, NoSite}] BY DEF CInv, IInv, TypeOK
<1>1. ASSUME NEW r \in Requests PROVE ~CliExecute(r)
  <2>1. kind[r] \in Kinds BY DEF CInv, IInv, TypeOK
  <2>2. QED BY <2>1 DEF CliExecute, WorkersOnly
<1>2. ASSUME NEW w \in Workers, Work(w) \/ IdleStop(w) \/ SignalStop(w)
      PROVE  UNCHANGED <<pc, seen, dom, site>>
  BY <1>2 DEF Work, Acquire, ReapSelect, ReapCommit, ClaimSelect, ClaimCommit, FindNothing,
              Sleep, Email, EmailFails, IdleStop, SignalStop
<1>3. ASSUME NEW e \in Executors, ExecuteRun(e) \/ Crash(e)
      PROVE  UNCHANGED <<pc, seen, dom, site>>
  BY <1>3 DEF ExecuteRun, Start, FlushPages, CommitPages, FlushResults, Finish, Fail,
              FailUnrecorded, Crash
<1>4. ASSUME NEW d \in Domains, DeleteSite(d)
      PROVE  UNCHANGED <<pc, seen, dom>> /\ site' = [site EXCEPT ![d] = NoSite]
  BY <1>4 DEF DeleteSite
<1>5. CASE UNCHANGED vars BY <1>5 DEF vars
<1>6. QED BY <1>0, <1>1, <1>2, <1>3, <1>4, <1>5 DEF Next

\* The steps of others leave the cause in place.
LEMMA OtherRefusal ==
  ASSUME CInv, RefusalInv, [Next]_vars, WorkersOnly, ~\E r \in Requests : CreatePendingRun(r)
  PROVE  RefusalInv'
<1> USE NumbersAreNotFlags
<1>1. /\ UNCHANGED <<pc, seen, dom>> /\ \A r \in Requests : dom[r] \in Domains
      /\ \A d \in Domains : site'[d] = site[d] \/ site'[d] = NoSite
  BY OtherStep DEF CInv, IInv, TypeOK
<1>2. \A q \in Requests : /\ status[q] # "none" => status'[q] # "none"
                          /\ status[q] \in Final => status'[q] \in Final
  BY RunsGoOn
<1>3. \A r \in Requests : pc[r] = "conflict" => seen[r] # NoSite BY DEF CInv, IInv, SeenASite
<1>4. SiteMade' BY <1>1, <1>2 DEF RefusalInv, SiteMade
<1>5. SeenMade' BY <1>1 DEF RefusalInv, SeenMade
<1>6. FoundAbsent' BY <1>1 DEF RefusalInv, FoundAbsent, NoSite
<1>7. ConflictHasCause' BY <1>1, <1>2, <1>3 DEF RefusalInv, ConflictHasCause
<1>8. RefusedWasOvertaken' BY <1>1, <1>2 DEF RefusalInv, RefusedWasOvertaken, Final
<1>9. QED BY <1>4, <1>5, <1>6, <1>7, <1>8 DEF RefusalInv

\* So do the steps of requests, and one that is refused has its cause.
LEMMA RequestRefusal ==
  ASSUME CInv, RefusalInv, [Next]_vars, WorkersOnly, NEW r \in Requests, CreatePendingRun(r)
  PROVE  RefusalInv'
<1> USE NumbersAreNotFlags
<1>0. /\ pc \in [Requests -> {"idle", "newsite", "check", "insert", "conflict", "done", "raised",
                              "executed"}]
      /\ seen \in [Requests -> Requests \cup {0, NoSite}] /\ dom' = dom
      /\ site \in [Domains -> Requests \cup {0, NoSite}] /\ dom[r] \in Domains
      /\ status \in [Requests -> Statuses]
      /\ \A q \in Requests : dom[q] \in Domains
  BY DEF CInv, IInv, TypeOK, CreatePendingRun, Lookup, NewSite, CheckActive, Insert, Reread, args
<1>1. \A q \in Requests : /\ status[q] # "none" => status'[q] # "none"
                          /\ status[q] \in Final => status'[q] \in Final
  BY RunsGoOn
<1>2. /\ pc[r] \in Unreturned /\ status[r] = "none"
      /\ \A q \in Requests : q # r => pc'[q] = pc[q] /\ seen'[q] = seen[q]
  BY <1>0 DEF CInv, IInv, NotYetInserted, Unreturned, CreatePendingRun, Lookup, NewSite,
              CheckActive, Insert, Reread, Return
<1>3. \A q \in Requests : pc[q] \in {"check", "insert", "conflict"} => seen[q] # NoSite
  BY DEF CInv, IInv, SeenASite
<1>4. CASE Lookup(r)
  <2>1. /\ seen'[r] = site[dom[r]] /\ site' = site
        /\ pc'[r] = IF site[dom[r]] = NoSite THEN "newsite" ELSE "check"
    BY <1>0, <1>4 DEF Lookup
  <2>2. SiteMade' BY <1>0, <1>1, <1>2, <2>1 DEF RefusalInv, SiteMade
  <2>3. SeenMade'
    <3>1. \A q \in Requests : pc[q] \notin Unreturned => pc'[q] \notin Unreturned
      BY <1>2
    <3>2. \A q \in Requests : q # r /\ seen[q] \in Requests => pc[seen[q]] \notin Unreturned
      BY DEF RefusalInv, SeenMade
    <3>3. site[dom[r]] \in Requests => pc[site[dom[r]]] \notin Unreturned
      BY <1>0 DEF RefusalInv, SiteMade
    <3>4. QED BY <1>2, <2>1, <3>1, <3>2, <3>3 DEF SeenMade
  <2>4. FoundAbsent' BY <1>0, <1>2, <2>1 DEF RefusalInv, FoundAbsent, NoSite
  <2>5. ConflictHasCause' BY <1>0, <1>1, <1>2, <2>1 DEF RefusalInv, ConflictHasCause
  <2>6. RefusedWasOvertaken'
    BY <1>0, <1>1, <1>2, <2>1 DEF RefusalInv, RefusedWasOvertaken, Final
  <2>7. QED BY <2>2, <2>3, <2>4, <2>5, <2>6 DEF RefusalInv
<1>5. CASE NewSite(r)
  <2>1. seen' = seen /\ seen[r] = NoSite
    BY <1>5 DEF NewSite, RefusalInv, FoundAbsent
  <2>2. CASE site[dom[r]] = NoSite
    <3>1. /\ site' = [site EXCEPT ![dom[r]] = r] /\ pc'[r] = "done" /\ status'[r] = "pending"
      BY <1>0, <1>5, <2>2 DEF NewSite, Return
    <3>2. \A q \in Requests : seen[q] # r
      BY <1>2 DEF RefusalInv, SeenMade
    <3>3. SiteMade'
      <4> SUFFICES ASSUME NEW d \in Domains, site'[d] \in Requests
                   PROVE  /\ dom[site'[d]] = d /\ seen[site'[d]] = NoSite
                          /\ status'[site'[d]] # "none" /\ pc'[site'[d]] \notin Unreturned
        BY <1>0, <2>1 DEF SiteMade
      <4>1. CASE d = dom[r] BY <1>0, <2>1, <3>1, <4>1 DEF Unreturned
      <4>2. CASE d # dom[r]
        <5>1. site'[d] = site[d] BY <1>0, <3>1, <4>2
        <5>2. /\ dom[site[d]] = d /\ seen[site[d]] = NoSite
              /\ status[site[d]] # "none" /\ pc[site[d]] \notin Unreturned
          BY <5>1 DEF RefusalInv, SiteMade
        <5>3. QED BY <1>1, <1>2, <5>1, <5>2
      <4>3. QED BY <4>1, <4>2
    <3>4. SeenMade' BY <1>0, <1>2, <2>1, <3>1 DEF RefusalInv, SeenMade, Unreturned
    <3>5. FoundAbsent' BY <1>0, <1>2, <2>1, <3>1 DEF RefusalInv, FoundAbsent
    <3>6. ConflictHasCause'
      BY <1>0, <1>1, <1>2, <2>1, <3>1, <3>2 DEF RefusalInv, ConflictHasCause
    <3>7. RefusedWasOvertaken'
      BY <1>0, <1>1, <1>2, <2>1, <3>1, <3>2 DEF RefusalInv, RefusedWasOvertaken, Final
    <3>8. QED BY <3>3, <3>4, <3>5, <3>6, <3>7 DEF RefusalInv
  <2>3. CASE site[dom[r]] # NoSite
    <3>1. site' = site /\ pc'[r] = "raised" /\ status' = status
      BY <1>0, <1>5, <2>3 DEF NewSite
    <3>2. PICK q \in Requests : q = site[dom[r]]
      BY <1>0, <1>5, <2>1, <2>3 DEF NewSite, RefusalInv, FoundAbsent
    <3>3. q # r /\ dom[q] = dom[r] /\ seen[q] = NoSite /\ status[q] # "none"
      BY <1>0, <1>2, <3>2 DEF RefusalInv, SiteMade
    <3>4. SiteMade' BY <1>0, <1>2, <2>1, <3>1 DEF RefusalInv, SiteMade
    <3>5. SeenMade' BY <1>0, <1>2, <2>1, <3>1 DEF RefusalInv, SeenMade, Unreturned
    <3>6. FoundAbsent'
      BY <1>0, <1>2, <1>5, <2>1, <3>1 DEF RefusalInv, FoundAbsent, NewSite
    <3>7. ConflictHasCause' BY <1>0, <1>2, <2>1, <3>1 DEF RefusalInv, ConflictHasCause
    <3>8. RefusedWasOvertaken'
      BY <1>0, <1>2, <2>1, <3>1, <3>3 DEF RefusalInv, RefusedWasOvertaken
    <3>9. QED BY <3>4, <3>5, <3>6, <3>7, <3>8 DEF RefusalInv
  <2>4. QED BY <2>2, <2>3
<1>6. ASSUME seen' = seen, site' = site, seen[r] # NoSite,
             pc'[r] \notin {"idle", "newsite"},
             pc'[r] = "conflict" =>
               \/ site[dom[r]] # seen[r]
               \/ \E q \in Requests \ {r} : dom[q] = dom[r] /\ status[q] # "none",
             pc'[r] = "raised" =>
               \/ site[dom[r]] # seen[r]
               \/ \E q \in Requests \ {r} : dom[q] = dom[r] /\ status[q] \in Final
      PROVE  RefusalInv'
  <2>1. SiteMade'
    <3> SUFFICES ASSUME NEW d \in Domains, site[d] \in Requests
                 PROVE  /\ dom[site[d]] = d /\ seen[site[d]] = NoSite
                        /\ status'[site[d]] # "none" /\ pc'[site[d]] \notin Unreturned
      BY <1>0, <1>6 DEF SiteMade
    <3>1. QED BY <1>1, <1>2 DEF RefusalInv, SiteMade
  <2>2. SeenMade' BY <1>0, <1>2, <1>6 DEF RefusalInv, SeenMade
  <2>3. FoundAbsent' BY <1>0, <1>2, <1>6 DEF RefusalInv, FoundAbsent
  <2>4. ConflictHasCause' BY <1>0, <1>1, <1>2, <1>6 DEF RefusalInv, ConflictHasCause
  <2>5. RefusedWasOvertaken'
    BY <1>0, <1>1, <1>2, <1>6 DEF RefusalInv, RefusedWasOvertaken, Final
  <2>6. QED BY <2>1, <2>2, <2>3, <2>4, <2>5 DEF RefusalInv
<1>7. CASE CheckActive(r)
  <2>1. /\ seen' = seen /\ site' = site /\ seen[r] # NoSite /\ pc'[r] \in {"done", "insert"}
    BY <1>0, <1>3, <1>7 DEF CheckActive, Return
  <2>2. QED BY <1>6, <2>1
<1>8. CASE Insert(r)
  <2>1. /\ seen' = seen /\ site' = site /\ seen[r] # NoSite /\ pc'[r] \in {"done", "conflict"}
        /\ pc'[r] = "conflict" => site[dom[r]] # seen[r] \/ ActiveOn(dom[r]) # {}
    BY <1>0, <1>3, <1>8 DEF Insert, Return
  <2>2. ActiveOn(dom[r]) # {} =>
          \E q \in Requests \ {r} : dom[q] = dom[r] /\ status[q] # "none"
    BY <1>2 DEF ActiveOn, Active
  <2>3. QED BY <1>6, <2>1, <2>2
<1>9. CASE Reread(r)
  <2>1. /\ seen' = seen /\ site' = site /\ seen[r] # NoSite /\ pc'[r] \in {"done", "raised"}
        /\ pc'[r] = "raised" => ActiveSeen(r) = {} /\ pc[r] = "conflict"
    BY <1>0, <1>3, <1>9 DEF Reread, Return
  <2>2. ASSUME ActiveSeen(r) = {}, pc[r] = "conflict", site[dom[r]] = seen[r]
        PROVE  \E q \in Requests \ {r} : dom[q] = dom[r] /\ status[q] \in Final
    <3>1. PICK q \in Requests \ {r} : dom[q] = dom[r] /\ status[q] # "none"
      BY <2>2 DEF RefusalInv, ConflictHasCause
    <3>2. status[q] \notin Active BY <2>2, <3>1 DEF ActiveSeen, ActiveOn
    <3>3. status[q] \in Final BY <1>0, <3>1, <3>2 DEF Active, Final, Statuses
    <3>4. QED BY <3>1, <3>3
  <2>3. QED BY <1>6, <2>1, <2>2
<1>10. QED BY <1>4, <1>5, <1>7, <1>8, <1>9 DEF CreatePendingRun

\* While only workers execute, a request is refused only for a race that it
\* lost: to another that made the site, to a run that ended, or to a deletion.
THEOREM RefusedHolds == ASSUME WorkersOnly PROVE Spec => []RefusedWasOvertaken
<1>1. Init => RefusalInv
  BY NumbersAreNotFlags
  DEF Init, RefusalInv, SiteMade, SeenMade, FoundAbsent, ConflictHasCause, RefusedWasOvertaken
<1>2. CInv /\ RefusalInv /\ [Next]_vars => RefusalInv'
  BY OtherRefusal, RequestRefusal
<1>3. RefusalInv => RefusedWasOvertaken BY DEF RefusalInv
<1>4. QED BY <1>1, <1>2, <1>3, CleanInvariance, PTL DEF Spec
=============================================================================
