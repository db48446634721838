------------------------ MODULE WorkerControlProofs ------------------------
(***************************************************************************)
(* Theorems of WorkerControl, and of Dispatch, whose workers are those of  *)
(* WorkerControl and look at a queue, for every value of their constants.  *)
(***************************************************************************)
EXTENDS Dispatch, TLAPS

\* Whoever has the handle is past acquire_single_instance and is the one the
\* kernel holds the lock for: nobody else takes or releases it.
Holder == \A p \in Procs : handle[p] => lock = p /\ at[p] \notin {"off", "boot"}

\* Two processes at the same time can not both have it.
ControlInv == ControlTypeOK /\ Holder

\* The initial state is well typed, and no process is there.
LEMMA ControlInitInv == ControlInit => ControlInv
  BY DEF ControlInit, ControlInv, ControlTypeOK, Holder, Stages, Absent

\* The dying process leaves both parts in order: its stage, its thread and its
\* hold on the lock end together.
LEMMA DieInv ==
  ASSUME ControlInv, NEW p \in Procs, Die(p), at[p] # "off",
         hb' = hb, call' = call, child' = child
  PROVE  ControlInv'
<1>1. ControlTypeOK' BY DEF ControlInv, ControlTypeOK, Die, Stages, Writers
<1>2. Holder' BY DEF ControlInv, ControlTypeOK, Holder, Die
<1>3. QED BY <1>1, <1>2 DEF ControlInv

\* The main thread of a worker keeps both parts, statement by statement.
LEMMA MainInv == ASSUME ControlInv, NEW p \in Procs, Main(p) PROVE ControlInv'
<1>1. CASE LoseLock(p) \/ Exit(p)
  BY <1>1, DieInv DEF LoseLock, Exit
<1>2. CASE TakeLock(p)
  <2>1. ControlTypeOK' BY <1>2 DEF ControlInv, ControlTypeOK, TakeLock, Step, Stages
  <2>2. \A q \in Procs : ~handle[q]
    BY <1>2, ControlAssumption DEF ControlInv, Holder, TakeLock
  <2>3. Holder' BY <1>2, <2>2 DEF ControlInv, ControlTypeOK, Holder, TakeLock, Step
  <2>4. QED BY <2>1, <2>3 DEF ControlInv
<1>3. CASE FirstBeatOpen(p)
  BY <1>3 DEF ControlInv, ControlTypeOK, Holder, FirstBeatOpen, OpenHeartbeat, Torn, Writers
<1>4. CASE FirstBeatWrite(p)
  <2>1. at' = [at EXCEPT ![p] = "reap"] /\ at[p] = "begin" /\ UNCHANGED <<lock, handle>>
    BY <1>4 DEF FirstBeatWrite, Step
  <2>2. Holder' BY <2>1 DEF ControlInv, ControlTypeOK, Holder
  <2>3. hb' \in [kind : {"absent", "torn", "beat"}, pid : Procs \cup {None}, fresh : BOOLEAN]
        /\ writing' \in [Writers -> {"no", "linked", "lost"}]
    BY <1>4 DEF ControlInv, ControlTypeOK, FirstBeatWrite, WriteHeartbeat, Beat, Writers
  <2>4. ControlTypeOK'
    BY <1>4, <2>1, <2>3 DEF ControlInv, ControlTypeOK, FirstBeatWrite, Stages
  <2>5. QED BY <2>2, <2>4 DEF ControlInv
<1>5. CASE Reaped(p)
  BY <1>5 DEF ControlInv, ControlTypeOK, Holder, Reaped, Step, Stages
<1>6. CASE ClearRead(p)
  BY <1>6 DEF ControlInv, ControlTypeOK, Holder, ClearRead, Step, Stages
<1>7. CASE Unlink(p)
  BY <1>7 DEF ControlInv, ControlTypeOK, Holder, Unlink, UnlinkHeartbeat, Absent, Step,
              Stages
<1>8. CASE Release(p)
  <2>1. \A q \in Procs : q # p /\ handle[q] => ~handle[p]
    BY DEF ControlInv, Holder
  <2>2. Holder' BY <1>8, <2>1 DEF ControlInv, ControlTypeOK, Holder, Release, Step
  <2>3. ControlTypeOK' BY <1>8 DEF ControlInv, ControlTypeOK, Release, Step, Stages
  <2>4. QED BY <2>2, <2>3 DEF ControlInv
<1>9. QED BY <1>1, <1>2, <1>3, <1>4, <1>5, <1>6, <1>7, <1>8 DEF Main

\* So do its heartbeat thread, the signals and the operating system.
LEMMA ProcInv ==
  ASSUME ControlInv, NEW p \in Procs,
         \/ BeatThread(p) \/ Leave(p) \/ Adopt(p)
         \/ EnterUnlocked(p) \/ ReapRaises(p) \/ Signal(p) \/ Kill(p)
  PROVE  ControlInv'
<1>1. CASE BeatOpen(p)
  BY <1>1 DEF ControlInv, ControlTypeOK, Holder, BeatOpen, OpenHeartbeat, Torn, Writers
<1>2. CASE BeatWrite(p)
  BY <1>2 DEF ControlInv, ControlTypeOK, Holder, BeatWrite, WriteHeartbeat, Beat, Writers
<1>3. CASE BeatEnd(p)
  BY <1>3 DEF ControlInv, ControlTypeOK, Holder, BeatEnd
<1>4. CASE Leave(p) \/ EnterUnlocked(p) \/ ReapRaises(p)
  BY <1>4 DEF ControlInv, ControlTypeOK, Holder, Leave, EnterUnlocked, ReapRaises, Step, Stages
<1>5. CASE Signal(p)
  BY <1>5 DEF ControlInv, ControlTypeOK, Holder, Signal
<1>6. CASE Kill(p)
  BY <1>6, DieInv DEF Kill, ControlInv, ControlTypeOK
<1>7. CASE Adopt(p)
  BY <1>7 DEF ControlInv, ControlTypeOK, Holder, Adopt
<1>8. QED BY <1>1, <1>2, <1>3, <1>4, <1>5, <1>6, <1>7 DEF BeatThread

\* ensure_worker starts processes, which boot without the lock, and writes the
\* heartbeat.
LEMMA ClientInv ==
  ASSUME ControlInv, NEW c \in Clients, Call(c) \/ EnsureWorker(c) \/ SpawnFails(c)
  PROVE  ControlInv'
<1>1. CASE Call(c) \/ Check(c) \/ SpawnFails(c)
  BY <1>1 DEF ControlInv, ControlTypeOK, Holder, Call, Check, SpawnFails
<1>2. CASE Spawn(c)
  <2>1. PICK p \in Procs :
          /\ Unused(p)
          /\ life' = [q \in Procs |-> IF q = p THEN "alive"
                                      ELSE IF life[q] = "zombie" THEN "none" ELSE life[q]]
          /\ at' = [at EXCEPT ![p] = "boot"]
          /\ child' = [child EXCEPT ![c] = p]
    BY <1>2 DEF Spawn
  <2>2. Holder'
    <3>1. at[p] = "off" BY <2>1 DEF Unused, ControlInv, ControlTypeOK
    <3>2. ~handle[p] BY <3>1 DEF ControlInv, Holder
    <3>3. QED BY <1>2, <2>1, <3>2 DEF Spawn, ControlInv, ControlTypeOK, Holder
  <2>3. \A q \in Procs : life'[q] = "alive" <=> at'[q] # "off"
    BY <2>1 DEF ControlInv, ControlTypeOK
  <2>4. \A q \in Procs : beating'[q] => life'[q] = "alive"
    BY <1>2, <2>1 DEF Spawn, ControlInv, ControlTypeOK
  <2>5. ControlTypeOK'
    BY <1>2, <2>1, <2>3, <2>4 DEF Spawn, ControlInv, ControlTypeOK, Stages
  <2>6. QED BY <2>2, <2>5 DEF ControlInv
<1>3. CASE ClaimOpen(c)
  BY <1>3 DEF ControlInv, ControlTypeOK, Holder, ClaimOpen, OpenHeartbeat, Torn, Writers
<1>4. CASE ClaimWrite(c)
  BY <1>4 DEF ControlInv, ControlTypeOK, Holder, ClaimWrite, WriteHeartbeat, Beat, Writers
<1>5. QED BY <1>1, <1>2, <1>3, <1>4 DEF EnsureWorker

\* Every step keeps the type and the lock's holder.
LEMMA ControlStep == ASSUME ControlInv, [ControlNext]_ctlVars PROVE ControlInv'
<1>1. CASE Expire
  BY <1>1 DEF ControlInv, ControlTypeOK, Holder, Expire
<1>2. CASE UNCHANGED ctlVars
  BY <1>2 DEF ControlInv, ControlTypeOK, Holder, ctlVars
<1>3. QED BY <1>1, <1>2, MainInv, ProcInv, ClientInv DEF ControlNext

\* Every state of every execution is well typed, and whoever has the handle is
\* past acquire_single_instance and has the kernel's lock.
THEOREM ControlInvariance == ControlSpec => []ControlInv
<1>1. QED BY ControlInitInv, ControlStep, PTL DEF ControlSpec, ControlSafety

\* The type invariant, for any number of processes and requests.
THEOREM ControlTypeCorrect == ControlSpec => []ControlTypeOK
<1>1. ControlInv => ControlTypeOK BY DEF ControlInv
<1>2. QED BY <1>1, ControlInvariance, PTL

\* However many workers are spawned at once, one at most has the lock until it
\* gives it up: the heartbeat, torn, stale or another's, has no part in it, and a
\* worker that could not open the lock file does not take it from the one that
\* could, nor release it on its way out.
THEOREM OneWorkerHolds == ControlSpec => []OneWorker
<1>1. ControlInv => OneWorker
  BY DEF ControlInv, Holder, OneWorker
<1>2. QED BY <1>1, ControlInvariance, PTL

(***************************************************************************)
(* Dispatch: the same processes with the queue                             *)
(***************************************************************************)
\* Only a worker that serves has looked at the queue, and what is pending was
\* queued.
DispatchInv ==
    /\ ControlInv
    /\ queued \in 0..MaxRuns /\ pending \in 0..queued
    /\ sawEmpty \in [Procs -> BOOLEAN]
    /\ \A p \in Procs : sawEmpty[p] => at[p] = "serve"

\* A step of the dispatch is a step of the processes, or none of theirs.
LEMMA DispatchStep == ASSUME [Next]_vars PROVE [ControlNext]_ctlVars
<1>1. CASE \E c \in Clients : Submit(c) \/ StartWorker(c)
  BY <1>1 DEF Submit, StartWorker, ControlNext
<1>2. CASE \E p \in Procs : Loop(p)
  BY <1>2 DEF Loop, ProcessOne, ProcessNone, Wait, StopLeave, ControlNext
<1>3. CASE \E p \in Procs : IdleLeave(p) \/ Killed(p)
  BY <1>3 DEF IdleLeave, Killed, ControlNext
<1>4. CASE Control BY <1>4 DEF Control, ControlNext
<1>5. CASE UNCHANGED vars BY <1>5 DEF vars
<1>6. QED BY <1>1, <1>2, <1>3, <1>4, <1>5 DEF Next

\* The initial state has nothing queued and nobody who looked.
LEMMA DispatchInit == Init => DispatchInv
  BY ControlInitInv, DispatchAssumption DEF Init, DispatchInv

\* A step away from "serve" is one of Leave or of the process's death.
LEMMA ServeLeft ==
  ASSUME ControlInv, NEW p \in Procs, at[p] = "serve", Control
  PROVE  at'[p] = "serve"
<1> at \in [Procs -> Stages] BY DEF ControlInv, ControlTypeOK
<1>1. ASSUME NEW q \in Procs, Main(q) PROVE at'[p] = "serve"
  <2>1. CASE TakeLock(q) \/ FirstBeatWrite(q) \/ Reaped(q) \/ Release(q)
    BY <2>1 DEF TakeLock, FirstBeatWrite, Reaped, Release, Step
  <2>2. CASE LoseLock(q) \/ Exit(q) BY <2>2 DEF LoseLock, Exit, Die
  <2>3. CASE FirstBeatOpen(q) BY <2>3 DEF FirstBeatOpen
  <2>4. CASE ClearRead(q) BY <2>4 DEF ClearRead, Step
  <2>5. CASE Unlink(q) BY <2>5 DEF Unlink, Step
  <2>6. QED BY <1>1, <2>1, <2>2, <2>3, <2>4, <2>5 DEF Main
<1>2. ASSUME NEW q \in Procs,
             BeatThread(q) \/ Adopt(q) \/ EnterUnlocked(q) \/ ReapRaises(q) \/ Signal(q)
      PROVE  at'[p] = "serve"
  BY <1>2 DEF BeatThread, BeatOpen, BeatWrite, BeatEnd, Adopt, EnterUnlocked, ReapRaises,
              Signal, Step
<1>3. ASSUME NEW c \in Clients, EnsureWorker(c) \/ SpawnFails(c)
      PROVE  at'[p] = "serve"
  <2>1. CASE Spawn(c)
    <3>1. PICK q \in Procs : life[q] = "none" /\ at' = [at EXCEPT ![q] = "boot"]
      BY <2>1 DEF Spawn, Unused
    <3>2. q # p BY <3>1 DEF ControlInv, ControlTypeOK
    <3>3. QED BY <3>1, <3>2
  <2>2. CASE ~Spawn(c)
    BY <1>3, <2>2 DEF EnsureWorker, Check, ClaimOpen, ClaimWrite, SpawnFails
  <2>3. QED BY <2>1, <2>2
<1>4. CASE Expire BY <1>4 DEF Expire
<1>5. QED BY <1>1, <1>2, <1>3, <1>4 DEF Control

\* Every step keeps the queue's counts, and who has looked.
LEMMA DispatchInvStep == ASSUME DispatchInv, [Next]_vars PROVE DispatchInv'
<1>1. ControlInv' BY DispatchStep, ControlStep DEF DispatchInv
<1>2. ASSUME NEW c \in Clients, Submit(c) \/ StartWorker(c) PROVE DispatchInv'
  <2>1. at' = at BY <1>2 DEF Submit, StartWorker, Call
  <2>2. QED BY <1>1, <1>2, <2>1, DispatchAssumption DEF Submit, StartWorker, DispatchInv
<1>3. ASSUME NEW p \in Procs, ProcessOne(p) \/ ProcessNone(p) \/ Wait(p) PROVE DispatchInv'
  <2>1. at' = at BY <1>3 DEF ProcessOne, ProcessNone, Wait, ctlVars
  <2>2. queued' = queued /\ pending' \in 0..queued
    BY <1>3, DispatchAssumption DEF ProcessOne, ProcessNone, Wait, DispatchInv
  <2>3. /\ sawEmpty' \in [Procs -> BOOLEAN]
        /\ \A q \in Procs : sawEmpty'[q] => sawEmpty[q] \/ at[q] = "serve"
    BY <1>3 DEF ProcessOne, ProcessNone, Wait, DispatchInv
  <2>4. QED BY <1>1, <2>1, <2>2, <2>3 DEF DispatchInv
<1>4. ASSUME NEW p \in Procs, StopLeave(p) \/ IdleLeave(p) \/ Killed(p) PROVE DispatchInv'
  <2>1. \E to \in Stages : at' = [at EXCEPT ![p] = to]
    BY <1>4 DEF StopLeave, IdleLeave, Killed, Leave, Kill, Die, Step, Stages
  <2>2. ~sawEmpty'[p] /\ sawEmpty' \in [Procs -> BOOLEAN]
        /\ \A q \in Procs : q # p => sawEmpty'[q] = sawEmpty[q]
    BY <1>4 DEF StopLeave, IdleLeave, Killed, DispatchInv
  <2>3. UNCHANGED <<pending, queued>> BY <1>4 DEF StopLeave, IdleLeave, Killed
  <2>4. at \in [Procs -> Stages] BY DEF DispatchInv, ControlInv, ControlTypeOK
  <2>5. \A q \in Procs : q # p => at'[q] = at[q] BY <2>1, <2>4
  <2>6. \A q \in Procs : sawEmpty'[q] => at'[q] = "serve" BY <2>2, <2>5 DEF DispatchInv
  <2>7. QED BY <1>1, <2>2, <2>3, <2>6 DEF DispatchInv
<1>5. CASE Control
  BY <1>1, <1>5, ServeLeft DEF Control, Aside, DispatchInv
<1>6. CASE UNCHANGED vars BY <1>1, <1>6 DEF vars, ctlVars, DispatchInv
<1>7. QED BY <1>2, <1>3, <1>4, <1>5, <1>6 DEF Next, Loop

\* The workers of the dispatch are workers: the queue adds no step to what they
\* do with the lock, the heartbeat and the pids.
THEOREM DispatchKeepsControl == Spec => ControlSafety
<1>1. Init => ControlInit BY DEF Init
<1>2. [Next]_vars => [ControlNext]_ctlVars BY DispatchStep
<1>3. QED BY <1>1, <1>2, PTL DEF Spec, ControlSafety

\* Of the workers that look at the queue, one at most has the lock: a run is
\* claimed beside it only by a worker whose lock file did not open.
THEOREM DispatchOneWorker == Spec => [](DispatchInv /\ OneWorker)
<1>1. DispatchInv => OneWorker
  BY DEF DispatchInv, ControlInv, Holder, OneWorker
<1>2. Init => DispatchInv BY DispatchInit
<1>3. DispatchInv /\ [Next]_vars => DispatchInv' BY DispatchInvStep
<1>4. QED BY <1>1, <1>2, <1>3, PTL DEF Spec
=============================================================================
