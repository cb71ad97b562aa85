-------------------------- MODULE TaskRunsEndProofs --------------------------
(***************************************************************************)
(* On one host, a task that has ended stays as it is: no pass, settlement  *)
(* or continuation writes over its outcome.                                *)
(*                                                                         *)
(* Few writes look at the row.  A landing reads it once, and only for a    *)
(* cancellation; the outcome, the re-arm and the pause are unconditional.  *)
(* What makes them safe is who else can be about to write:                 *)
(*   - a run of the batch fenced its claim, so it is the last one, and     *)
(*     nobody settled it;                                                  *)
(*   - a settlement lists rows, fences them and writes without awaiting;   *)
(*   - a continuation has its parked turn alone, and a one-time task has   *)
(*     one parked turn at most, because it is claimed once.                *)
(*                                                                         *)
(* Four features of the scheduler break it, and are left out: the two      *)
(* refusals at the top of a run and the skipped slot write a row they did  *)
(* not read again, and a continuation that raises puts the row back to     *)
(* waiting.  So do the interrupts "pause" and "resume".                    *)
(***************************************************************************)
EXTENDS TaskRunsTurnProofs

PlainTasks ==
    /\ Skipping = {} /\ Orphans = {} /\ GoalSteps = {}
    /\ ~ContinuationsMayBlock /\ NoOwnerWrites

\* While a host's start settles what its last run left, nobody else works.
StartingAlone ==
    \A w \in Workers : stage[w] \in {"running", "continuing"} /\ pc[w] # "idle"
                          => \A v \in Workers \ {w} : pc[v] = "idle"

\* Between the read of the row and the write, a landing is not of a cancelled row.
NotCancelled(t) ==
    \A w \in Workers : pc[w] \in {"fence", "count", "pause", "rearm"} /\ cur[w].task = t
                          => status[t] # "cancelled"

\* Whoever has the current claim of a routine, or fenced it, has a row that runs.
Licensed(w, t) == HoldsClaimOf(w, t) \/ (WorksOn(w, t) /\ key[w] # 0)
LicenseInv(t) ==
    (\E w \in Workers : Licensed(w, t)) => status[t] \in {"running", "cancelled"}

----------------------------------------------------------------------------
\* A coroutine advances when it holds the loop, and begins when nobody does.
Begins(w) ==
    \/ AnyTurnEnds(w) \/ RenewLease(w) \/ ContinuationBlocked(w)
    \/ StartSweep(w) \/ (\E t \in Tasks : StartRetry(w, t)) \/ StartPass(w)

LEMMA Stepping ==
  ASSUME NEW w \in Workers, WorkerStep(w)
  PROVE  \/ Advance(w) /\ Holds(w)
         \/ Begins(w) /\ Free(HostOf[w])
         \/ JobsGetLate(w)
         \/ \E k \in Hosts : StartHost(k, w)
<1>1. ASSUME Advance(w) PROVE Holds(w)
  <2>1. CASE Settles(w) \/ Claims(w)
    BY <2>1 DEF Settles, SettleNext, NextList, HostStarted, Claims, PassHeld, ClaimDue
  <2>2. CASE Walks(w)
    BY <2>2 DEF Walks, BatchDone, SkipMissed, RefuseOrphan, RefuseGoalStep, StartTurn
  <2>3. CASE Sweeps(w)
    BY <2>3 DEF Sweeps, SweepDone, LeaveParked, ContinueParked, TurnTaken
  <2>4. CASE Lands(w)
    BY <2>4 DEF Lands, Load, FenceClaim, CountCycle, PauseRoutine, Rearm, WriteOutcome
  <2> QED BY <1>1, <2>1, <2>2, <2>3, <2>4 DEF Advance
<1>2. ASSUME Begins(w) PROVE Free(HostOf[w])
  BY <1>2 DEF Begins, AnyTurnEnds, TurnEnds, RenewLease, ContinuationBlocked, StartSweep, StartRetry, StartPass
<1> QED BY <1>1, <1>2 DEF WorkerStep, Begins

\* A coroutine that advances does not come to a host's start, and does not leave idleness.
LEMMA AdvanceStage ==
  ASSUME TypeOK, NEW w \in Workers, Advance(w), stage'[w] \in {"running", "continuing"}
  PROVE  stage[w] \in {"running", "continuing"} /\ pc[w] # "idle"
<1>1. CASE Settles(w)
  BY <1>1 DEF Settles, SettleNext, NextList, HostStarted, TypeOK
<1>2. CASE Claims(w)
  BY <1>2 DEF Claims, PassHeld, ClaimDue, TypeOK
<1>3. CASE Walks(w)
  BY <1>3 DEF Walks, BatchDone, SkipMissed, RefuseOrphan, RefuseGoalStep, StartTurn
<1>4. CASE Sweeps(w)
  BY <1>4 DEF Sweeps, SweepDone, LeaveParked, ContinueParked, TurnTaken
<1>5. CASE Lands(w)
  BY <1>5 DEF Lands, Load, FenceClaim, CountCycle, PauseRoutine, Rearm, WriteOutcome, Return
<1> QED BY <1>1, <1>2, <1>3, <1>4, <1>5 DEF Advance

LEMMA StartingStep ==
  ASSUME TypeOK, Loop, StageInv, HandInv, NEW h, Hosts = {h}, StartingAlone, [Next]_vars
  PROVE  StartingAlone'
<1>h. \A v \in Workers : HostOf[v] = h
  BY WorkerSets
<1>1. ASSUME NEW w \in Workers, WorkerStep(w) PROVE StartingAlone'
  <2>a. Alone(w)
    BY <1>1, StepAlone
  <2>1. CASE \E k \in Hosts : StartHost(k, w)
    <3>1. \A v \in Workers : pc[v] = "idle"
      BY <1>h, <2>1 DEF StartHost, HandInv, HandOK
    <3> QED BY <2>a, <3>1 DEF StartingAlone, Alone, Same
  <2>2. CASE Advance(w) /\ Holds(w)
    <3>1. \A v \in Workers \ {w} : stage[v] \in {"running", "continuing"} => pc[v] = "idle"
      BY <2>2, LoneRunner DEF StageInv, StageOK
    <3> QED BY <2>2, <2>a, <3>1, AdvanceStage DEF StartingAlone, Alone, Same
  <2>3. CASE Begins(w) /\ Free(HostOf[w])
    <3>1. \A v \in Workers : pc[v] \in {"idle", "turn"}
      BY <1>h, <2>3, NoRunner DEF Free
    <3>2. \A v \in Workers : stage[v] \in {"running", "continuing"} => pc[v] = "idle"
      BY <3>1 DEF StageInv, StageOK
    <3>3. stage'[w] \notin {"running", "continuing"}
      BY <2>3, <3>2
      DEF Begins, AnyTurnEnds, TurnEnds, RenewLease, ContinuationBlocked, StartSweep, StartRetry, StartPass, TypeOK
    <3> QED BY <2>a, <3>2, <3>3 DEF StartingAlone, Alone, Same
  <2>4. CASE JobsGetLate(w)
    BY <2>4, <2>a DEF JobsGetLate, StartingAlone, Alone, Same
  <2> QED BY <1>1, <2>1, <2>2, <2>3, <2>4, Stepping
<1>2. ASSUME NEW k \in Hosts, Crash(k) PROVE StartingAlone'
  BY <1>2, <1>h DEF Crash, StartingAlone
<1>3. ASSUME UNCHANGED workVars PROVE StartingAlone'
  BY <1>3 DEF workVars, StartingAlone
<1>4. CASE Aside
  BY <1>3, <1>4 DEF Aside, Owner, Interrupt, RunNow, ContinueRoutine, TabContinues, HoldHost, ReleaseHost,
       SlotComes, LeaseLapses, vars
<1> QED BY <1>1, <1>2, <1>4, NextSplit DEF Aside


\* The row is read back after the turn, and the loop is held from there to the write.
LEMMA CheckedStep ==
  ASSUME TypeOK, Loop, HandInv, PlainTasks, NEW h, Hosts = {h}, [Next]_vars,
         NEW t \in Tasks, NotCancelled(t)
  PROVE  NotCancelled(t)'
<1>h. \A v \in Workers : HostOf[v] = h
  BY WorkerSets
<1> DEFINE Checked == {"fence", "count", "pause", "rearm"}
<1>1. ASSUME NEW w \in Workers, WorkerStep(w) PROVE NotCancelled(t)'
  <2>a. Alone(w)
    BY <1>1, StepAlone
  <2>0. ASSUME \A v \in Workers \ {w} : pc[v] \notin Checked,
               pc'[w] \in Checked /\ cur'[w].task = t => status'[t] # "cancelled"
        PROVE  NotCancelled(t)'
    BY <2>0, <2>a DEF NotCancelled, Alone, Same
  <2>1. CASE Advance(w) /\ Holds(w)
    <3>0. \A v \in Workers \ {w} : pc[v] \notin Checked
      BY <2>1, LoneRunner
    <3>1. ASSUME Settles(w) \/ Claims(w) \/ Sweeps(w) PROVE pc'[w] \notin Checked
      BY <2>1, <3>1 DEF Settles, SettleNext, NextList, HostStarted, Claims, PassHeld, ClaimDue,
           Sweeps, SweepDone, LeaveParked, ContinueParked, TurnTaken, Goto, TypeOK
    <3>2. ASSUME Walks(w) PROVE pc'[w] \notin Checked
      BY <3>2 DEF Walks, BatchDone, SkipMissed, RefuseOrphan, RefuseGoalStep, StartTurn,
           Skips, PlainTasks, Goto, TypeOK
    <3>3. ASSUME Lands(w), pc'[w] \in Checked, cur'[w].task = t PROVE status'[t] # "cancelled"
      <4>1. ~Return(w)
        BY <3>3, ReturnAlone DEF Return, Goto, TypeOK
      <4>2. CASE Load(w)
        BY <3>3, <4>1, <4>2 DEF Load, taskVars
      <4>3. CASE FenceClaim(w) \/ CountCycle(w)
        BY <3>3, <4>1, <4>3 DEF FenceClaim, CountCycle, NotCancelled
      <4> QED BY <3>3, <4>1, <4>2, <4>3 DEF Lands, PauseRoutine, Rearm, WriteOutcome
    <3> QED BY <2>0, <2>1, <3>0, <3>1, <3>2, <3>3 DEF Advance
  <2>2. CASE Begins(w) /\ Free(HostOf[w])
    <3>1. \A v \in Workers : pc[v] \in {"idle", "turn"}
      BY <1>h, <2>2, NoRunner DEF Free
    <3>2. pc'[w] \notin Checked
      BY <2>2, <3>1 DEF Begins, AnyTurnEnds, TurnEnds, RenewLease, ContinuationBlocked,
           StartSweep, StartRetry, StartPass, Goto, TypeOK
    <3> QED BY <2>0, <3>1, <3>2
  <2>3. CASE JobsGetLate(w)
    BY <2>3 DEF JobsGetLate, NotCancelled, taskVars
  <2>4. CASE \E k \in Hosts : StartHost(k, w)
    <3>1. \A v \in Workers : pc[v] = "idle"
      BY <1>h, <2>4 DEF StartHost, HandInv, HandOK
    <3>2. pc'[w] \notin Checked
      BY <2>4 DEF StartHost, Goto, TypeOK
    <3> QED BY <2>0, <3>1, <3>2
  <2> QED BY <1>1, <2>1, <2>2, <2>3, <2>4, Stepping
<1>2. ASSUME NEW k \in Hosts, Crash(k) PROVE NotCancelled(t)'
  BY <1>2, <1>h DEF Crash, NotCancelled
<1>3. CASE Aside
  <2>1. UNCHANGED workVars
    BY <1>3 DEF Aside, Owner, Interrupt, RunNow, ContinueRoutine, TabContinues, HoldHost, ReleaseHost,
         SlotComes, LeaseLapses, vars
  <2>2. ASSUME NEW u \in Tasks, NEW a \in OwnerActions, Interrupt(u, a)
        PROVE  \A v \in Workers : pc[v] \notin Checked
    BY <2>2, NoRunner DEF Interrupt, SomeHostServes, Free
  <2>3. CASE \E u \in Tasks, a \in OwnerActions : Interrupt(u, a)
    BY <2>1, <2>2, <2>3 DEF NotCancelled, workVars
  <2>4. status'[t] = "cancelled" => status[t] = "cancelled" \/ \E u \in Tasks, a \in OwnerActions : Interrupt(u, a)
    BY <1>3 DEF Aside, Owner, RunNow, ContinueRoutine, TabContinues, HoldHost, ReleaseHost,
         SlotComes, LeaseLapses, vars, taskVars, TypeOK
  <2> QED BY <2>1, <2>3, <2>4 DEF NotCancelled, workVars
<1> QED BY <1>1, <1>2, <1>3, NextSplit DEF Aside

----------------------------------------------------------------------------
(***************************************************************************)
(* Routines.                                                               *)
(***************************************************************************)
LEMMA LicenceKept ==
  ASSUME NEW t \in Tasks, LicenseInv(t), NEW w \in Workers, Alone(w),
         status'[t] = status[t] \/ status'[t] \in {"running", "cancelled"},
         gen'[t] = gen[t] \/ Licensed(w, t),
         Licensed(w, t)' => Licensed(w, t)
  PROVE  LicenseInv(t)'
<1>1. CASE Licensed(w, t)
  BY <1>1 DEF LicenseInv
<1>2. CASE gen'[t] = gen[t]
  <2>1. \A v \in Workers \ {w} : Licensed(v, t)' <=> Licensed(v, t)
    BY <1>2 DEF Alone, Same, Licensed, HoldsClaimOf, WorksOn
  <2> QED BY <2>1 DEF LicenseInv
<1> QED BY <1>1, <1>2

\* What a coroutine does with the licence it has.
LEMMA LicenceStep ==
  ASSUME TypeOK, Keys, Loop, StageInv, PlainTasks, NEW h, Hosts = {h},
         NEW t \in Routines, RoutineInv(t), LicenseInv(t),
         NEW w \in Workers, WorkerStep(w)
  PROVE  LicenseInv(t)'
<1>t. t \in Tasks
  BY TaskSets
<1>a. Alone(w)
  BY StepAlone
<1>i. RowInv(t) /\ WorkerInv(w, t) /\ StageOK(w)
  BY DEF RoutineInv, StageInv
<1>y. \A v \in Workers : pc[v] \in {"idle", "settle", "batch", "sweep", "turn"} => key[v] = 0
  BY DEF Keys, KeyInLanding, Landing
<1>j. \A j \in jobs[w] : j \in Job
  BY DEF TypeOK
<1>r. ASSUME NEW S \in SUBSET Tasks, jobs'[w] = Read(S), t \in S => status[t] = "running",
             pc'[w] = "settle", UNCHANGED <<status, gen>>
      PROVE  LicenseInv(t)'
  <2>1. CASE t \in S
    BY <1>r, <2>1 DEF LicenseInv
  <2>2. CASE t \notin S
    <3>1. ~Licensed(w, t)'
      BY <1>r, <2>2 DEF Licensed, HoldsClaimOf, WorksOn, Working, Read
    <3> QED BY <1>a, <1>r, <1>t, <3>1, LicenceKept
  <2> QED BY <2>1, <2>2
<1>k. ASSUME status'[t] = status[t] \/ status'[t] \in {"running", "cancelled"},
             gen'[t] = gen[t] \/ Licensed(w, t), Licensed(w, t)' => Licensed(w, t)
      PROVE  LicenseInv(t)'
  BY <1>a, <1>k, <1>t, LicenceKept
<1>n. ASSUME Return(w), status'[t] = status[t] \/ status'[t] \in {"running", "cancelled"}, gen' = gen
      PROVE  LicenseInv(t)'
  <2>1. pc'[w] \notin Working /\ jobs' = jobs
    BY <1>n, ReturnAlone
  <2>2. Licensed(w, t)' => Licensed(w, t)
    BY <1>n, <2>1 DEF Licensed, HoldsClaimOf, WorksOn, Working
  <2> QED BY <1>k, <1>n, <2>2
<1>1. CASE Settles(w)
  <2>1. ASSUME NEW j \in jobs[w], SettleNext(w, j) PROVE LicenseInv(t)'
    <3>1. /\ jobs'[w] \subseteq jobs[w] /\ status' = status /\ pc[w] = "settle"
          /\ (Fence(j.task, j.claim) /\ pc'[w] = "load" /\ cur'[w] = j)
             \/ (gen' = gen /\ pc' = pc)
      BY <2>1 DEF SettleNext, Goto, FenceLost, TypeOK
    <3>2. CASE Fence(j.task, j.claim) /\ j.task = t
      <4>1. Licensed(w, t)
        BY <3>2 DEF Licensed, HoldsClaimOf, Fence, HoldsClaim
      <4> QED BY <1>k, <3>1, <4>1
    <3>3. CASE ~(Fence(j.task, j.claim) /\ j.task = t)
      <4>1. gen'[t] = gen[t]
        BY <1>j, <1>t, <3>1, <3>3 DEF Fence, TypeOK
      <4>2. Licensed(w, t)' => Licensed(w, t)
        BY <3>1, <3>3, <4>1 DEF Licensed, HoldsClaimOf, WorksOn, Working
      <4> QED BY <1>k, <3>1, <4>1, <4>2
    <3> QED BY <3>2, <3>3
  <2>2. CASE NextList(w)
    <3>1. jobs'[w] = Read(InStatus("continuing")) /\ pc'[w] = "settle" /\ UNCHANGED <<status, gen>>
      BY <2>2 DEF NextList, TypeOK, taskVars
    <3>2. InStatus("continuing") \in SUBSET Tasks /\ t \notin InStatus("continuing")
      BY <1>i DEF InStatus, RowInv
    <3> QED BY <1>r, <3>1, <3>2
  <2>3. CASE HostStarted(w)
    <3>1. ~Licensed(w, t)' /\ status' = status /\ gen' = gen
      BY <2>3 DEF HostStarted, Licensed, HoldsClaimOf, WorksOn, Working, Goto, TypeOK, taskVars
    <3> QED BY <1>k, <3>1
  <2> QED BY <1>1, <2>1, <2>2, <2>3 DEF Settles
<1>2. CASE Claims(w)
  <2>1. CASE PassHeld(w)
    <3>1. ~Licensed(w, t)' /\ status' = status /\ gen' = gen
      BY <2>1 DEF PassHeld, Licensed, HoldsClaimOf, WorksOn, Working, Goto, TypeOK, taskVars
    <3> QED BY <1>k, <3>1
  <2>2. ASSUME NEW S \in SUBSET Due, ClaimDue(w, S) PROVE LicenseInv(t)'
    <3>1. CASE t \in S
      BY <1>t, <2>2, <3>1 DEF ClaimDue, LicenseInv
    <3>2. CASE t \notin S
      <4>1. gen'[t] = gen[t] /\ status'[t] = status[t] /\ ~Licensed(w, t)'
        BY <1>t, <2>2, <3>2 DEF ClaimDue, Licensed, HoldsClaimOf, WorksOn, Working, Goto, TypeOK
      <4> QED BY <1>k, <4>1
    <3> QED BY <3>1, <3>2
  <2> QED BY <1>2, <2>1, <2>2 DEF Claims
<1>3. CASE Walks(w)
  <2>1. CASE BatchDone(w)
    <3>1. ~Licensed(w, t)' /\ status' = status /\ gen' = gen
      BY <2>1 DEF BatchDone, Licensed, HoldsClaimOf, WorksOn, Working, Goto, TypeOK, taskVars
    <3> QED BY <1>k, <3>1
  <2>2. ASSUME NEW j \in jobs[w], StartTurn(w, j) PROVE LicenseInv(t)'
    <3>1. /\ jobs'[w] = jobs[w] \ {j} /\ cur'[w] = j /\ pc'[w] = "turn" /\ UNCHANGED <<status, gen, key>>
          /\ pc[w] = "batch"
      BY <2>2 DEF StartTurn, Goto, TypeOK, taskVars
    <3>2. key'[w] = 0
      BY <1>y, <3>1
    <3>3. Licensed(w, t)' => Licensed(w, t)
      BY <3>1, <3>2 DEF Licensed, HoldsClaimOf
    <3> QED BY <1>k, <3>1, <3>3
  <2> QED BY <1>3, <2>1, <2>2 DEF Walks, SkipMissed, RefuseOrphan, RefuseGoalStep, Skips, PlainTasks
<1>4. CASE Sweeps(w)
  <2>1. \A j \in jobs[w] : j.task \in Tasks /\ j.task # t
    BY <1>4, <1>i, <1>j DEF Sweeps, SweepDone, LeaveParked, ContinueParked, TurnTaken, StageOK, WorkerInv, Job
  <2>2. status'[t] = status[t] /\ gen' = gen /\ (\A j \in jobs'[w] : j.task # t)
    BY <1>4, <1>t, <2>1 DEF Sweeps, SweepDone, LeaveParked, ContinueParked, TurnTaken, TypeOK, taskVars
  <2>3. ~WorksOn(w, t)'
    BY <1>4, <2>1 DEF Sweeps, SweepDone, LeaveParked, ContinueParked, TurnTaken, WorksOn, Working, Goto, TypeOK
  <2>4. ~Licensed(w, t)'
    BY <2>2, <2>3 DEF Licensed, HoldsClaimOf, WorksOn, Working
  <2> QED BY <1>k, <2>2, <2>4
<1>5. CASE Lands(w)
  <2>1. CASE Load(w)
    <3>1. status' = status /\ gen' = gen /\ pc[w] = "load"
      BY <2>1 DEF Load, taskVars
    <3>2. CASE ~Return(w)
      <4>1. UNCHANGED <<stage, jobs, cur, key>> /\ pc'[w] \in {"fence", Landed(w)}
        BY <2>1, <3>2 DEF Load, Goto, TypeOK
      <4>2. Licensed(w, t)' => Licensed(w, t)
        BY <3>1, <4>1 DEF Licensed, HoldsClaimOf, WorksOn, Working
      <4> QED BY <1>k, <3>1, <4>2
    <3> QED BY <1>n, <3>1, <3>2
  <2>2. CASE FenceClaim(w)
    <3>1. CASE Fence(cur[w].task, cur[w].claim) /\ cur' = cur /\ jobs' = jobs /\ pc'[w] = Landed(w)
      <4>1. status' = status /\ pc[w] = "fence"
        BY <2>2 DEF FenceClaim
      <4>2. CASE cur[w].task = t
        <5>1. Licensed(w, t)
          BY <3>1, <4>1, <4>2 DEF Licensed, HoldsClaimOf, Fence, HoldsClaim
        <5> QED BY <1>k, <4>1, <5>1
      <4>3. CASE cur[w].task # t
        <5>1. gen'[t] = gen[t]
          BY <1>t, <3>1, <4>3 DEF Fence, TypeOK
        <5>2. Licensed(w, t)' => Licensed(w, t)
          BY <3>1, <4>3, <5>1 DEF Licensed, HoldsClaimOf, WorksOn
        <5> QED BY <1>k, <4>1, <5>1, <5>2
      <4> QED BY <4>2, <4>3
    <3>2. CASE Return(w) /\ gen' = gen /\ status' = status
      BY <1>n, <3>2
    <3> QED BY <2>2, <3>1, <3>2 DEF FenceClaim, FenceLost, Goto, TypeOK
  <2>3. CASE CountCycle(w)
    <3>1. /\ UNCHANGED <<status, gen, jobs, cur, key>> /\ pc[w] = "count" /\ pc'[w] \in {"pause", "rearm"}
      BY <2>3 DEF CountCycle, Goto, TypeOK
    <3>2. Licensed(w, t)' => Licensed(w, t)
      BY <3>1 DEF Licensed, HoldsClaimOf, WorksOn, Working
    <3> QED BY <1>k, <3>1, <3>2
  <2>4. CASE PauseRoutine(w) \/ Rearm(w) \/ WriteOutcome(w)
    <3>1. Return(w) /\ gen' = gen /\ pc[w] \in {"pause", "rearm", "write"}
      BY <2>4 DEF PauseRoutine, Rearm, WriteOutcome
    <3>2. CASE cur[w].task # t
      <4>1. status'[t] = status[t]
        BY <1>t, <2>4, <3>2 DEF PauseRoutine, Rearm, WriteOutcome, TypeOK
      <4> QED BY <1>n, <3>1, <4>1
    <3>3. CASE cur[w].task = t
      <4>1. key[w] # 0 /\ \A v \in Workers : ~HoldsClaimOf(v, t)
        BY <1>i, <3>1, <3>3 DEF WorkerInv, WorksOn, Working
      <4>2. \A v \in Workers \ {w} : pc[v] \in {"idle", "turn"}
        BY <2>4, LoneRunner DEF PauseRoutine, Rearm, WriteOutcome
      <4>3. ASSUME NEW v \in Workers \ {w} PROVE ~Licensed(v, t)'
        <5>1. ~Licensed(v, t)
          BY <1>y, <4>1, <4>2 DEF Licensed
        <5> QED BY <1>a, <3>1, <5>1 DEF Alone, Same, Licensed, HoldsClaimOf, WorksOn
      <4>4. ~Licensed(w, t)'
        <5>1. pc'[w] \notin Working /\ jobs' = jobs
          BY <3>1, ReturnAlone
        <5> QED BY <3>1, <4>1, <5>1 DEF Licensed, HoldsClaimOf, WorksOn, Working
      <4> QED BY <4>3, <4>4 DEF LicenseInv
    <3> QED BY <3>2, <3>3
  <2> QED BY <1>5, <2>1, <2>2, <2>3, <2>4 DEF Lands
<1>6. CASE AnyTurnEnds(w) \/ RenewLease(w) \/ JobsGetLate(w)
  <2>1. /\ pc[w] = "turn" /\ pc'[w] \in {"turn", "load"} /\ UNCHANGED <<status, gen, cur, key>>
        /\ jobs' = jobs
           \/ jobs'[w] = {[task |-> j.task, claim |-> j.claim, late |-> TRUE] : j \in jobs[w]}
    BY <1>6 DEF AnyTurnEnds, TurnEnds, RenewLease, JobsGetLate, Goto, TypeOK, taskVars
  <2>2. HoldsClaimOf(w, t)' => HoldsClaimOf(w, t)
    BY <2>1 DEF HoldsClaimOf
  <2>3. key'[w] = 0
    BY <1>y, <2>1
  <2> QED BY <1>k, <2>1, <2>2, <2>3 DEF Licensed
<1>7. CASE StartSweep(w) \/ \E u \in Tasks : StartRetry(w, u)
  <2>1. ASSUME NEW S \in SUBSET Tasks, t \notin S, jobs' = [jobs EXCEPT ![w] = ParkedTurns(S)],
               Goto(w, "sweep"), UNCHANGED taskVars
        PROVE  LicenseInv(t)'
    <3>1. jobs'[w] = ParkedTurns(S) /\ pc'[w] = "sweep"
      BY <2>1 DEF Goto, TypeOK
    <3>2. ~Licensed(w, t)'
      BY <2>1, <3>1 DEF Licensed, HoldsClaimOf, WorksOn, Working, ParkedTurns
    <3> QED BY <1>k, <2>1, <3>2 DEF taskVars
  <2>2. CASE StartSweep(w)
    <3>1. InStatus("waiting_for_approval") \in SUBSET Tasks /\ t \notin InStatus("waiting_for_approval")
      BY <1>i DEF InStatus, RowInv
    <3> QED BY <2>1, <2>2, <3>1 DEF StartSweep
  <2>3. ASSUME NEW u \in Tasks, StartRetry(w, u) PROVE LicenseInv(t)'
    <3>1. t # u
      BY <1>i, <1>t, <2>3, Bounds DEF StartRetry, RowInv, TypeOK
    <3>2. t \notin {u} /\ {u} \in SUBSET Tasks
      BY <3>1
    <3> QED BY <2>1, <2>3, <3>2 DEF StartRetry
  <2> QED BY <1>7, <2>2, <2>3
<1>8. ASSUME NEW k \in Hosts, StartHost(k, w) \/ StartPass(w) PROVE LicenseInv(t)'
  <2>1. /\ pc'[w] = "settle" /\ UNCHANGED <<status, gen>>
        /\ jobs'[w] = Read(Lapsed) \/ jobs'[w] = Read(InStatus("running"))
    BY <1>8 DEF StartHost, StartPass, Goto, TypeOK, taskVars
  <2>2. \A S \in {Lapsed, InStatus("running")} : S \in SUBSET Tasks /\ (t \in S => status[t] = "running")
    BY DEF Lapsed, InStatus
  <2> QED BY <1>r, <2>1, <2>2
<1>9. ~ContinuationBlocked(w)
  BY DEF ContinuationBlocked, PlainTasks
<1> QED BY <1>1, <1>2, <1>3, <1>4, <1>5, <1>6, <1>7, <1>8, <1>9 DEF WorkerStep, Advance

\* The owner and the clock take no licence, and a paused routine has given none.
LEMMA LicenceAside ==
  ASSUME TypeOK, NoOwnerWrites, Aside, NEW t \in Routines, RoutineInv(t), LicenseInv(t)
  PROVE  LicenseInv(t)'
<1>t. t \in Tasks
  BY TaskSets
<1>1. UNCHANGED workVars /\ gen'[t] = gen[t]
  BY <1>t DEF Aside, Owner, Interrupt, RunNow, ContinueRoutine, TabContinues, HoldHost, ReleaseHost,
       SlotComes, LeaseLapses, vars, taskVars
<1>2. \A v \in Workers : Licensed(v, t)' <=> Licensed(v, t)
  BY <1>1 DEF workVars, Licensed, HoldsClaimOf, WorksOn
<1>3. CASE status[t] = "paused"
  <2>1. \A v \in Workers : ~Licensed(v, t)
    BY <1>3 DEF RoutineInv, RowInv, Licensed
  <2> QED BY <1>2, <2>1 DEF LicenseInv
<1>4. CASE status[t] # "paused"
  <2>1. status'[t] = status[t] \/ status'[t] = "cancelled"
    BY <1>4, <1>t, AsideRow
  <2> QED BY <1>2, <2>1 DEF LicenseInv
<1> QED BY <1>3, <1>4

----------------------------------------------------------------------------
(***************************************************************************)
(* One-time tasks.  Such a task is claimed once: one pass has it in its    *)
(* batch or in hand, until its run lands; a turn that needs an approval is *)
(* parked once, and whoever continues it has it alone.                     *)
(***************************************************************************)
Listing == {"lapsed", "running", "continuing"}

Runs(w, t) == stage[w] = "batch" /\ Touches(w, t)
Continues(w, t) == stage[w] = "resume" /\ WorksOn(w, t)
Settling(w, t) == stage[w] \in Listing /\ Touches(w, t)
NoPart(w, t) == ~Runs(w, t) /\ ~Continues(w, t) /\ ~Settling(w, t)

OneJob(w, t) ==
    \A j \in jobs[w] : j.task = t =>
        ~WorksOn(w, t) /\ \A i \in jobs[w] : i.task = t => i = j

RunOK(w, t) == Runs(w, t) =>
    /\ \A v \in Workers \ {w} : ~Runs(v, t) /\ ~(stage[v] = "resume" /\ Touches(v, t))
    /\ OneJob(w, t)
    /\ \A j \in jobs[w] : j.task = t => j.claim <= gen[t]
    /\ WorksOn(w, t) => cur[w].claim <= gen[t]
    /\ status[t] \in {"running", "cancelled", "failed"}
    /\ HoldsClaimOf(w, t) => status[t] # "failed"
    /\ WorksOn(w, t) /\ pc[w] = "write" => status[t] = "running"
    /\ ~WorksOn(w, t) \/ pc[w] = "turn" => parked[t] = {}

ContOK(w, t) == Continues(w, t) =>
    /\ \A v \in Workers \ {w} : ~Continues(v, t)
    /\ pc[w] = "turn" => parked[t] = {}
    /\ status[t] \in {"waiting_for_approval", "continuing", "cancelled"}
    /\ pc[w] = "write" => status[t] # "cancelled"

ListOK(w, t) == Settling(w, t) =>
    /\ OneJob(w, t)
    /\ status[t] = "running" \/ (stage[w] = "continuing" /\ status[t] = "continuing")
    /\ WorksOn(w, t) =>
          /\ key[w] # 0 /\ out[w] = "failed"
          /\ \A v \in Workers : Runs(v, t) => ~HoldsClaimOf(v, t)

OnceInv(t) ==
    /\ status[t] = "queued" => parked[t] = {} /\ \A w \in Workers : ~Touches(w, t)
    /\ \A a, b \in parked[t] : a = b
    /\ \A w \in Workers : RunOK(w, t) /\ ContOK(w, t) /\ ListOK(w, t)

----------------------------------------------------------------------------
\* A coroutine has no more of t than it had.
Fewer(w, t) ==
    /\ JobsFrom(w, t) /\ (OneJob(w, t) => OneJob(w, t)')
    /\ WorksOn(w, t)' => WorksOn(w, t) /\ Same(w) /\ out'[w] = out[w]

LEMMA OnceKept ==
  ASSUME NEW t \in Tasks, OnceInv(t), status'[t] = status[t], gen'[t] = gen[t],
         parked'[t] \subseteq parked[t], \A v \in Workers : Fewer(v, t)
  PROVE  OnceInv(t)'
<1>1. ASSUME NEW v \in Workers
      PROVE  /\ Touches(v, t)' => Touches(v, t) /\ stage'[v] = stage[v]
             /\ HoldsClaimOf(v, t)' => HoldsClaimOf(v, t)
             /\ WorksOn(v, t)' => WorksOn(v, t) /\ pc'[v] = pc[v] /\ cur'[v] = cur[v]
                                  /\ key'[v] = key[v] /\ out'[v] = out[v]
             /\ OneJob(v, t) => OneJob(v, t)'
  BY DEF Fewer, JobsFrom, Touches, Same, HoldsClaimOf, WorksOn, Working
<1>2. ASSUME NEW v \in Workers PROVE RunOK(v, t)'
  <2> SUFFICES ASSUME Runs(v, t)' PROVE RunOK(v, t)'
    BY DEF RunOK
  <2>1. Runs(v, t) /\ RunOK(v, t)
    BY <1>1 DEF Runs, OnceInv
  <2>2. \A u \in Workers \ {v} : ~Runs(u, t)' /\ ~(stage'[u] = "resume" /\ Touches(u, t)')
    BY <1>1, <2>1 DEF Runs, RunOK
  <2>3. \A j \in jobs'[v] : j.task = t => j.claim <= gen'[t]
    BY <2>1 DEF RunOK, Fewer, JobsFrom
  <2>4. ~WorksOn(v, t)' => ~WorksOn(v, t) \/ parked[t] = {}
    <3>1. ASSUME ~WorksOn(v, t)' PROVE ~WorksOn(v, t)
      BY <2>1, <3>1 DEF Runs, RunOK, OneJob, Touches, Fewer, JobsFrom
    <3> QED BY <3>1
  <2> QED BY <1>1, <2>1, <2>2, <2>3, <2>4 DEF RunOK
<1>3. ASSUME NEW v \in Workers PROVE ContOK(v, t)'
  BY <1>1 DEF OnceInv, ContOK, Continues, Touches
<1>4. ASSUME NEW v \in Workers PROVE ListOK(v, t)'
  BY <1>1 DEF OnceInv, ListOK, Settling, Runs
<1> QED BY <1>1, <1>2, <1>3, <1>4 DEF OnceInv

----------------------------------------------------------------------------
\* What the steps of a coroutine rely on, for a one-time task.
Ready(t) ==
    /\ TypeOK /\ SkippedRearms /\ Keys /\ Loop /\ StageInv /\ HandInv /\ PlainTasks
    /\ StartingAlone /\ PastInv(t) /\ NotCancelled(t) /\ OnceInv(t)

\* While a coroutine runs, or nobody does, no other one settles.
LEMMA QuietOthers ==
  ASSUME Loop, StageInv, HandInv, NEW h, Hosts = {h}, NEW t \in Tasks,
         NEW w \in Workers, Holds(w) \/ Free(HostOf[w]), NEW v \in Workers \ {w}
  PROVE  pc[v] \in {"idle", "turn"} /\ ~Settling(v, t)
<1>1. pc[v] \in {"idle", "turn"}
  <2>1. HostOf[w] = h
    BY WorkerSets
  <2> QED BY <2>1, LoneRunner, NoRunner DEF Free
<1> QED BY <1>1 DEF StageInv, StageOK, HandInv, HandOK, Settling, Listing, Touches, WorksOn, Working

\* Whoever runs or continues t has it alone.
LEMMA OwnRow ==
  ASSUME NEW t \in Tasks \ Routines, Ready(t), NEW h, Hosts = {h},
         NEW w \in Workers, Holds(w) \/ Free(HostOf[w]), Runs(w, t) \/ Continues(w, t),
         NEW v \in Workers \ {w}
  PROVE  NoPart(v, t)
<1>1. ~Settling(v, t)
  BY QuietOthers DEF Ready
<1>2. CASE Runs(w, t)
  BY <1>1, <1>2 DEF Ready, OnceInv, RunOK, NoPart, Continues, Touches
<1>3. CASE Continues(w, t)
  BY <1>1, <1>3 DEF Ready, OnceInv, RunOK, ContOK, NoPart, Continues, Touches
<1> QED BY <1>2, <1>3

\* What a coroutine's step leaves as it was of the others.
Others(w, t) == \A v \in Workers \ {w} :
    /\ Touches(v, t)' <=> Touches(v, t)
    /\ WorksOn(v, t)' <=> WorksOn(v, t)
    /\ Runs(v, t)' <=> Runs(v, t)
    /\ Continues(v, t)' <=> Continues(v, t)
    /\ Settling(v, t)' <=> Settling(v, t)
    /\ OneJob(v, t)' <=> OneJob(v, t)
    /\ gen'[t] = gen[t] => (HoldsClaimOf(v, t)' <=> HoldsClaimOf(v, t))
    /\ Same(v) /\ jobs'[v] = jobs[v] /\ out'[v] = out[v]

LEMMA OthersStay ==
  ASSUME TypeOK, NEW w \in Workers, WorkerStep(w), NEW t \in Tasks
  PROVE  Others(w, t)
<1>1. Alone(w) /\ \A v \in Workers \ {w} : Stays(v)
  BY StepAlone, StepFrame
<1> SUFFICES ASSUME NEW v \in Workers \ {w}
             PROVE  /\ Touches(v, t)' <=> Touches(v, t)
                    /\ WorksOn(v, t)' <=> WorksOn(v, t)
                    /\ Runs(v, t)' <=> Runs(v, t)
                    /\ Continues(v, t)' <=> Continues(v, t)
                    /\ Settling(v, t)' <=> Settling(v, t)
                    /\ OneJob(v, t)' <=> OneJob(v, t)
                    /\ gen'[t] = gen[t] => (HoldsClaimOf(v, t)' <=> HoldsClaimOf(v, t))
                    /\ Same(v) /\ jobs'[v] = jobs[v] /\ out'[v] = out[v]
  BY DEF Others
<1>2. /\ pc'[v] = pc[v] /\ cur'[v] = cur[v] /\ key'[v] = key[v] /\ stage'[v] = stage[v]
      /\ jobs'[v] = jobs[v] /\ out'[v] = out[v]
  BY <1>1 DEF Alone, Same, Stays
<1>3. (WorksOn(v, t)' <=> WorksOn(v, t)) /\ (Touches(v, t)' <=> Touches(v, t))
  BY <1>2 DEF WorksOn, Touches
<1>4. /\ Runs(v, t)' <=> Runs(v, t)
      /\ Continues(v, t)' <=> Continues(v, t)
      /\ Settling(v, t)' <=> Settling(v, t)
  BY <1>2, <1>3 DEF Runs, Continues, Settling
<1>5. OneJob(v, t)' <=> OneJob(v, t)
  BY <1>2, <1>3 DEF OneJob
<1>6. gen'[t] = gen[t] => (HoldsClaimOf(v, t)' <=> HoldsClaimOf(v, t))
  BY <1>2 DEF HoldsClaimOf
<1> QED BY <1>2, <1>3, <1>4, <1>5, <1>6 DEF Same

\* A step about another task.
LEMMA OnceAside ==
  ASSUME NEW t \in Tasks, OnceInv(t), NEW w \in Workers, Others(w, t), Fewer(w, t),
         status'[t] = status[t], gen'[t] = gen[t], parked'[t] \subseteq parked[t]
  PROVE  OnceInv(t)'
<1>1. ASSUME NEW v \in Workers \ {w} PROVE Fewer(v, t)
  BY DEF Others, Fewer, JobsFrom, Same
<1> QED BY <1>1, OnceKept

LEMMA FewerOf ==
  ASSUME NEW t \in Tasks, NEW w \in Workers, ~WorksOn(w, t)', jobs'[w] \subseteq jobs[w],
         stage'[w] = stage[w]
  PROVE  Fewer(w, t)
  BY DEF Fewer, JobsFrom, OneJob

\* A step about t by the coroutine that has it alone.
LEMMA OnceAlone ==
  ASSUME NEW t \in Tasks, NEW w \in Workers, Others(w, t),
         \A v \in Workers \ {w} : NoPart(v, t),
         status'[t] # "queued", \A a, b \in parked'[t] : a = b,
         RunOK(w, t)', ContOK(w, t)', ListOK(w, t)'
  PROVE  OnceInv(t)'
<1>1. \A v \in Workers \ {w} : NoPart(v, t)'
  BY DEF Others, NoPart
<1>2. \A v \in Workers \ {w} : RunOK(v, t)' /\ ContOK(v, t)' /\ ListOK(v, t)'
  BY <1>1 DEF NoPart, RunOK, ContOK, ListOK
<1> QED BY <1>2 DEF OnceInv

\* ... and that is through with it.
LEMMA OnceLeft ==
  ASSUME NEW t \in Tasks, NEW w \in Workers, Others(w, t),
         \A v \in Workers \ {w} : NoPart(v, t), NoPart(w, t)',
         status'[t] # "queued", \A a, b \in parked'[t] : a = b
  PROVE  OnceInv(t)'
<1>1. RunOK(w, t)' /\ ContOK(w, t)' /\ ListOK(w, t)'
  BY DEF NoPart, RunOK, ContOK, ListOK
<1> QED BY <1>1, OnceAlone

\* A coroutine lists t, and works on nothing yet.
LEMMA OnceListed ==
  ASSUME NEW t \in Tasks, OnceInv(t), NEW w \in Workers, Others(w, t), stage'[w] # "batch",
         status'[t] = status[t], gen'[t] = gen[t], parked'[t] = parked[t], ~WorksOn(w, t)',
         Touches(w, t)' => status[t] # "queued",
         stage'[w] = "resume" /\ Touches(w, t)' => \A v \in Workers : ~Runs(v, t),
         ListOK(w, t)'
  PROVE  OnceInv(t)'
<1>1. ~Runs(w, t)' /\ ~Continues(w, t)'
  BY DEF Runs, Continues
<1>2. ASSUME NEW v \in Workers \ {w} PROVE RunOK(v, t)' /\ ContOK(v, t)' /\ ListOK(v, t)'
  <2>0. RunOK(v, t) /\ ContOK(v, t) /\ ListOK(v, t)
    BY DEF OnceInv
  <2>1. RunOK(v, t)'
    <3> SUFFICES ASSUME Runs(v, t)' PROVE RunOK(v, t)'
      BY DEF RunOK
    <3>1. Runs(v, t)
      BY DEF Others
    <3>2. \A u \in Workers \ {v} : ~Runs(u, t)' /\ ~(stage'[u] = "resume" /\ Touches(u, t)')
      BY <1>1, <2>0, <3>1 DEF RunOK, Others, Same
    <3> QED BY <2>0, <3>1, <3>2 DEF RunOK, Others, Same
  <2>2. ContOK(v, t)'
    BY <1>1, <2>0 DEF ContOK, Others, Same
  <2>3. ListOK(v, t)'
    BY <1>1, <2>0 DEF ListOK, Others, Same
  <2> QED BY <2>1, <2>2, <2>3
<1> QED BY <1>1, <1>2 DEF OnceInv, RunOK, ContOK, Others

\* A settlement takes the claim of t, or settles it: a run that has t has lost it.
LEMMA OnceSettled ==
  ASSUME TypeOK, NEW t \in Tasks, OnceInv(t), NEW w \in Workers, Others(w, t),
         stage'[w] = stage[w], stage[w] \in Listing,
         \A v \in Workers \ {w} : pc[v] \in {"idle", "turn"} /\ ~Settling(v, t) /\ ~Continues(v, t),
         status'[t] = status[t] \/ status'[t] = "failed", status[t] # "queued",
         gen'[t] >= gen[t], gen'[t] \in Nat, parked'[t] = parked[t],
         \A v \in Workers \ {w} : Runs(v, t) => ~HoldsClaimOf(v, t)',
         ListOK(w, t)'
  PROVE  OnceInv(t)'
<1>1. ~Runs(w, t)' /\ ~Continues(w, t)' /\ ~(stage'[w] = "resume")
  BY DEF Runs, Continues, Listing
<1>2. ASSUME NEW v \in Workers \ {w} PROVE RunOK(v, t)' /\ ContOK(v, t)' /\ ListOK(v, t)'
  <2>1. RunOK(v, t)'
    <3> SUFFICES ASSUME Runs(v, t)' PROVE RunOK(v, t)'
      BY DEF RunOK
    <3>1. Runs(v, t) /\ RunOK(v, t)
      BY DEF Others, OnceInv
    <3>2. \A u \in Workers \ {v} : ~Runs(u, t)' /\ ~(stage'[u] = "resume" /\ Touches(u, t)')
      BY <1>1, <3>1 DEF RunOK, Others, Same
    <3>3. /\ \A j \in jobs'[v] : j.task = t => j.claim <= gen'[t]
          /\ WorksOn(v, t)' => cur'[v].claim <= gen'[t]
      <4>1. gen[t] \in Nat /\ cur[v].claim \in Nat /\ \A j \in jobs[v] : j.claim \in Nat
        BY DEF TypeOK, Job
      <4> QED BY <3>1, <4>1 DEF RunOK, Others, Same
    <3> QED BY <3>1, <3>2, <3>3 DEF RunOK, Others, Same
  <2>2. ContOK(v, t)' /\ ListOK(v, t)'
    BY DEF ContOK, ListOK, Others
  <2> QED BY <2>1, <2>2
<1> QED BY <1>1, <1>2 DEF OnceInv, RunOK, ContOK

----------------------------------------------------------------------------
\* Rows listed to be settled, or parked turns listed to be continued.
LEMMA ReadOnce ==
  ASSUME TypeOK, NEW t \in Tasks, NEW w \in Workers, NEW S \in SUBSET Tasks,
         jobs'[w] = Read(S), pc'[w] = "settle"
  PROVE  OneJob(w, t)' /\ ~WorksOn(w, t)' /\ (Touches(w, t)' => t \in S)
<1>1. \A j \in jobs'[w] : j.task = t => t \in S /\ j = [task |-> t, claim |-> gen[t], late |-> FALSE]
  BY DEF Read
<1>2. ~WorksOn(w, t)'
  BY DEF WorksOn, Working
<1>3. OneJob(w, t)'
  BY <1>1, <1>2 DEF OneJob
<1> QED BY <1>1, <1>2, <1>3 DEF Touches

LEMMA SettlesOnce ==
  ASSUME NEW t \in Tasks \ Routines, Ready(t), NEW h, Hosts = {h}, NEW w \in Workers, Settles(w)
  PROVE  OnceInv(t)'
<1>o. Others(w, t)
  BY OthersStay DEF Ready, WorkerStep, Advance
<1>q. \A v \in Workers \ {w} : pc[v] \in {"idle", "turn"} /\ ~Settling(v, t)
  BY QuietOthers DEF Ready, Settles, SettleNext, NextList, HostStarted
<1>i. TypeOK /\ OnceInv(t)
  BY DEF Ready
<1>1. ASSUME NEW j \in jobs[w], SettleNext(w, j) PROVE OnceInv(t)'
  <2>0. j \in Job /\ gen[t] \in Nat
    BY <1>i DEF TypeOK
  <2>1. /\ pc[w] = "settle" /\ stage' = stage /\ status' = status /\ parked' = parked
        /\ jobs'[w] = jobs[w] \ {j} /\ ~WorksOn(w, t)
    BY <1>1, <1>i DEF SettleNext, TypeOK, WorksOn, Working
  <2>2. CASE j.task # t \/ ~Fence(j.task, j.claim)
    <3>1. gen'[t] = gen[t]
      BY <1>1, <1>i, <2>0, <2>2 DEF SettleNext, Fence, FenceLost, TypeOK, Job
    <3>2. ~WorksOn(w, t)'
      BY <1>1, <1>i, <2>0, <2>1, <2>2 DEF SettleNext, Goto, TypeOK, WorksOn, Working
    <3>3. Fewer(w, t)
      BY <2>1, <3>2, FewerOf
    <3> QED BY <1>i, <1>o, <2>1, <3>1, <3>3, OnceAside
  <2>3. CASE j.task = t /\ Fence(j.task, j.claim)
    <3>1. /\ gen[t] = j.claim /\ gen'[t] = gen[t] + 1
          /\ pc'[w] = "load" /\ cur'[w] = j /\ out'[w] = "failed" /\ key'[w] = j.claim + 1
      BY <1>1, <1>i, <2>0, <2>3 DEF SettleNext, Fence, FenceLost, HoldsClaim, Goto, TypeOK
    <3>2. stage[w] \in Listing /\ Settling(w, t)
      BY <2>1, <2>3 DEF Ready, StageInv, StageOK, Listing, Settling, Touches
    <3>3. ListOK(w, t) /\ OneJob(w, t)
      BY <1>i, <3>2 DEF OnceInv, ListOK
    <3>4. \A i \in jobs'[w] : i.task # t
      BY <2>1, <2>3, <3>3 DEF OneJob
    <3>5. ASSUME NEW v \in Workers \ {w} PROVE ~Continues(v, t)
      <4>1. Continues(v, t) => pc[v] # "idle" /\ status[t] # "running"
        BY <1>i DEF OnceInv, ContOK, Continues, WorksOn, Working
      <4>2. stage[w] = "continuing" => pc[v] = "idle"
        BY <2>1 DEF Ready, StartingAlone
      <4> QED BY <3>2, <3>3, <4>1, <4>2 DEF ListOK
    <3>6. ASSUME NEW v \in Workers, Runs(v, t) PROVE ~HoldsClaimOf(v, t)'
      <4>1. v # w
        BY <3>2, <3>6 DEF Runs, Listing
      <4>2. RunOK(v, t)
        BY <1>i DEF OnceInv
      <4>3. cur[v].claim \in Nat /\ \A i \in jobs[v] : i.claim \in Nat
        BY <1>i DEF TypeOK, Job
      <4> QED BY <1>o, <2>0, <3>1, <3>6, <4>1, <4>2, <4>3
          DEF RunOK, HoldsClaimOf, Others, Same, WorksOn, Working
    <3>7. ASSUME NEW v \in Workers, Runs(v, t)' PROVE ~HoldsClaimOf(v, t)'
      <4>1. v # w
        BY <2>1, <3>2, <3>7 DEF Runs, Listing
      <4> QED BY <1>o, <3>6, <3>7, <4>1 DEF Others
    <3>8. ListOK(w, t)'
      BY <2>1, <2>0, <3>1, <3>2, <3>3, <3>4, <3>7 DEF ListOK, OneJob, Job
    <3>9. status[t] # "queued" /\ gen'[t] >= gen[t] /\ gen'[t] \in Nat
      BY <2>0, <3>1, <3>2, <3>3 DEF ListOK
    <3> QED BY <1>i, <1>o, <1>q, <2>1, <3>2, <3>5, <3>6, <3>8, <3>9, OnceSettled
  <2> QED BY <2>2, <2>3
<1>2. CASE NextList(w)
  <2>1. /\ pc'[w] = "settle" /\ stage'[w] = "continuing" /\ jobs'[w] = Read(InStatus("continuing"))
        /\ UNCHANGED taskVars
    BY <1>2, <1>i DEF NextList, TypeOK
  <2>2. InStatus("continuing") \in SUBSET Tasks /\ (t \in InStatus("continuing") => status[t] = "continuing")
    BY DEF InStatus
  <2>3. OneJob(w, t)' /\ ~WorksOn(w, t)' /\ (Touches(w, t)' => status[t] = "continuing")
    BY <1>i, <2>1, <2>2, ReadOnce
  <2>4. ListOK(w, t)'
    BY <2>1, <2>3 DEF ListOK, Settling, taskVars
  <2> QED BY <1>i, <1>o, <2>1, <2>3, <2>4, OnceListed DEF taskVars
<1>3. CASE HostStarted(w)
  <2>1. Fewer(w, t) /\ UNCHANGED taskVars
    BY <1>3, <1>i, FewerOf DEF HostStarted, Goto, TypeOK, WorksOn, Working
  <2> QED BY <1>i, <1>o, <2>1, OnceAside DEF taskVars
<1> QED BY <1>1, <1>2, <1>3 DEF Settles

LEMMA ClaimsOnce ==
  ASSUME NEW t \in Tasks \ Routines, Ready(t), NEW h, Hosts = {h}, NEW w \in Workers, Claims(w)
  PROVE  OnceInv(t)'
<1>o. Others(w, t)
  BY OthersStay DEF Ready, WorkerStep, Advance
<1>i. TypeOK /\ OnceInv(t)
  BY DEF Ready
<1>1. CASE PassHeld(w)
  <2>1. Fewer(w, t) /\ UNCHANGED taskVars
    BY <1>1, <1>i, FewerOf DEF PassHeld, Goto, TypeOK, WorksOn, Working
  <2> QED BY <1>i, <1>o, <2>1, OnceAside DEF taskVars
<1>2. ASSUME NEW S \in SUBSET Due, ClaimDue(w, S) PROVE OnceInv(t)'
  <2>1. /\ pc'[w] = "batch" /\ stage'[w] = "batch" /\ parked' = parked
        /\ jobs'[w] = {[task |-> u, claim |-> gen[u] + 1, late |-> slot[u] = "missed"] : u \in S}
    BY <1>2, <1>i DEF ClaimDue, Goto, TypeOK
  <2>2. ~WorksOn(w, t)'
    BY <2>1 DEF WorksOn, Working
  <2>3. \A j \in jobs'[w] : j.task = t =>
           t \in S /\ j = [task |-> t, claim |-> gen[t] + 1, late |-> slot[t] = "missed"]
    BY <2>1
  <2>4. CASE t \notin S
    <3>1. status'[t] = status[t] /\ gen'[t] = gen[t]
      BY <1>2, <2>4 DEF ClaimDue
    <3>2. Fewer(w, t)
      BY <2>2, <2>3, <2>4 DEF Fewer, JobsFrom, OneJob
    <3> QED BY <1>i, <1>o, <2>1, <3>1, <3>2, OnceAside
  <2>5. CASE t \in S
    <3>1. status[t] = "queued" /\ status'[t] = "running" /\ gen'[t] = gen[t] + 1
      BY <1>2, <2>5 DEF ClaimDue, Due
    <3>2. parked[t] = {} /\ \A v \in Workers : ~Touches(v, t)
      BY <1>i, <3>1 DEF OnceInv
    <3>3. \A v \in Workers \ {w} : NoPart(v, t)
      BY <3>2 DEF NoPart, Runs, Continues, Settling, Touches
    <3>4. \A j \in jobs'[w] : j.task = t => j.claim <= gen'[t]
      <4>1. gen[t] \in Nat
        BY <1>i DEF TypeOK
      <4> QED BY <2>3, <3>1, <4>1
    <3>5. OneJob(w, t)'
      BY <2>2, <2>3 DEF OneJob
    <3>6. \A v \in Workers \ {w} : ~Runs(v, t)' /\ ~Touches(v, t)'
      BY <1>o, <3>2 DEF Others, Runs
    <3>7. RunOK(w, t)'
      BY <2>1, <2>2, <3>1, <3>2, <3>4, <3>5, <3>6 DEF RunOK
    <3>8. ContOK(w, t)' /\ ListOK(w, t)'
      BY <2>1 DEF ContOK, Continues, ListOK, Settling, Listing
    <3> QED BY <1>o, <2>1, <3>1, <3>2, <3>3, <3>7, <3>8, OnceAlone
  <2> QED BY <2>4, <2>5
<1> QED BY <1>1, <1>2 DEF Claims

LEMMA WalksOnce ==
  ASSUME NEW t \in Tasks \ Routines, Ready(t), NEW h, Hosts = {h}, NEW w \in Workers, Walks(w)
  PROVE  OnceInv(t)'
<1>o. Others(w, t)
  BY OthersStay DEF Ready, WorkerStep, Advance
<1>i. TypeOK /\ OnceInv(t)
  BY DEF Ready
<1>1. CASE BatchDone(w)
  <2>1. Fewer(w, t) /\ UNCHANGED taskVars
    BY <1>1, <1>i, FewerOf DEF BatchDone, Goto, TypeOK, WorksOn, Working
  <2> QED BY <1>i, <1>o, <2>1, OnceAside DEF taskVars
<1>2. ASSUME NEW j \in jobs[w], StartTurn(w, j) PROVE OnceInv(t)'
  <2>1. /\ pc[w] = "batch" /\ Holds(w) /\ pc'[w] = "turn" /\ cur'[w] = j /\ jobs'[w] = jobs[w] \ {j}
        /\ stage' = stage /\ UNCHANGED taskVars
    BY <1>2, <1>i DEF StartTurn, Goto, TypeOK
  <2>2. CASE j.task # t
    <3>1. Fewer(w, t)
      BY <2>1, <2>2, FewerOf DEF WorksOn
    <3> QED BY <1>i, <1>o, <2>1, <3>1, OnceAside DEF taskVars
  <2>3. CASE j.task = t
    <3>1. stage[w] = "batch" /\ Runs(w, t)
      BY <2>1, <2>3 DEF Ready, StageInv, StageOK, Runs, Touches
    <3>2. RunOK(w, t) /\ OneJob(w, t) /\ ~WorksOn(w, t)
      BY <1>i, <2>1, <3>1 DEF OnceInv, RunOK, WorksOn, Working
    <3>3. \A v \in Workers \ {w} : NoPart(v, t)
      BY <2>1, <3>1, OwnRow
    <3>4. \A i \in jobs'[w] : i.task # t
      BY <2>1, <2>3, <3>2 DEF OneJob
    <3>5. HoldsClaimOf(w, t)' => HoldsClaimOf(w, t)
      BY <2>1, <3>4 DEF HoldsClaimOf, taskVars
    <3>6. \A v \in Workers \ {w} : ~Runs(v, t)' /\ ~(stage'[v] = "resume" /\ Touches(v, t)')
      BY <1>o, <3>1, <3>2 DEF Others, RunOK, Same
    <3>7. j.claim <= gen[t] /\ parked[t] = {} /\ status[t] \in {"running", "cancelled", "failed"}
      BY <2>3, <3>1, <3>2 DEF RunOK
    <3>8. RunOK(w, t)'
      BY <2>1, <3>1, <3>2, <3>4, <3>5, <3>6, <3>7 DEF RunOK, OneJob, taskVars
    <3>9. ContOK(w, t)' /\ ListOK(w, t)'
      BY <2>1, <3>1 DEF ContOK, Continues, ListOK, Settling, Listing
    <3> QED BY <1>o, <2>1, <3>3, <3>7, <3>8, <3>9, OnceAlone DEF taskVars
  <2> QED BY <2>2, <2>3
<1>3. ASSUME NEW j \in jobs[w] PROVE ~SkipMissed(w, j) /\ ~RefuseOrphan(w, j) /\ ~RefuseGoalStep(w, j)
  BY DEF Ready, PlainTasks, SkipMissed, Skips, RefuseOrphan, RefuseGoalStep
<1> QED BY <1>1, <1>2, <1>3 DEF Walks

LEMMA SweepsOnce ==
  ASSUME NEW t \in Tasks \ Routines, Ready(t), NEW h, Hosts = {h}, NEW w \in Workers, Sweeps(w)
  PROVE  OnceInv(t)'
<1>o. Others(w, t)
  BY OthersStay DEF Ready, WorkerStep, Advance
<1>i. TypeOK /\ OnceInv(t)
  BY DEF Ready
<1>s. Holds(w) /\ pc[w] = "sweep" /\ stage[w] = "resume" /\ stage' = stage /\ gen' = gen
  BY DEF Ready, StageInv, StageOK, Sweeps, SweepDone, LeaveParked, ContinueParked, TurnTaken, taskVars
<1>q. \A v \in Workers \ {w} : pc[v] \in {"idle", "turn"} /\ ~Settling(v, t)
  BY <1>s, QuietOthers DEF Ready
<1>n. Touches(w, t) => \A v \in Workers : ~Runs(v, t)
  BY <1>i, <1>s DEF OnceInv, RunOK, Runs
<1>1. CASE SweepDone(w) \/ \E j \in jobs[w] : LeaveParked(w, j)
  <2>1. Fewer(w, t) /\ UNCHANGED taskVars
    BY <1>1, <1>i, <1>s, FewerOf DEF SweepDone, LeaveParked, Goto, TypeOK, WorksOn, Working
  <2> QED BY <1>i, <1>o, <2>1, OnceAside DEF taskVars
<1>2. ASSUME NEW j \in jobs[w], ContinueParked(w, j) PROVE OnceInv(t)'
  <2>0. j.task \in Tasks
    BY <1>i DEF TypeOK, Job
  <2>1. /\ pc'[w] = "turn" /\ cur'[w] = j /\ jobs'[w] = jobs[w] \ {j}
        /\ status[j.task] \notin Terminal /\ j.claim \in parked[j.task]
    BY <1>2, <1>i DEF ContinueParked, Goto, TypeOK
  <2>2. CASE j.task # t
    <3>1. status'[t] = status[t] /\ parked'[t] = parked[t]
      BY <1>2, <1>i, <2>0, <2>2 DEF ContinueParked, TypeOK
    <3>2. Fewer(w, t)
      BY <1>s, <2>1, <2>2, FewerOf DEF WorksOn
    <3> QED BY <1>i, <1>o, <1>s, <3>1, <3>2, OnceAside
  <2>3. CASE j.task = t
    <3>1. Touches(w, t)
      BY <2>3 DEF Touches
    <3>2. status[t] \in {"waiting_for_approval", "continuing"}
      BY <1>s, <2>1, <2>3, <3>1 DEF Ready, PastInv, Past
    <3>3. status'[t] = "continuing" /\ parked'[t] = {}
      <4>1. \A a \in parked[t] : a = j.claim
        BY <1>i, <2>1, <2>3 DEF OnceInv
      <4> QED BY <1>2, <1>i, <2>3, <3>2, <4>1 DEF ContinueParked, TypeOK
    <3>4. \A v \in Workers \ {w} : NoPart(v, t)
      <4>1. ASSUME NEW v \in Workers \ {w} PROVE ~Continues(v, t)
        <5>1. Continues(v, t) => pc[v] = "turn" /\ parked[t] = {}
          BY <1>i, <1>q DEF OnceInv, ContOK, Continues, WorksOn, Working
        <5> QED BY <2>1, <2>3, <5>1
      <4> QED BY <1>n, <1>q, <3>1, <4>1 DEF NoPart
    <3>5. \A v \in Workers \ {w} : ~Continues(v, t)'
      BY <1>o, <3>4 DEF Others, NoPart
    <3>6. RunOK(w, t)' /\ ListOK(w, t)'
      BY <1>s DEF RunOK, Runs, ListOK, Settling, Listing
    <3>7. ContOK(w, t)'
      BY <2>1, <3>3, <3>5 DEF ContOK
    <3> QED BY <1>o, <3>3, <3>4, <3>6, <3>7, OnceAlone
  <2> QED BY <2>2, <2>3
<1>3. ASSUME NEW j \in jobs[w], TurnTaken(w, j) PROVE OnceInv(t)'
  <2>0. j.task \in Tasks
    BY <1>i DEF TypeOK, Job
  <2>1. pc' = pc /\ parked' = parked /\ jobs'[w] = jobs[w] \ {j} /\ status[j.task] \notin Terminal
    BY <1>3, <1>i DEF TurnTaken, TypeOK
  <2>w. ~WorksOn(w, t)'
    BY <1>s, <2>1 DEF WorksOn, Working
  <2>2. CASE j.task # t
    <3>1. status'[t] = status[t]
      BY <1>3, <1>i, <2>0, <2>2 DEF TurnTaken, TypeOK
    <3>2. Fewer(w, t)
      BY <1>s, <2>1, <2>w, FewerOf
    <3> QED BY <1>i, <1>o, <1>s, <2>1, <3>1, <3>2, OnceAside
  <2>3. CASE j.task = t
    <3>1. status'[t] = "waiting_for_approval"
      BY <1>3, <1>i, <2>3 DEF TurnTaken, TypeOK
    <3>2. Touches(w, t)
      BY <2>3 DEF Touches
    <3>3. \A v \in Workers : ~Runs(v, t) /\ ~Settling(v, t)
      BY <1>n, <1>q, <1>s, <3>2 DEF Settling, Listing
    <3>4. \A v \in Workers : ~Runs(v, t)' /\ ~Settling(v, t)'
      BY <1>o, <1>s, <3>3 DEF Others, Runs, Settling, Listing
    <3>5. ~Continues(w, t)'
      BY <2>w DEF Continues
    <3>6. ASSUME NEW v \in Workers PROVE ContOK(v, t)'
      BY <1>i, <1>o, <1>q, <2>1, <3>1, <3>5 DEF OnceInv, ContOK, Others, Same
    <3> QED BY <1>i, <2>1, <3>1, <3>4, <3>6 DEF OnceInv, RunOK, ListOK
  <2> QED BY <2>2, <2>3
<1> QED BY <1>1, <1>2, <1>3 DEF Sweeps

\* The end of a landing of t leaves its coroutine no part of t.
LEMMA ReturnLeaves ==
  ASSUME TypeOK, NEW t \in Tasks, NEW w \in Workers, Return(w), WorksOn(w, t),
         stage[w] # "resume" => OneJob(w, t)
  PROVE  NoPart(w, t)'
<1>1. pc'[w] \notin Working /\ jobs' = jobs /\ stage' = stage
  BY ReturnAlone DEF Return
<1>2. ~WorksOn(w, t)'
  BY <1>1 DEF WorksOn
<1>3. stage[w] # "resume" => ~Touches(w, t)'
  BY <1>1, <1>2 DEF OneJob, Touches
<1> QED BY <1>1, <1>2, <1>3 DEF NoPart, Runs, Continues, Settling, Listing

LEMMA LandsOnce ==
  ASSUME NEW t \in Tasks \ Routines, Ready(t), NEW h, Hosts = {h}, NEW w \in Workers, Lands(w)
  PROVE  OnceInv(t)'
<1>o. Others(w, t)
  BY OthersStay DEF Ready, WorkerStep, Advance
<1>i. TypeOK /\ OnceInv(t)
  BY DEF Ready
<1>c. cur[w].task \in Tasks /\ cur[w].claim \in Nat /\ gen[t] \in Nat
  BY <1>i DEF TypeOK, Job
<1>s. Holds(w) /\ pc[w] \in Working /\ pc[w] # "turn" /\ parked' = parked /\ stage' = stage /\ jobs' = jobs
  BY <1>i, ReturnAlone DEF Lands, Load, FenceClaim, CountCycle, PauseRoutine, Rearm, WriteOutcome,
     Return, Working, taskVars
<1>q. \A v \in Workers \ {w} : pc[v] \in {"idle", "turn"} /\ ~Settling(v, t)
  BY <1>s, QuietOthers DEF Ready
<1>1. CASE cur[w].task # t
  <2>1. status'[t] = status[t] /\ gen'[t] = gen[t]
    BY <1>1, <1>c, <1>i DEF Lands, Load, FenceClaim, CountCycle, PauseRoutine, Rearm, WriteOutcome,
       Fence, FenceLost, TypeOK, taskVars
  <2>2. ~WorksOn(w, t)'
    <3>1. CASE Return(w)
      BY <1>i, <3>1, ReturnAlone DEF WorksOn
    <3>2. CASE ~Return(w)
      BY <1>1, <3>2 DEF Lands, Load, FenceClaim, CountCycle, PauseRoutine, Rearm, WriteOutcome, WorksOn
    <3> QED BY <3>1, <3>2
  <2>3. Fewer(w, t)
    BY <1>s, <2>2, FewerOf
  <2> QED BY <1>i, <1>o, <1>s, <2>1, <2>3, OnceAside
<1>2. CASE cur[w].task = t
  <2>w. WorksOn(w, t) /\ Touches(w, t)
    BY <1>2, <1>s DEF WorksOn, Touches
  <2>l. Landed(w) = "write"
    BY <1>2 DEF Landed, Repeating
  <2>k. ~CountCycle(w) /\ ~PauseRoutine(w) /\ ~Rearm(w)
    BY <1>2 DEF Ready, StageInv, StageOK, HandInv, HandOK, CountCycle, PauseRoutine, Rearm
  <2>g. stage[w] = "batch" \/ stage[w] = "resume" \/ stage[w] \in Listing
    BY <1>i DEF TypeOK, Stages, Listing
  <2>r. stage[w] # "resume" => OneJob(w, t)
    BY <1>i, <2>g, <2>w DEF OnceInv, RunOK, Runs, ListOK, Settling
  <2>1. CASE stage[w] = "batch"
    <3>1. Runs(w, t) /\ RunOK(w, t) /\ OneJob(w, t)
      BY <1>i, <2>1, <2>w DEF Runs, OnceInv, RunOK
    <3>2. \A v \in Workers \ {w} : NoPart(v, t)
      BY <1>s, <3>1, OwnRow
    <3>3. \A v \in Workers \ {w} : ~Runs(v, t)' /\ ~(stage'[v] = "resume" /\ Touches(v, t)')
      BY <1>o, <3>1 DEF Others, RunOK, Same
    <3>4. (\A j \in jobs[w] : j.task # t) /\ cur[w].claim <= gen[t]
      BY <2>w, <3>1 DEF OneJob, RunOK
    <3>5. ContOK(w, t)' /\ ListOK(w, t)'
      BY <1>s, <2>1 DEF ContOK, Continues, ListOK, Settling, Listing
    <3>p. \A a, b \in parked'[t] : a = b
      BY <1>i, <1>s DEF OnceInv
    <3>6. ASSUME Return(w), status'[t] # "queued" PROVE OnceInv(t)'
      BY <1>i, <1>o, <2>r, <2>w, <3>2, <3>6, <3>p, OnceLeft, ReturnLeaves
    <3>7. status[t] \in {"running", "cancelled", "failed"}
      BY <3>1 DEF RunOK
    <3>8. CASE Load(w)
      <4>1. CASE ~Return(w)
        <5>1. pc[w] = "load" /\ pc'[w] = "fence" /\ cur' = cur /\ status' = status /\ gen' = gen
          BY <1>i, <2>1, <3>8, <4>1 DEF Load, Goto, TypeOK, taskVars
        <5>2. WorksOn(w, t)' /\ (HoldsClaimOf(w, t)' => HoldsClaimOf(w, t))
          BY <1>2, <1>s, <5>1 DEF WorksOn, Working, HoldsClaimOf
        <5>3. RunOK(w, t)'
          BY <1>s, <3>1, <3>3, <3>4, <5>1, <5>2 DEF RunOK, OneJob
        <5> QED BY <1>o, <3>2, <3>5, <3>7, <3>p, <5>1, <5>3, OnceAlone
      <4> QED BY <3>6, <3>7, <3>8, <4>1 DEF Load, taskVars
    <3>9. CASE FenceClaim(w)
      <4>1. CASE Fence(cur[w].task, cur[w].claim) /\ pc'[w] = Landed(w) /\ cur' = cur
        <5>1. /\ pc[w] = "fence" /\ pc'[w] = "write" /\ gen[t] = cur[w].claim /\ gen'[t] = gen[t] + 1
              /\ status' = status
          BY <1>2, <1>c, <1>i, <2>l, <3>9, <4>1 DEF FenceClaim, Fence, HoldsClaim, TypeOK
        <5>2. status[t] = "running"
          <6>1. HoldsClaimOf(w, t)
            BY <1>2, <5>1 DEF HoldsClaimOf
          <6>2. status[t] # "cancelled"
            BY <1>2, <5>1 DEF Ready, NotCancelled
          <6> QED BY <3>1, <3>7, <6>1, <6>2 DEF RunOK
        <5>3. WorksOn(w, t)' /\ ~HoldsClaimOf(w, t)'
          BY <1>2, <1>s, <3>4, <4>1, <5>1 DEF WorksOn, Working, HoldsClaimOf
        <5>4. RunOK(w, t)'
          BY <1>c, <1>s, <3>3, <3>4, <4>1, <5>1, <5>2, <5>3 DEF RunOK, OneJob
        <5> QED BY <1>o, <3>2, <3>5, <3>p, <5>1, <5>2, <5>4, OnceAlone
      <4>2. CASE Return(w) /\ status' = status
        BY <3>6, <3>7, <4>2
      <4> QED BY <1>i, <3>9, <4>1, <4>2 DEF FenceClaim, Goto, TypeOK
    <3>10. CASE WriteOutcome(w)
      <4>1. Return(w) /\ status'[t] # "queued"
        BY <1>2, <1>i, <3>10 DEF WriteOutcome, TypeOK, Outcomes
      <4> QED BY <3>6, <4>1
    <3> QED BY <2>k, <3>8, <3>9, <3>10 DEF Lands
  <2>2. CASE stage[w] = "resume"
    <3>1. Continues(w, t) /\ ContOK(w, t)
      BY <1>i, <2>2, <2>w DEF Continues, OnceInv
    <3>2. \A v \in Workers \ {w} : NoPart(v, t)
      BY <1>s, <3>1, OwnRow
    <3>p. \A a, b \in parked'[t] : a = b
      BY <1>i, <1>s DEF OnceInv
    <3>6. ASSUME Return(w), status'[t] # "queued" PROVE OnceInv(t)'
      BY <1>i, <1>o, <2>r, <2>w, <3>2, <3>6, <3>p, OnceLeft, ReturnLeaves
    <3>7. status[t] \in {"waiting_for_approval", "continuing", "cancelled"}
      BY <3>1 DEF ContOK
    <3>8. CASE Load(w)
      <4>1. CASE ~Return(w)
        <5>1. pc'[w] = "write" /\ status' = status /\ status[t] # "cancelled"
          BY <1>2, <1>i, <2>2, <2>l, <3>8, <4>1 DEF Load, Goto, TypeOK, taskVars
        <5>2. \A v \in Workers \ {w} : ~Continues(v, t)'
          BY <1>o, <3>2 DEF Others, NoPart
        <5>3. ContOK(w, t)'
          BY <3>7, <5>1, <5>2 DEF ContOK
        <5>4. RunOK(w, t)' /\ ListOK(w, t)'
          BY <1>s, <2>2 DEF RunOK, Runs, ListOK, Settling, Listing
        <5> QED BY <1>o, <3>2, <3>7, <3>p, <5>1, <5>3, <5>4, OnceAlone
      <4> QED BY <3>6, <3>7, <3>8, <4>1 DEF Load, taskVars
    <3>9. CASE WriteOutcome(w)
      <4>1. Return(w) /\ status'[t] # "queued"
        BY <1>2, <1>i, <3>9 DEF WriteOutcome, TypeOK, Outcomes
      <4> QED BY <3>6, <4>1
    <3>10. ~FenceClaim(w)
      BY <2>2 DEF Ready, StageInv, StageOK, FenceClaim
    <3> QED BY <2>k, <3>8, <3>9, <3>10 DEF Lands
  <2>3. CASE stage[w] \in Listing
    <3>1. Settling(w, t) /\ ListOK(w, t) /\ OneJob(w, t) /\ key[w] # 0 /\ out[w] = "failed"
      BY <1>i, <2>3, <2>w DEF Settling, OnceInv, ListOK
    <3>2. status[t] \in {"running", "continuing"}
      BY <3>1 DEF ListOK
    <3>3. ASSUME NEW v \in Workers \ {w} PROVE ~Continues(v, t)
      <4>1. Continues(v, t) => pc[v] # "idle" /\ status[t] # "running"
        BY <1>i DEF OnceInv, ContOK, Continues, WorksOn, Working
      <4>2. stage[w] = "continuing" => pc[v] = "idle"
        BY <1>s DEF Ready, StartingAlone, Working
      <4> QED BY <3>1, <4>1, <4>2 DEF ListOK
    <3>4. ASSUME gen' = gen, NEW v \in Workers, Runs(v, t) \/ Runs(v, t)' PROVE ~HoldsClaimOf(v, t)'
      <4>1. v # w
        BY <1>s, <2>3, <3>4 DEF Runs, Listing
      <4> QED BY <1>o, <2>w, <3>1, <3>4, <4>1 DEF Others, ListOK
    <3>5. ASSUME gen' = gen, ListOK(w, t)', status'[t] = status[t] \/ status'[t] = "failed" PROVE OnceInv(t)'
      <4>1. gen'[t] >= gen[t] /\ gen'[t] \in Nat /\ status[t] # "queued" /\ stage'[w] = stage[w]
        BY <1>c, <1>s, <3>2, <3>5
      <4> QED BY <1>i, <1>o, <1>q, <1>s, <2>3, <3>3, <3>4, <3>5, <4>1, OnceSettled
    <3>6. CASE Load(w)
      <4>1. status' = status /\ gen' = gen
        BY <3>6 DEF Load, taskVars
      <4>2. UNCHANGED <<jobs, cur, out, key, stage>> /\ pc'[w] = "write"
        BY <1>2, <1>i, <2>3, <2>l, <3>2, <3>6 DEF Load, Goto, TypeOK, Listing
      <4>3. ListOK(w, t)'
        <5>1. \A v \in Workers : Runs(v, t)' => ~HoldsClaimOf(v, t)'
          BY <3>4, <4>1
        <5>2. OneJob(w, t)'
          BY <2>w, <3>1, <4>2 DEF OneJob
        <5> QED BY <3>1, <4>1, <4>2, <5>1, <5>2 DEF ListOK
      <4> QED BY <3>5, <4>1, <4>3
    <3>7. CASE WriteOutcome(w)
      <4>1. Return(w) /\ gen' = gen /\ status'[t] = "failed"
        BY <1>2, <1>i, <3>1, <3>7 DEF WriteOutcome, TypeOK
      <4>2. NoPart(w, t)'
        BY <1>i, <2>r, <2>w, <4>1, ReturnLeaves
      <4>3. ListOK(w, t)'
        BY <4>2 DEF NoPart, ListOK
      <4> QED BY <3>5, <4>1, <4>3
    <3>8. ~FenceClaim(w)
      BY <2>3 DEF Ready, StageInv, StageOK, FenceClaim, Listing
    <3> QED BY <2>k, <3>6, <3>7, <3>8 DEF Lands
  <2> QED BY <2>1, <2>2, <2>3, <2>g
<1> QED BY <1>1, <1>2

\* A turn ends, or a coroutine starts while nobody runs.
LEMMA BeginsOnce ==
  ASSUME NEW t \in Tasks \ Routines, Ready(t), NEW h, Hosts = {h}, NEW w \in Workers,
         WorkerStep(w), AnyTurnEnds(w) \/ RenewLease(w) \/ StartSweep(w)
                        \/ (\E u \in Tasks : StartRetry(w, u)) \/ StartPass(w)
                        \/ \E k \in Hosts : StartHost(k, w)
  PROVE  OnceInv(t)'
<1>o. Others(w, t)
  BY OthersStay DEF Ready
<1>i. TypeOK /\ OnceInv(t)
  BY DEF Ready
<1>1. CASE AnyTurnEnds(w)
  <2>1. PICK s \in TurnStatuses : TurnEnds(w, s)
    BY <1>1 DEF AnyTurnEnds
  <2>2. /\ pc[w] = "turn" /\ pc'[w] = "load" /\ Free(HostOf[w])
        /\ UNCHANGED <<status, gen, cur, key, jobs, stage>>
        /\ parked' = parked \/ parked' = [parked EXCEPT ![cur[w].task] = @ \union {cur[w].claim}]
    BY <1>i, <2>1 DEF TurnEnds, Goto, TypeOK
  <2>c. cur[w].task \in Tasks
    BY <1>i DEF TypeOK, Job
  <2>3. CASE cur[w].task # t
    <3>1. ~WorksOn(w, t)' /\ parked'[t] = parked[t]
      BY <1>i, <2>2, <2>3, <2>c DEF WorksOn, TypeOK
    <3> QED BY <1>i, <1>o, <2>2, <3>1, FewerOf, OnceAside
  <2>4. CASE cur[w].task = t
    <3>1. WorksOn(w, t) /\ WorksOn(w, t)' /\ Touches(w, t)
      BY <2>2, <2>4 DEF WorksOn, Working, Touches
    <3>2. stage[w] \in {"batch", "resume"}
      BY <2>2 DEF Ready, StageInv, StageOK
    <3>3. Runs(w, t) \/ Continues(w, t)
      BY <3>1, <3>2 DEF Runs, Continues
    <3>4. \A v \in Workers \ {w} : NoPart(v, t)
      BY <2>2, <3>3, OwnRow
    <3>5. parked[t] = {} /\ status[t] # "queued"
      BY <1>i, <2>2, <3>3 DEF OnceInv, RunOK, ContOK
    <3>6. \A a, b \in parked'[t] : a = b
      BY <1>i, <2>2, <2>4, <3>5 DEF TypeOK
    <3>7. ListOK(w, t)'
      BY <2>2, <3>2 DEF ListOK, Settling, Listing
    <3>8. RunOK(w, t)'
      <4> SUFFICES ASSUME stage[w] = "batch" PROVE RunOK(w, t)'
        BY <2>2 DEF RunOK, Runs
      <4>1. Runs(w, t) /\ RunOK(w, t)
        BY <1>i, <3>1 DEF Runs, OnceInv
      <4>2. \A v \in Workers \ {w} : ~Runs(v, t)' /\ ~(stage'[v] = "resume" /\ Touches(v, t)')
        BY <1>o, <4>1 DEF Others, RunOK, Same
      <4>3. HoldsClaimOf(w, t)' => HoldsClaimOf(w, t)
        BY <2>2 DEF HoldsClaimOf
      <4>4. OneJob(w, t)'
        BY <2>2, <3>1, <4>1 DEF RunOK, OneJob
      <4> QED BY <2>2, <3>1, <4>1, <4>2, <4>3, <4>4 DEF RunOK
    <3>9. ContOK(w, t)'
      <4> SUFFICES ASSUME stage[w] = "resume" PROVE ContOK(w, t)'
        BY <2>2 DEF ContOK, Continues
      <4>1. Continues(w, t) /\ ContOK(w, t)
        BY <1>i, <3>1 DEF Continues, OnceInv
      <4>2. \A v \in Workers \ {w} : ~Continues(v, t)'
        BY <1>o, <3>4 DEF Others, NoPart
      <4> QED BY <2>2, <4>1, <4>2 DEF ContOK
    <3> QED BY <1>o, <2>2, <3>4, <3>5, <3>6, <3>7, <3>8, <3>9, OnceAlone
  <2> QED BY <2>3, <2>4
<1>2. CASE RenewLease(w)
  <2>1. UNCHANGED <<status, gen, parked, pc, cur, key, jobs, stage, out>>
    BY <1>2 DEF RenewLease
  <2>2. Fewer(w, t)
    BY <2>1 DEF Fewer, JobsFrom, OneJob, WorksOn, Same
  <2> QED BY <1>i, <1>o, <2>1, <2>2, OnceAside
<1>3. ASSUME NEW S \in SUBSET Tasks, jobs'[w] = ParkedTurns(S), pc'[w] = "sweep", stage'[w] = "resume",
             t \in S => status[t] = "waiting_for_approval", UNCHANGED taskVars
      PROVE  OnceInv(t)'
  <2>1. ~WorksOn(w, t)'
    BY <1>3 DEF WorksOn, Working
  <2>2. Touches(w, t)' => status[t] = "waiting_for_approval"
    BY <1>3, <2>1 DEF Touches, ParkedTurns
  <2>3. status[t] = "waiting_for_approval" => \A v \in Workers : ~Runs(v, t)
    BY <1>i DEF OnceInv, RunOK
  <2>4. ListOK(w, t)'
    BY <1>3 DEF ListOK, Settling, Listing
  <2> QED BY <1>3, <1>i, <1>o, <2>1, <2>2, <2>3, <2>4, OnceListed DEF taskVars
<1>4. CASE StartSweep(w)
  <2>1. /\ jobs'[w] = ParkedTurns(InStatus("waiting_for_approval")) /\ pc'[w] = "sweep"
        /\ stage'[w] = "resume" /\ UNCHANGED taskVars
    BY <1>4, <1>i DEF StartSweep, Goto, TypeOK
  <2>2. /\ InStatus("waiting_for_approval") \in SUBSET Tasks
        /\ t \in InStatus("waiting_for_approval") => status[t] = "waiting_for_approval"
    BY DEF InStatus
  <2> QED BY <1>3, <2>1, <2>2
<1>5. ASSUME NEW u \in Tasks, StartRetry(w, u) PROVE OnceInv(t)'
  <2>1. jobs'[w] = ParkedTurns({u}) /\ pc'[w] = "sweep" /\ stage'[w] = "resume" /\ UNCHANGED taskVars
    BY <1>5, <1>i DEF StartRetry, Goto, TypeOK
  <2>2. {u} \in SUBSET Tasks /\ (t \in {u} => status[t] = "waiting_for_approval")
    BY <1>5 DEF StartRetry, Ready, PastInv
  <2> QED BY <1>3, <2>1, <2>2
<1>6. ASSUME NEW S \in SUBSET Tasks, jobs'[w] = Read(S), pc'[w] = "settle",
             stage'[w] \in {"lapsed", "running"}, t \in S => status[t] = "running", UNCHANGED taskVars
      PROVE  OnceInv(t)'
  <2>1. OneJob(w, t)' /\ ~WorksOn(w, t)' /\ (Touches(w, t)' => status[t] = "running")
    BY <1>6, <1>i, ReadOnce
  <2>2. ListOK(w, t)'
    BY <1>6, <2>1 DEF ListOK, Settling, taskVars
  <2> QED BY <1>6, <1>i, <1>o, <2>1, <2>2, OnceListed DEF taskVars
<1>7. CASE StartPass(w)
  <2>1. /\ jobs'[w] = Read(Lapsed) /\ pc'[w] = "settle" /\ stage'[w] = "lapsed" /\ UNCHANGED taskVars
    BY <1>7, <1>i DEF StartPass, Goto, TypeOK
  <2>2. Lapsed \in SUBSET Tasks /\ (t \in Lapsed => status[t] = "running")
    BY DEF Lapsed
  <2> QED BY <1>6, <2>1, <2>2
<1>8. ASSUME NEW k \in Hosts, StartHost(k, w) PROVE OnceInv(t)'
  <2>1. /\ jobs'[w] = Read(InStatus("running")) /\ pc'[w] = "settle" /\ stage'[w] = "running"
        /\ UNCHANGED taskVars
    BY <1>8, <1>i DEF StartHost, Goto, TypeOK
  <2>2. InStatus("running") \in SUBSET Tasks /\ (t \in InStatus("running") => status[t] = "running")
    BY DEF InStatus
  <2> QED BY <1>6, <2>1, <2>2
<1> QED BY <1>1, <1>2, <1>4, <1>5, <1>7, <1>8

LEMMA OnceStep ==
  ASSUME NEW t \in Tasks \ Routines, Ready(t), NEW h, Hosts = {h}, NEW w \in Workers, WorkerStep(w)
  PROVE  OnceInv(t)'
<1>1. ~ContinuationBlocked(w) /\ ~JobsGetLate(w)
  BY DEF Ready, PlainTasks, ContinuationBlocked, JobsGetLate
<1> QED BY <1>1, SettlesOnce, ClaimsOnce, WalksOnce, SweepsOnce, LandsOnce, BeginsOnce
        DEF WorkerStep, Advance

\* A crash leaves nobody any part of a task.
LEMMA OnceCrash ==
  ASSUME TypeOK, NEW t \in Tasks, OnceInv(t), NEW h, Hosts = {h}, NEW k \in Hosts, Crash(k)
  PROVE  OnceInv(t)'
<1>1. \A w \in Workers : pc'[w] = "idle" /\ stage'[w] = "batch" /\ jobs'[w] = {}
  BY WorkerSets DEF Crash
<1>2. UNCHANGED <<status, gen, parked>>
  BY DEF Crash, taskVars
<1>3. \A w \in Workers : ~Touches(w, t)' /\ NoPart(w, t)'
  BY <1>1 DEF Touches, WorksOn, Working, NoPart, Runs, Continues, Settling
<1> QED BY <1>2, <1>3 DEF OnceInv, NoPart, RunOK, ContOK, ListOK

\* The owner cancels a task while no coroutine runs; a tab takes a parked turn.
LEMMA OnceOwner ==
  ASSUME NEW t \in Tasks \ Routines, Ready(t), NEW h, Hosts = {h}, Aside
  PROVE  OnceInv(t)'
<1>i. TypeOK /\ OnceInv(t) /\ status[t] # "paused" /\ NoOwnerWrites
  BY DEF Ready, PastInv, PlainTasks
<1>1. UNCHANGED workVars /\ gen'[t] = gen[t] /\ (status'[t] = status[t] \/ status'[t] = "cancelled")
  BY <1>i, AsideRow
<1>2. parked'[t] \subseteq parked[t]
  BY <1>i DEF Aside, Owner, Interrupt, RunNow, ContinueRoutine, TabContinues, HoldHost, ReleaseHost,
     SlotComes, LeaseLapses, vars, taskVars, TypeOK
<1>3. CASE status'[t] = status[t]
  <2>1. \A v \in Workers : Fewer(v, t)
    BY <1>1 DEF workVars, Fewer, JobsFrom, OneJob, WorksOn, Same
  <2> QED BY <1>1, <1>2, <1>3, <1>i, <2>1, OnceKept
<1>4. CASE status'[t] = "cancelled" /\ status'[t] # status[t]
  <2>1. \E u \in Tasks, a \in OwnerActions : Interrupt(u, a)
    BY <1>4, <1>i DEF Aside, Owner, RunNow, ContinueRoutine, TabContinues, HoldHost, ReleaseHost,
       SlotComes, LeaseLapses, vars, taskVars, TypeOK
  <2>2. \A v \in Workers : pc[v] \in {"idle", "turn"}
    BY <2>1, NoRunner DEF Interrupt, SomeHostServes, Free, Ready
  <2>3. \A v \in Workers :
           /\ Touches(v, t)' <=> Touches(v, t)
           /\ WorksOn(v, t)' <=> WorksOn(v, t)
           /\ HoldsClaimOf(v, t)' <=> HoldsClaimOf(v, t)
           /\ OneJob(v, t)' <=> OneJob(v, t)
    BY <1>1 DEF workVars, Touches, WorksOn, HoldsClaimOf, OneJob
  <2>4. \A v \in Workers :
           /\ Runs(v, t)' <=> Runs(v, t)
           /\ Continues(v, t)' <=> Continues(v, t)
           /\ ~Settling(v, t)'
    BY <1>1, <2>2, <2>3 DEF workVars, Runs, Continues, Settling, Ready, StageInv, StageOK, HandInv, HandOK,
       Touches, WorksOn, Working, Listing
  <2>5. ASSUME NEW v \in Workers PROVE RunOK(v, t)'
    BY <1>1, <1>2, <1>4, <1>i, <2>2, <2>3, <2>4 DEF OnceInv, RunOK, workVars
  <2>6. ASSUME NEW v \in Workers PROVE ContOK(v, t)' /\ ListOK(v, t)'
    BY <1>1, <1>2, <1>4, <1>i, <2>2, <2>4 DEF OnceInv, ContOK, ListOK, workVars
  <2> QED BY <1>2, <1>4, <1>i, <2>5, <2>6 DEF OnceInv
<1> QED BY <1>1, <1>3, <1>4

----------------------------------------------------------------------------
(***************************************************************************)
(* Both kinds of task together.                                            *)
(***************************************************************************)
EndInv ==
    /\ HandInv /\ StartingAlone
    /\ \A t \in Tasks : NotCancelled(t)
    /\ \A t \in Routines : LicenseInv(t)
    /\ \A t \in Tasks \ Routines : PastInv(t) /\ OnceInv(t)

LEMMA EndInit == Init => EndInv
<1> SUFFICES ASSUME Init PROVE EndInv
  OBVIOUS
<1>1. HandInv /\ StartingAlone
  BY DEF Init, HandInv, HandOK, StartingAlone
<1>2. ASSUME NEW t \in Tasks
      PROVE  NotCancelled(t) /\ LicenseInv(t) /\ PastInv(t) /\ OnceInv(t)
  <2>1. \A w \in Workers : ~Touches(w, t) /\ ~HoldsClaimOf(w, t) /\ ~WorksOn(w, t)
    BY <1>2 DEF Init, Touches, WorksOn, Working, HoldsClaimOf
  <2>2. status[t] = "queued" /\ parked[t] = {}
    BY <1>2 DEF Init
  <2>3. NotCancelled(t) /\ LicenseInv(t) /\ PastInv(t)
    BY <2>1, <2>2 DEF NotCancelled, LicenseInv, Licensed, PastInv
  <2>4. OnceInv(t)
    BY <2>1, <2>2 DEF OnceInv, RunOK, ContOK, ListOK, Runs, Continues, Settling
  <2> QED BY <2>3, <2>4
<1> QED BY <1>1, <1>2, TaskSets DEF EndInv

LEMMA EndStep ==
  ASSUME NEW h, Hosts = {h}, PlainTasks, IInv, Loop, StreakInv, EndInv, [Next]_vars
  PROVE  EndInv'
<1>0. TypeOK /\ SkippedRearms /\ Keys /\ StageInv /\ HandInv /\ StartingAlone /\ NoOwnerWrites
  BY DEF IInv, StreakInv, EndInv, PlainTasks
<1>1. HandInv'
  BY <1>0, HandStep
<1>2. StartingAlone'
  BY <1>0, StartingStep
<1>3. ASSUME NEW t \in Tasks PROVE NotCancelled(t)'
  BY <1>0, CheckedStep DEF EndInv
<1>4. ASSUME NEW t \in Routines PROVE LicenseInv(t)'
  <2>0. RoutineInv(t) /\ LicenseInv(t) /\ t \in Tasks
    BY TaskSets DEF StreakInv, EndInv
  <2>1. ASSUME NEW w \in Workers, WorkerStep(w) PROVE LicenseInv(t)'
    BY <1>0, <2>0, <2>1, LicenceStep
  <2>2. ASSUME NEW k \in Hosts, Crash(k) PROVE LicenseInv(t)'
    <3>1. \A w \in Workers : pc'[w] = "idle" /\ jobs'[w] = {}
      BY <2>2, WorkerSets DEF Crash
    <3> QED BY <3>1 DEF LicenseInv, Licensed, HoldsClaimOf, WorksOn, Working
  <2>3. CASE Aside
    BY <1>0, <2>0, <2>3, LicenceAside
  <2> QED BY <2>1, <2>2, <2>3, NextSplit DEF Aside
<1>5. ASSUME NEW t \in Tasks \ Routines PROVE PastInv(t)' /\ OnceInv(t)'
  <2>0. Ready(t)
    BY <1>0 DEF Ready, EndInv
  <2>1. PastInv(t)'
    BY <1>0, <2>0, PastStep DEF Ready
  <2>2. ASSUME NEW w \in Workers, WorkerStep(w) PROVE OnceInv(t)'
    BY <2>0, <2>2, OnceStep
  <2>3. ASSUME NEW k \in Hosts, Crash(k) PROVE OnceInv(t)'
    BY <2>0, <2>3, OnceCrash DEF Ready
  <2>4. ASSUME Aside PROVE OnceInv(t)'
    BY <2>0, <2>4, OnceOwner
  <2>5. OnceInv(t)'
    BY <2>2, <2>3, <2>4, NextSplit DEF Aside
  <2> QED BY <2>1, <2>5
<1> QED BY <1>1, <1>2, <1>3, <1>4, <1>5 DEF EndInv

\* What a coroutine writes over is a task that has not ended.
LEMMA EndedKept ==
  ASSUME PlainTasks, TypeOK, StreakInv, EndInv, NEW w \in Workers, WorkerStep(w),
         NEW t \in Tasks, status[t] \in Terminal
  PROVE  status'[t] = status[t]
<1>0. cur[w].task \in Tasks /\ \A j \in jobs[w] : j.task \in Tasks
  BY DEF TypeOK, Job
<1>1. CASE Settles(w)
  BY <1>1 DEF Settles, SettleNext, NextList, HostStarted, taskVars
<1>2. CASE Claims(w)
  BY <1>2 DEF Claims, PassHeld, ClaimDue, Due, Terminal, taskVars
<1>3. CASE Walks(w)
  BY <1>3 DEF Walks, BatchDone, SkipMissed, RefuseOrphan, RefuseGoalStep, StartTurn, PlainTasks, Skips, taskVars
<1>4. CASE Sweeps(w)
  BY <1>0, <1>4 DEF Sweeps, SweepDone, LeaveParked, ContinueParked, TurnTaken, TypeOK, taskVars
<1>5. CASE Lands(w)
  <2>1. CASE Load(w) \/ FenceClaim(w) \/ CountCycle(w)
    BY <2>1 DEF Load, FenceClaim, CountCycle, taskVars
  <2>2. CASE PauseRoutine(w) \/ Rearm(w)
    <3>1. /\ cur[w].task # t => status'[t] = status[t]
          /\ pc[w] \in {"pause", "rearm"}
      BY <1>0, <2>2 DEF PauseRoutine, Rearm, TypeOK
    <3>2. ASSUME cur[w].task = t PROVE FALSE
      <4>1. t \in Routines
        BY <3>1, <3>2 DEF StreakInv, StageInv, StageOK, EndInv, HandInv, HandOK
      <4>2. WorksOn(w, t) /\ key[w] # 0
        BY <3>1, <3>2, <4>1 DEF StreakInv, RoutineInv, WorkerInv, WorksOn, Working
      <4>3. status[t] \in {"running", "cancelled"}
        BY <4>1, <4>2 DEF EndInv, LicenseInv, Licensed
      <4>4. status[t] # "cancelled"
        BY <3>1, <3>2 DEF EndInv, NotCancelled
      <4> QED BY <4>3, <4>4 DEF Terminal
    <3> QED BY <3>1, <3>2
  <2>3. CASE WriteOutcome(w)
    <3>1. /\ cur[w].task # t => status'[t] = status[t]
          /\ pc[w] = "write"
      BY <1>0, <2>3 DEF WriteOutcome, TypeOK
    <3>2. ASSUME cur[w].task = t PROVE FALSE
      <4>1. WorksOn(w, t) /\ Touches(w, t)
        BY <3>1, <3>2 DEF WorksOn, Working, Touches
      <4>2. t \notin Routines
        BY <3>1, <4>1 DEF StreakInv, RoutineInv, WorkerInv
      <4>3. RunOK(w, t) /\ ContOK(w, t) /\ ListOK(w, t)
        BY <4>2 DEF EndInv, OnceInv
      <4>4. stage[w] = "batch" \/ stage[w] = "resume" \/ stage[w] \in Listing
        BY DEF TypeOK, Stages, Listing
      <4> QED BY <3>1, <4>1, <4>3, <4>4
          DEF RunOK, Runs, ContOK, Continues, ListOK, Settling, Terminal
    <3> QED BY <3>1, <3>2
  <2> QED BY <1>5, <2>1, <2>2, <2>3 DEF Lands
<1>6. CASE AnyTurnEnds(w) \/ RenewLease(w) \/ JobsGetLate(w)
  BY <1>6 DEF AnyTurnEnds, TurnEnds, RenewLease, JobsGetLate, taskVars
<1>7. CASE StartSweep(w) \/ \E u \in Tasks : StartRetry(w, u)
  BY <1>7 DEF StartSweep, StartRetry, taskVars
<1>8. ASSUME NEW k \in Hosts, StartHost(k, w) \/ StartPass(w) PROVE status'[t] = status[t]
  BY <1>8 DEF StartHost, StartPass, taskVars
<1>9. ~ContinuationBlocked(w)
  BY DEF ContinuationBlocked, PlainTasks
<1> QED BY <1>1, <1>2, <1>3, <1>4, <1>5, <1>6, <1>7, <1>8, <1>9 DEF WorkerStep, Advance

\* On a workspace served by one host, only the owner moves a task that has
\* ended: no pass, settlement or continuation reopens or rewrites one
\* (lifecycle: "a terminal task is never re-run in place").  For any number of
\* tasks, routines and coroutines, however leases lapse and wherever the host
\* dies, when no run is refused or skipped, no continuation raises, and no
\* interrupt writes "paused" or "running".
THEOREM EndedStays ==
  ASSUME NEW h, Hosts = {h}, PlainTasks
  PROVE  Spec => TerminalStays
<1> DEFINE Untouched == \A t \in Tasks : status[t] \in Terminal /\ status'[t] # status[t] => Owner
<1>1. Init => Loop /\ StreakInv /\ EndInv
  BY StreakInit, EndInit
<1>2. IInv /\ (Loop /\ StreakInv /\ EndInv) /\ [Next]_vars => (Loop /\ StreakInv /\ EndInv)'
  BY StreakStep, EndStep DEF PlainTasks
<1>3. IInv /\ (Loop /\ StreakInv /\ EndInv) /\ [Next]_vars => [Untouched]_vars
  <2> SUFFICES ASSUME IInv, Loop, StreakInv, EndInv, [Next]_vars,
                      NEW t \in Tasks, status[t] \in Terminal, status'[t] # status[t]
               PROVE  Owner
    OBVIOUS
  <2>1. \A w \in Workers : ~WorkerStep(w)
    BY EndedKept DEF IInv
  <2>2. \A k \in Hosts : ~Crash(k)
    BY DEF Crash, taskVars
  <2>3. \A u \in Tasks : ~SlotComes(u) /\ ~LeaseLapses(u)
    BY DEF SlotComes, LeaseLapses
  <2>4. ~UNCHANGED vars
    BY DEF vars, taskVars
  <2> QED BY <2>1, <2>2, <2>3, <2>4, NextSplit
<1> QED BY <1>1, <1>2, <1>3, Invariance, PTL DEF Spec, TerminalStays
=============================================================================
