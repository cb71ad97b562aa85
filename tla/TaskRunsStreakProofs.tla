------------------------ MODULE TaskRunsStreakProofs ------------------------
(***************************************************************************)
(* On one host, a routine's failure streak never runs ahead of the cycles  *)
(* it was claimed for.                                                     *)
(*                                                                         *)
(* Each claim is a credit of one count.  It is open while some coroutine   *)
(* still holds the current claim, has just fenced it, or the row says      *)
(* "running" and nobody is past the count: then the streak is one short of *)
(* the cycles.  The fence makes every copy of the claim stale, so the      *)
(* credit is spent once; a crash after the count and before the write      *)
(* leaves the row running, and costs one more.                             *)
(*                                                                         *)
(* It is a theorem of the scheduler alone.  The interrupts "pause" and     *)
(* "resume" write the row's status without a claim and lend it a credit    *)
(* that no cycle paid for, so they are left out here.                      *)
(***************************************************************************)
EXTENDS TaskRunsProofs

\* Where cur[w] is the row the coroutine works on.
Working == {"turn", "load", "fence", "count", "pause", "rearm", "write"}
WorksOn(w, t) == pc[w] \in Working /\ cur[w].task = t

HoldsClaimOf(w, t) ==
    \/ \E j \in jobs[w] : j.task = t /\ j.claim = gen[t]
    \/ pc[w] \in {"turn", "load", "fence"} /\ cur[w].task = t /\ cur[w].claim = gen[t]

MayCount(w, t) == pc[w] \in {"load", "count"} /\ key[w] # 0 /\ cur[w].task = t
Counted(w, t) == pc[w] \in {"pause", "rearm"} /\ cur[w].task = t

Owed(t) ==
    \/ \E w \in Workers : HoldsClaimOf(w, t) \/ MayCount(w, t)
    \/ status[t] = "running" /\ \A w \in Workers : ~Counted(w, t)

\* Which list a coroutine walks where, and that only a routine's cycles are counted.
StageOK(w) ==
    /\ pc[w] = "settle" => stage[w] \in {"lapsed", "running", "continuing"}
    /\ pc[w] \in {"batch", "fence"} => stage[w] = "batch"
    /\ pc[w] = "turn" => stage[w] \in {"batch", "resume"}
    /\ pc[w] = "sweep" => stage[w] = "resume"
    /\ pc[w] \in {"count", "pause"} => cur[w].task \in Routines

StageInv == \A w \in Workers : StageOK(w)

\* A routine waits for no approval, and one that is paused has failed often and has no claim.
RowInv(t) ==
    /\ status[t] \notin {"waiting_for_approval", "continuing"}
    /\ status[t] = "running" => slot[t] # "none"
    /\ status[t] = "paused" =>
          /\ fails[t] >= FailureLimit
          /\ \A w \in Workers : ~HoldsClaimOf(w, t) /\ (WorksOn(w, t) => key[w] = 0)

\* What a coroutine holds of a routine; a key makes every claim on its row stale.
WorkerInv(w, t) ==
    /\ \A j \in jobs[w] : j.task = t =>
          stage[w] # "resume" /\ slot[t] # "none" /\ j.claim <= gen[t]
    /\ WorksOn(w, t) =>
          /\ stage[w] # "resume" /\ slot[t] # "none" /\ cur[w].claim <= gen[t]
          /\ pc[w] # "write"
          /\ pc[w] = "pause" => fails[t] >= FailureLimit
          /\ key[w] = 0 <=> pc[w] \in {"turn", "fence"} \/ (pc[w] = "load" /\ stage[w] = "batch")
          /\ key[w] # 0 => \A v \in Workers : ~HoldsClaimOf(v, t)

CreditInv(t) ==
    /\ fails[t] <= cycles[t] + crashes
    /\ Owed(t) => fails[t] + 1 <= cycles[t] + crashes

RoutineInv(t) == RowInv(t) /\ CreditInv(t) /\ \A w \in Workers : WorkerInv(w, t)

StreakInv ==
    /\ StageInv
    /\ \A t \in Tasks \ Routines : fails[t] = 0
    /\ \A t \in Routines : RoutineInv(t)

NoOwnerWrites == OwnerActions \cap {"pause", "resume"} = {}

----------------------------------------------------------------------------
\* On one host, a coroutine that holds the loop is the only one that runs.
LEMMA LoneRunner ==
  ASSUME Loop, NEW h, Hosts = {h}, NEW w \in Workers, Holds(w)
  PROVE  \A v \in Workers \ {w} : pc[v] \in {"idle", "turn"}
<1> SUFFICES ASSUME NEW v \in Workers \ {w}, pc[v] \notin {"idle", "turn"} PROVE FALSE
  OBVIOUS
<1>1. HostOf[v] = HostOf[w]
  BY WorkerSets
<1> QED BY <1>1 DEF Loop, RunnerHolds, Holds

\* While nobody holds the loop, nobody runs.
LEMMA NoRunner ==
  ASSUME Loop, NEW h, Hosts = {h}, loop[h] = NoOne
  PROVE  \A v \in Workers : pc[v] \in {"idle", "turn"}
<1> SUFFICES ASSUME NEW v \in Workers, pc[v] \notin {"idle", "turn"} PROVE FALSE
  OBVIOUS
<1>1. HostOf[v] = h /\ v # NoOne
  BY WorkerSets, NoOneIsNoWorker
<1> QED BY <1>1 DEF Loop, RunnerHolds, Holds

\* A coroutine as it was.
Same(w) == pc'[w] = pc[w] /\ cur'[w] = cur[w] /\ key'[w] = key[w] /\ stage'[w] = stage[w]

\* The rows a coroutine still has of t, it had before.
JobsFrom(w, t) ==
    \A j \in jobs'[w] : j.task = t =>
        stage'[w] = stage[w] /\ \E i \in jobs[w] : i.task = t /\ i.claim = j.claim

\* What a coroutine can do about t without touching its claim.
Moves(w, t) ==
    \/ ~(pc'[w] \in Working /\ cur'[w].task = t)
    \/ Same(w)
    \/ /\ pc'[w] = "turn" /\ key'[w] = 0 /\ stage'[w] = stage[w] /\ cur'[w] \in jobs[w]
    \/ /\ cur'[w] = cur[w] /\ key'[w] = key[w] /\ stage'[w] = stage[w]
       /\ \/ pc[w] = "turn" /\ pc'[w] = "load" /\ stage[w] = "batch"
          \/ pc[w] = "load" /\ pc'[w] = "fence" /\ stage[w] = "batch"
          \/ pc[w] = "load" /\ pc'[w] \in {"count", "rearm"} /\ stage[w] # "batch"

Rests(t) ==
    /\ gen'[t] = gen[t] /\ fails'[t] = fails[t] /\ cycles'[t] = cycles[t] /\ crashes' = crashes
    /\ slot[t] # "none" => slot'[t] # "none"
    /\ status'[t] = status[t] \/ status'[t] \in {"queued", "completed", "failed", "cancelled"}

\* A step that moves no claim of t and counts no cycle of it keeps what holds of t.
LEMMA AsideKeeps ==
  ASSUME TypeOK, NEW t \in Tasks, RoutineInv(t), Rests(t),
         \A w \in Workers : JobsFrom(w, t) /\ Moves(w, t),
         status'[t] = "running" => \A w \in Workers : Counted(w, t) => Same(w)
  PROVE  RoutineInv(t)'
<1>0. /\ gen[t] \in Nat /\ fails[t] \in Nat /\ cycles[t] \in Nat /\ crashes \in Nat
      /\ FailureLimit \in Nat
  BY Bounds DEF TypeOK
<1>1. ASSUME NEW w \in Workers, HoldsClaimOf(w, t)' PROVE HoldsClaimOf(w, t)
  <2>1. gen'[t] = gen[t]
    BY DEF Rests
  <2>2. ASSUME NEW j \in jobs'[w], j.task = t, j.claim = gen'[t] PROVE HoldsClaimOf(w, t)
    BY <2>1, <2>2 DEF JobsFrom, HoldsClaimOf
  <2>3. ASSUME pc'[w] \in {"turn", "load", "fence"}, cur'[w].task = t, cur'[w].claim = gen'[t]
        PROVE  HoldsClaimOf(w, t)
    <3>1. CASE cur'[w] \in jobs[w]
      BY <2>1, <2>3, <3>1 DEF HoldsClaimOf
    <3>2. CASE cur'[w] = cur[w] /\ pc[w] \in {"turn", "load", "fence"}
      BY <2>1, <2>3, <3>2 DEF HoldsClaimOf
    <3> QED BY <2>3, <3>1, <3>2 DEF Moves, Same, Working
  <2> QED BY <1>1, <2>2, <2>3 DEF HoldsClaimOf
<1>2. ASSUME NEW w \in Workers, MayCount(w, t)' PROVE MayCount(w, t)
  <2>1. pc[w] = "turn" /\ cur[w].task = t => key[w] = 0
    BY DEF RoutineInv, WorkerInv, WorksOn, Working
  <2> QED BY <1>2, <2>1 DEF MayCount, Moves, Same, Working
<1>3. Owed(t)' => Owed(t)
  <2>1. ASSUME status'[t] = "running", \A w \in Workers : ~Counted(w, t)'
        PROVE  status[t] = "running" /\ \A w \in Workers : ~Counted(w, t)
    BY <2>1 DEF Rests, Counted, Same
  <2> QED BY <1>1, <1>2, <2>1 DEF Owed
<1>4. CreditInv(t)'
  BY <1>3 DEF CreditInv, Rests, RoutineInv
<1>5. ASSUME NEW w \in Workers, WorksOn(w, t)', key'[w] # 0 PROVE WorksOn(w, t) /\ key[w] # 0
  BY <1>5 DEF WorksOn, Moves, Same, Working
<1>6. RowInv(t)'
  BY <1>1, <1>5 DEF RowInv, RoutineInv, Rests
<1>7. ASSUME NEW w \in Workers PROVE WorkerInv(w, t)'
  <2>1. ASSUME NEW j \in jobs'[w], j.task = t
        PROVE  stage'[w] # "resume" /\ slot'[t] # "none" /\ j.claim <= gen'[t]
    BY <2>1 DEF JobsFrom, RoutineInv, WorkerInv, Rests
  <2>2. ASSUME WorksOn(w, t)'
        PROVE  /\ stage'[w] # "resume" /\ slot'[t] # "none" /\ cur'[w].claim <= gen'[t]
               /\ pc'[w] # "write"
               /\ pc'[w] = "pause" => fails'[t] >= FailureLimit
               /\ key'[w] = 0 <=> \/ pc'[w] \in {"turn", "fence"}
                                  \/ pc'[w] = "load" /\ stage'[w] = "batch"
    <3>0. WorkerInv(w, t)
      BY DEF RoutineInv
    <3>1. CASE Same(w)
      BY <2>2, <3>0, <3>1 DEF Same, WorksOn, WorkerInv, Rests
    <3>2. CASE pc'[w] = "turn" /\ key'[w] = 0 /\ stage'[w] = stage[w] /\ cur'[w] \in jobs[w]
      BY <2>2, <3>0, <3>2 DEF WorksOn, WorkerInv, Rests
    <3>3. CASE /\ cur'[w] = cur[w] /\ key'[w] = key[w] /\ stage'[w] = stage[w]
               /\ \/ pc[w] = "turn" /\ pc'[w] = "load" /\ stage[w] = "batch"
                  \/ pc[w] = "load" /\ pc'[w] = "fence" /\ stage[w] = "batch"
                  \/ pc[w] = "load" /\ pc'[w] \in {"count", "rearm"} /\ stage[w] # "batch"
      <4>1. WorksOn(w, t)
        BY <2>2, <3>3 DEF WorksOn, Working
      <4> QED BY <3>0, <3>3, <4>1 DEF WorkerInv, Rests
    <3> QED BY <2>2, <3>1, <3>2, <3>3 DEF Moves, WorksOn
  <2>3. ASSUME WorksOn(w, t)', key'[w] # 0, NEW v \in Workers PROVE ~HoldsClaimOf(v, t)'
    BY <1>1, <1>5, <2>3 DEF RoutineInv, WorkerInv
  <2> QED BY <2>1, <2>2, <2>3 DEF WorkerInv
<1> QED BY <1>4, <1>6, <1>7 DEF RoutineInv

\* The fence spends no credit, and leaves the claim to the coroutine that moved it.
LEMMA FencedKeeps ==
  ASSUME TypeOK, NEW t \in Tasks, RoutineInv(t), NEW w \in Workers, NEW g \in Nat,
         \A v \in Workers \ {w} : pc[v] \in {"idle", "turn"},
         Fence(t, g), HoldsClaimOf(w, t), slot[t] # "none",
         UNCHANGED <<status, slot, fails, cycles, crashes>>,
         \A v \in Workers \ {w} : Same(v) /\ jobs'[v] = jobs[v],
         jobs'[w] \subseteq jobs[w], stage'[w] = stage[w], stage[w] # "resume",
         cur'[w].task = t, cur'[w].claim = g, key'[w] = g + 1,
         pc'[w] \in {"count", "rearm"} \/ (pc'[w] = "load" /\ stage[w] # "batch")
  PROVE  RoutineInv(t)'
<1>0. gen[t] \in Nat /\ gen[t] = g /\ gen'[t] = g + 1
  BY DEF Fence, HoldsClaim, TypeOK
<1>j. \A v \in Workers : \A j \in jobs[v] : j.claim \in Nat
  BY DEF TypeOK, Job
<1>c. \A v \in Workers : cur[v].claim \in Nat
  BY DEF TypeOK, Job
<1>1. \A v \in Workers : ~HoldsClaimOf(v, t)'
  <2>1. ASSUME NEW v \in Workers, NEW j \in jobs'[v], j.task = t PROVE j.claim # gen'[t]
    BY <1>0, <1>j, <2>1 DEF RoutineInv, WorkerInv
  <2>2. cur'[w].claim # gen'[t]
    BY <1>0
  <2>3. ASSUME NEW v \in Workers \ {w}, pc'[v] \in {"turn", "load", "fence"}, cur'[v].task = t
        PROVE  cur'[v].claim # gen'[t]
    <3>1. WorksOn(v, t) /\ cur'[v] = cur[v]
      BY <2>3 DEF Same, WorksOn, Working
    <3> QED BY <1>0, <1>c, <3>1 DEF RoutineInv, WorkerInv
  <2> QED BY <2>1, <2>2, <2>3 DEF HoldsClaimOf
<1>2. status[t] # "paused"
  BY DEF RoutineInv, RowInv
<1>3. RowInv(t)'
  BY <1>2 DEF RoutineInv, RowInv
<1>4. CreditInv(t)'
  BY DEF RoutineInv, CreditInv, Owed
<1>5. ASSUME NEW v \in Workers \ {w} PROVE WorkerInv(v, t)'
  <2>0. WorkerInv(v, t) /\ Same(v) /\ jobs'[v] = jobs[v] /\ slot' = slot
    BY DEF RoutineInv
  <2>1. ASSUME NEW j \in jobs[v], j.task = t PROVE j.claim <= gen'[t]
    BY <1>0, <1>j, <2>0, <2>1 DEF WorkerInv
  <2>2. ASSUME WorksOn(v, t)' PROVE pc[v] = "turn" /\ key[v] = 0 /\ cur[v].claim <= gen'[t]
    <3>1. WorksOn(v, t) /\ pc[v] = "turn"
      BY <2>0, <2>2 DEF WorksOn, Working, Same
    <3> QED BY <1>0, <1>c, <2>0, <3>1 DEF WorkerInv
  <2> QED BY <2>0, <2>1, <2>2 DEF WorkerInv, Same, WorksOn
<1>6. WorkerInv(w, t)'
  <2>1. ASSUME NEW j \in jobs'[w], j.task = t PROVE j.claim <= gen'[t]
    BY <1>0, <1>j, <2>1 DEF RoutineInv, WorkerInv
  <2>2. key'[w] # 0 /\ cur'[w].claim <= gen'[t]
    BY <1>0
  <2> QED BY <1>1, <2>1, <2>2 DEF WorkerInv, WorksOn
<1> QED BY <1>3, <1>4, <1>5, <1>6 DEF RoutineInv

----------------------------------------------------------------------------
(***************************************************************************)
(* One coroutine steps and the others stay as they are.                    *)
(***************************************************************************)
Alone(w) == \A v \in Workers \ {w} : Same(v) /\ jobs'[v] = jobs[v]

WorkerStep(w) ==
    \/ Advance(w) \/ AnyTurnEnds(w) \/ RenewLease(w) \/ JobsGetLate(w)
    \/ ContinuationBlocked(w) \/ StartSweep(w) \/ \E t \in Tasks : StartRetry(w, t)
    \/ \E h \in Hosts : StartHost(h, w) \/ (HostOf[w] = h /\ StartPass(w))

LEMMA ReturnAlone ==
  ASSUME TypeOK, NEW w \in Workers, Return(w)
  PROVE  Alone(w) /\ pc'[w] \notin Working /\ jobs' = jobs /\ StageOK(w)'
<1>1. /\ pc' = [pc EXCEPT ![w] = CASE stage[w] = "batch"  -> "batch"
                                    [] stage[w] = "resume" -> "sweep"
                                    [] OTHER               -> "settle"]
      /\ stage' = stage /\ jobs' = jobs
  BY DEF Return, Goto
<1>2. pc'[w] = CASE stage[w] = "batch"  -> "batch"
                 [] stage[w] = "resume" -> "sweep"
                 [] OTHER               -> "settle"
  BY <1>1 DEF TypeOK
<1>3. \A v \in Workers \ {w} : Same(v)
  BY <1>1 DEF Return, Same, TypeOK
<1>4. stage[w] \in Stages
  BY DEF TypeOK
<1>5. pc'[w] \notin Working /\ StageOK(w)'
  BY <1>1, <1>2, <1>4 DEF Working, StageOK, Stages
<1> QED BY <1>1, <1>3, <1>5 DEF Alone

LEMMA StepAlone ==
  ASSUME TypeOK, NEW w \in Workers, WorkerStep(w)
  PROVE  Alone(w)
<1> USE DEF Same, Alone
<1>1. ASSUME Settles(w) PROVE Alone(w)
  BY <1>1 DEF Settles, SettleNext, NextList, HostStarted, Goto, TypeOK
<1>2. ASSUME Claims(w) PROVE Alone(w)
  BY <1>2 DEF Claims, PassHeld, ClaimDue, Goto, TypeOK
<1>3. ASSUME Walks(w) PROVE Alone(w)
  BY <1>3 DEF Walks, BatchDone, SkipMissed, RefuseOrphan, RefuseGoalStep, StartTurn, Goto, TypeOK
<1>4. ASSUME Sweeps(w) PROVE Alone(w)
  BY <1>4 DEF Sweeps, SweepDone, LeaveParked, ContinueParked, TurnTaken, Goto, TypeOK
<1>5. ASSUME Lands(w) PROVE Alone(w)
  <2>1. CASE Return(w)
    BY <2>1, ReturnAlone
  <2>2. CASE ~Return(w)
    BY <1>5, <2>2 DEF Lands, Load, FenceClaim, CountCycle, PauseRoutine, Rearm, WriteOutcome, Goto, TypeOK
  <2> QED BY <2>1, <2>2
<1>6. ASSUME AnyTurnEnds(w) \/ RenewLease(w) \/ JobsGetLate(w) \/ ContinuationBlocked(w)
      PROVE  Alone(w)
  BY <1>6 DEF AnyTurnEnds, TurnEnds, RenewLease, JobsGetLate, ContinuationBlocked, Goto, TypeOK
<1>7. ASSUME StartSweep(w) \/ \E t \in Tasks : StartRetry(w, t) PROVE Alone(w)
  BY <1>7 DEF StartSweep, StartRetry, Goto, TypeOK
<1>8. ASSUME NEW h \in Hosts, StartHost(h, w) \/ StartPass(w) PROVE Alone(w)
  BY <1>8 DEF StartHost, StartPass, Goto, TypeOK
<1> HIDE DEF Same, Alone
<1> QED BY <1>1, <1>2, <1>3, <1>4, <1>5, <1>6, <1>7, <1>8 DEF WorkerStep, Advance

\* Steps of no coroutine.
LEMMA NextSplit ==
  ASSUME [Next]_vars
  PROVE  \/ \E w \in Workers : WorkerStep(w)
         \/ \E h \in Hosts : Crash(h)
         \/ \E t \in Tasks : SlotComes(t) \/ LeaseLapses(t)
         \/ Owner \/ UNCHANGED vars
  BY DEF Next, WorkerStep, Starts, Ticks, Workers

LEMMA StageStep ==
  ASSUME TypeOK, StageInv, [Next]_vars PROVE StageInv'
<1> USE DEF taskVars, hostVars, workVars, history
<1>1. ASSUME NEW w \in Workers, WorkerStep(w), StageOK(w)' PROVE StageInv'
  BY <1>1, StepAlone DEF StageInv, StageOK, Alone, Same
<1>2. ASSUME NEW w \in Workers, WorkerStep(w) PROVE StageOK(w)'
  <2>0. StageOK(w) /\ pc[w] \in Locations /\ stage[w] \in Stages
    BY DEF StageInv, TypeOK
  <2>1. CASE Settles(w)
    BY <2>0, <2>1 DEF Settles, SettleNext, NextList, HostStarted, Goto, TypeOK, StageOK
  <2>2. CASE Claims(w)
    BY <2>0, <2>2 DEF Claims, PassHeld, ClaimDue, Goto, TypeOK, StageOK
  <2>3. CASE Walks(w)
    BY <2>0, <2>3 DEF Walks, BatchDone, SkipMissed, RefuseOrphan, RefuseGoalStep, StartTurn, Goto, TypeOK, StageOK
  <2>4. CASE Sweeps(w)
    BY <2>0, <2>4 DEF Sweeps, SweepDone, LeaveParked, ContinueParked, TurnTaken, Goto, TypeOK, StageOK
  <2>5. CASE Lands(w)
    <3>1. CASE Return(w)
      BY <3>1, ReturnAlone
    <3>2. CASE ~Return(w)
      <4>1. Landed(w) = "count" => cur[w].task \in Routines
        BY DEF Landed, Repeating
      <4>2. Landed(w) \in {"count", "rearm", "write"}
        BY DEF Landed
      <4>3. CASE Load(w) \/ FenceClaim(w)
        BY <2>0, <3>2, <4>1, <4>2, <4>3 DEF Load, FenceClaim, Goto, TypeOK, StageOK
      <4>4. CASE CountCycle(w)
        BY <2>0, <4>4 DEF CountCycle, Goto, TypeOK, StageOK
      <4> QED BY <2>5, <3>2, <4>3, <4>4 DEF Lands, PauseRoutine, Rearm, WriteOutcome
    <3> QED BY <3>1, <3>2
  <2>6. CASE AnyTurnEnds(w) \/ RenewLease(w) \/ JobsGetLate(w) \/ ContinuationBlocked(w)
    BY <2>0, <2>6 DEF AnyTurnEnds, TurnEnds, RenewLease, JobsGetLate, ContinuationBlocked, Goto, TypeOK, StageOK
  <2>7. CASE StartSweep(w) \/ \E t \in Tasks : StartRetry(w, t)
    BY <2>0, <2>7 DEF StartSweep, StartRetry, Goto, TypeOK, StageOK
  <2>8. ASSUME NEW h \in Hosts, StartHost(h, w) \/ StartPass(w) PROVE StageOK(w)'
    BY <2>0, <2>8 DEF StartHost, StartPass, Goto, TypeOK, StageOK
  <2> QED BY <1>2, <2>1, <2>2, <2>3, <2>4, <2>5, <2>6, <2>7, <2>8 DEF WorkerStep, Advance
<1>3. ASSUME NEW h \in Hosts, Crash(h) PROVE StageInv'
  BY <1>3 DEF Crash, StageInv, StageOK
<1>4. ASSUME UNCHANGED <<pc, stage, cur>> PROVE StageInv'
  BY <1>4 DEF StageInv, StageOK
<1>5. ASSUME NEW t \in Tasks, SlotComes(t) \/ LeaseLapses(t) PROVE StageInv'
  BY <1>4, <1>5 DEF SlotComes, LeaseLapses
<1>6. CASE Owner
  BY <1>4, <1>6 DEF Owner, Interrupt, RunNow, ContinueRoutine, TabContinues, HoldHost, ReleaseHost
<1> QED BY <1>1, <1>2, <1>3, <1>4, <1>5, <1>6, NextSplit DEF vars

----------------------------------------------------------------------------
(***************************************************************************)
(* What each step does to a routine.                                       *)
(***************************************************************************)
\* One coroutine steps aside of t, and the others stay.
LEMMA AsideOne ==
  ASSUME TypeOK, NEW t \in Tasks, RoutineInv(t), Rests(t), NEW w \in Workers, Alone(w),
         JobsFrom(w, t), Moves(w, t),
         status'[t] = "running" => (Counted(w, t) => Same(w))
  PROVE  RoutineInv(t)'
<1>1. \A v \in Workers \ {w} : JobsFrom(v, t) /\ Moves(v, t) /\ Same(v)
  BY DEF Alone, Same, JobsFrom, Moves
<1>2. \A v \in Workers : JobsFrom(v, t) /\ Moves(v, t)
  BY <1>1
<1>3. status'[t] = "running" => \A v \in Workers : Counted(v, t) => Same(v)
  BY <1>1
<1> QED BY <1>2, <1>3, AsideKeeps

\* No coroutine moves.
LEMMA AsideNone ==
  ASSUME TypeOK, NEW t \in Tasks, RoutineInv(t), Rests(t), UNCHANGED workVars
  PROVE  RoutineInv(t)'
<1>1. \A v \in Workers : JobsFrom(v, t) /\ Moves(v, t) /\ Same(v)
  BY DEF workVars, Same, JobsFrom, Moves
<1> QED BY <1>1, AsideKeeps

\* claim_due_tasks gives a routine it claims its credit.
LEMMA ClaimKeeps ==
  ASSUME TypeOK, StageInv, Loop, NEW h, Hosts = {h}, NEW t \in Tasks, RoutineInv(t),
         NEW w \in Workers, NEW S \in SUBSET Due, ClaimDue(w, S), t \in S
  PROVE  RoutineInv(t)'
<1>a. Alone(w)
  BY StepAlone DEF WorkerStep, Advance, Claims
<1>n. \A v \in Workers \ {w} : pc[v] \in {"idle", "turn"}
  BY LoneRunner DEF ClaimDue
<1>0. /\ gen[t] \in Nat /\ gen'[t] = gen[t] + 1 /\ cycles'[t] = cycles[t] + 1
      /\ fails[t] \in Nat /\ cycles[t] \in Nat /\ crashes \in Nat
      /\ status'[t] = "running" /\ slot[t] # "none"
      /\ UNCHANGED <<slot, fails, crashes, key>>
      /\ pc'[w] = "batch" /\ stage'[w] = "batch"
      /\ jobs'[w] = {[task |-> u, claim |-> gen[u] + 1, late |-> slot[u] = "missed"] : u \in S}
  BY DEF ClaimDue, Due, TypeOK, Goto, hostVars
<1>c. \A v \in Workers : cur[v].claim \in Nat /\ \A j \in jobs[v] : j.claim \in Nat
  BY DEF TypeOK, Job
<1>1. RowInv(t)' /\ CreditInv(t)'
  BY <1>0 DEF RowInv, CreditInv, RoutineInv
<1>2. WorkerInv(w, t)'
  BY <1>0 DEF WorkerInv, WorksOn, Working
<1>3. ASSUME NEW v \in Workers \ {w} PROVE WorkerInv(v, t)'
  <2>0. WorkerInv(v, t) /\ Same(v) /\ jobs'[v] = jobs[v]
    BY <1>a DEF RoutineInv, Alone
  <2>1. ASSUME NEW j \in jobs[v], j.task = t PROVE j.claim <= gen'[t]
    BY <1>0, <1>c, <2>0, <2>1 DEF WorkerInv
  <2>2. ASSUME WorksOn(v, t)' PROVE pc[v] = "turn" /\ key[v] = 0 /\ cur[v].claim <= gen'[t]
    <3>1. WorksOn(v, t) /\ pc[v] = "turn"
      BY <1>n, <2>0, <2>2 DEF WorksOn, Working, Same
    <3> QED BY <1>0, <1>c, <2>0, <3>1 DEF WorkerInv
  <2> QED BY <1>0, <2>0, <2>1, <2>2 DEF WorkerInv, Same, WorksOn
<1> QED BY <1>1, <1>2, <1>3 DEF RoutineInv

\* Listing the running rows takes a claim that is open already.
LEMMA ListKeeps ==
  ASSUME TypeOK, StageInv, Loop, NEW h, Hosts = {h}, NEW t \in Tasks, RoutineInv(t),
         NEW w \in Workers, loop[h] = NoOne, Alone(w),
         NEW S \in SUBSET InStatus("running"), jobs'[w] = Read(S),
         stage'[w] \in {"lapsed", "running"}, pc'[w] = "settle",
         UNCHANGED <<status, gen, slot, fails, cycles, crashes, key>>
  PROVE  RoutineInv(t)'
<1>n. \A v \in Workers : pc[v] \in {"idle", "turn"}
  BY NoRunner
<1>0. gen[t] \in Nat
  BY DEF TypeOK
<1>1. CASE t \notin S
  <2>1. \A j \in jobs'[w] : j.task # t
    BY <1>1 DEF Read
  <2>2. JobsFrom(w, t) /\ Moves(w, t)
    BY <2>1 DEF JobsFrom, Moves, Working
  <2>3. ~Counted(w, t)
    BY <1>n DEF Counted
  <2> QED BY <2>2, <2>3, AsideOne DEF Rests
<1>2. CASE t \in S
  <2>1. status[t] = "running"
    BY <1>2 DEF InStatus
  <2>2. Owed(t)
    BY <1>n, <2>1 DEF Owed, Counted
  <2>3. RowInv(t)' /\ CreditInv(t)'
    BY <2>1, <2>2 DEF RowInv, CreditInv, RoutineInv
  <2>4. \A j \in jobs'[w] : j.task = t => j.claim = gen[t]
    BY DEF Read
  <2>5. WorkerInv(w, t)'
    BY <1>0, <2>1, <2>4 DEF WorkerInv, WorksOn, Working, RoutineInv, RowInv
  <2>6. ASSUME NEW v \in Workers \ {w} PROVE WorkerInv(v, t)'
    <3>0. WorkerInv(v, t) /\ Same(v) /\ jobs'[v] = jobs[v]
      BY DEF RoutineInv, Alone
    <3>1. WorksOn(v, t)' => WorksOn(v, t) /\ key'[v] = 0
      BY <1>n, <3>0 DEF WorksOn, Working, Same, WorkerInv
    <3> QED BY <3>0, <3>1 DEF WorkerInv, Same, WorksOn
  <2> QED BY <2>3, <2>5, <2>6 DEF RoutineInv
<1> QED BY <1>1, <1>2

\* count_routine_cycle spends the credit.
LEMMA CountKeeps ==
  ASSUME TypeOK, StageInv, Loop, NEW h, Hosts = {h}, NEW w \in Workers,
         NEW t \in Tasks, t = cur[w].task, RoutineInv(t), CountCycle(w)
  PROVE  RoutineInv(t)'
<1>a. Alone(w)
  BY StepAlone DEF WorkerStep, Advance, Lands
<1>n. \A v \in Workers \ {w} : pc[v] \in {"idle", "turn"}
  BY LoneRunner DEF CountCycle
<1>0. /\ fails[t] \in Nat /\ cycles[t] \in Nat /\ crashes \in Nat /\ FailureLimit \in Nat \ {0}
      /\ pc[w] = "count"
      /\ UNCHANGED <<status, gen, slot, jobs, cur, key, stage, crashes>>
      /\ fails'[t] = Streak(w) /\ cycles'[t] = (IF out[w] = "failed" THEN cycles[t] ELSE 0)
      /\ pc'[w] = (IF Streak(w) >= FailureLimit THEN "pause" ELSE "rearm")
  BY Bounds DEF CountCycle, TypeOK, Goto, hostVars
<1>1. WorksOn(w, t) /\ key[w] # 0 /\ MayCount(w, t)
  BY <1>0 DEF WorksOn, Working, RoutineInv, WorkerInv, MayCount
<1>2. \A v \in Workers : ~HoldsClaimOf(v, t)
  BY <1>1 DEF RoutineInv, WorkerInv
<1>3. \A v \in Workers : ~HoldsClaimOf(v, t)'
  BY <1>0, <1>2, <1>a DEF HoldsClaimOf, Alone, Same
<1>4. Streak(w) \in Nat /\ Streak(w) <= cycles'[t] + crashes
  BY <1>0, <1>1 DEF Streak, RoutineInv, CreditInv, Owed
<1>5. ~Owed(t)'
  <2>1. \A v \in Workers : ~MayCount(v, t)'
    BY <1>0, <1>a, <1>n DEF MayCount, Alone, Same
  <2>2. Counted(w, t)'
    BY <1>0 DEF Counted
  <2> QED BY <1>3, <2>1, <2>2 DEF Owed
<1>6. CreditInv(t)'
  BY <1>0, <1>4, <1>5 DEF CreditInv
<1>7. status[t] # "paused"
  BY <1>1 DEF RoutineInv, RowInv
<1>8. RowInv(t)'
  BY <1>0, <1>7 DEF RoutineInv, RowInv
<1>9. WorkerInv(w, t)'
  BY <1>0, <1>1, <1>3, <1>4 DEF WorkerInv, WorksOn, Working, RoutineInv
<1>10. ASSUME NEW v \in Workers \ {w} PROVE WorkerInv(v, t)'
  <2>0. WorkerInv(v, t) /\ Same(v) /\ jobs'[v] = jobs[v]
    BY <1>a DEF RoutineInv, Alone
  <2>1. WorksOn(v, t)' => WorksOn(v, t) /\ pc[v] = "turn"
    BY <1>n, <2>0 DEF WorksOn, Working, Same
  <2> QED BY <1>0, <1>3, <2>0, <2>1 DEF WorkerInv, Same, WorksOn
<1> QED BY <1>6, <1>8, <1>9, <1>10 DEF RoutineInv

\* A routine is paused after the count, with no claim left on it.
LEMMA PauseKeeps ==
  ASSUME TypeOK, StageInv, Loop, NEW h, Hosts = {h}, NEW w \in Workers,
         NEW t \in Tasks, t = cur[w].task, RoutineInv(t), PauseRoutine(w)
  PROVE  RoutineInv(t)'
<1>a. Alone(w) /\ pc'[w] \notin Working /\ jobs' = jobs
  BY ReturnAlone DEF PauseRoutine
<1>n. \A v \in Workers \ {w} : pc[v] \in {"idle", "turn"}
  BY LoneRunner DEF PauseRoutine
<1>0. /\ pc[w] = "pause" /\ status'[t] = "paused"
      /\ UNCHANGED <<gen, slot, fails, cycles, crashes, stage>>
  BY DEF PauseRoutine, Return, TypeOK, hostVars
<1>1. WorksOn(w, t) /\ key[w] # 0 /\ fails[t] >= FailureLimit
  BY <1>0 DEF WorksOn, Working, RoutineInv, WorkerInv
<1>2. \A v \in Workers : ~HoldsClaimOf(v, t)'
  <2>1. \A v \in Workers : ~HoldsClaimOf(v, t)
    BY <1>1 DEF RoutineInv, WorkerInv
  <2> QED BY <1>0, <1>a, <2>1 DEF HoldsClaimOf, Alone, Same, Working
<1>3. ASSUME NEW v \in Workers, WorksOn(v, t)'
      PROVE  v # w /\ WorksOn(v, t) /\ pc[v] = "turn" /\ key'[v] = 0 /\ Same(v)
  <2>1. v # w /\ Same(v)
    BY <1>3, <1>a DEF WorksOn, Alone
  <2>2. WorksOn(v, t) /\ pc[v] = "turn"
    BY <1>3, <1>n, <2>1 DEF WorksOn, Working, Same
  <2> QED BY <2>1, <2>2 DEF RoutineInv, WorkerInv, Same
<1>4. RowInv(t)'
  BY <1>0, <1>1, <1>2, <1>3 DEF RowInv
<1>5. CreditInv(t)'
  <2>1. ~Owed(t)'
    BY <1>0, <1>2, <1>a, <1>n DEF Owed, MayCount, Alone, Same, Working
  <2> QED BY <1>0, <2>1 DEF CreditInv, RoutineInv
<1>6. ASSUME NEW v \in Workers PROVE WorkerInv(v, t)'
  BY <1>0, <1>2, <1>3, <1>a DEF WorkerInv, RoutineInv, Same
<1> QED BY <1>4, <1>5, <1>6 DEF RoutineInv

\* The process dies: a run that was counted and not written costs a crash.
LEMMA CrashKeeps ==
  ASSUME TypeOK, NEW h, Hosts = {h}, NEW t \in Tasks, RoutineInv(t), Crash(h)
  PROVE  RoutineInv(t)'
<1>1. /\ \A w \in Workers : pc'[w] = "idle" /\ jobs'[w] = {}
      /\ UNCHANGED <<status, gen, slot, fails, cycles>> /\ crashes' = crashes + 1
  <2>1. \A w \in Workers : HostOf[w] = h
    BY WorkerSets
  <2> QED BY <2>1 DEF Crash, taskVars, history
<1>2. fails[t] \in Nat /\ cycles[t] \in Nat /\ crashes \in Nat
  BY DEF TypeOK
<1>3. \A w \in Workers : ~HoldsClaimOf(w, t)' /\ ~WorksOn(w, t)'
  BY <1>1 DEF HoldsClaimOf, WorksOn, Working
<1>4. RowInv(t)'
  BY <1>1, <1>3 DEF RowInv, RoutineInv
<1>5. CreditInv(t)'
  BY <1>1, <1>2 DEF CreditInv, RoutineInv
<1>6. \A w \in Workers : WorkerInv(w, t)'
  BY <1>1, <1>3 DEF WorkerInv
<1> QED BY <1>4, <1>5, <1>6 DEF RoutineInv

\* The owner continues a routine its failures paused: streak and cycles start again.
LEMMA ContinueKeeps ==
  ASSUME TypeOK, Loop, NEW h, Hosts = {h}, NEW t \in Tasks, RoutineInv(t), ContinueRoutine(t)
  PROVE  RoutineInv(t)'
<1>n. \A v \in Workers : pc[v] \in {"idle", "turn"}
  BY NoRunner DEF ContinueRoutine, SomeHostServes, Free
<1>1. /\ status[t] = "paused" /\ status'[t] = "queued" /\ slot'[t] = "due"
      /\ fails'[t] = 0 /\ cycles'[t] = 0
      /\ UNCHANGED <<gen, crashes, pc, stage, jobs, cur, key>>
  BY DEF ContinueRoutine, TypeOK, hostVars, workVars
<1>2. \A w \in Workers : ~HoldsClaimOf(w, t)' /\ (WorksOn(w, t)' => key'[w] = 0)
  BY <1>1 DEF RoutineInv, RowInv, HoldsClaimOf, WorksOn
<1>3. ~Owed(t)'
  BY <1>1, <1>2, <1>n DEF Owed, MayCount, WorksOn, Working
<1>4. crashes \in Nat
  BY DEF TypeOK
<1>5. RowInv(t)' /\ CreditInv(t)'
  BY <1>1, <1>3, <1>4 DEF RowInv, CreditInv
<1>6. ASSUME NEW w \in Workers PROVE WorkerInv(w, t)'
  BY <1>1, <1>2, <1>n DEF WorkerInv, RoutineInv, WorksOn
<1> QED BY <1>5, <1>6 DEF RoutineInv

\* settle_lapsed_runs, settle_interrupted_runs and claim_due_tasks.
LEMMA SettlesRoutine ==
  ASSUME TypeOK, StageInv, Loop, NEW h, Hosts = {h}, NEW t \in Tasks, RoutineInv(t),
         NEW w \in Workers, Settles(w) \/ Claims(w)
  PROVE  RoutineInv(t)'
<1>a. Alone(w)
  BY StepAlone DEF WorkerStep, Advance
<1>c. ~Counted(w, t)
  BY DEF Counted, Settles, SettleNext, NextList, HostStarted, Claims, PassHeld, ClaimDue
<1>s. stage[w] \in {"lapsed", "running", "continuing"}
  BY DEF StageInv, StageOK, Settles, SettleNext, NextList, HostStarted, Claims, PassHeld, ClaimDue
<1>1. ASSUME NEW j \in jobs[w], SettleNext(w, j) PROVE RoutineInv(t)'
  <2>0. /\ UNCHANGED <<status, slot, fails, cycles, crashes>> /\ stage' = stage
        /\ jobs'[w] = jobs[w] \ {j} /\ j \in Job /\ pc[w] = "settle"
    BY <1>1 DEF SettleNext, TypeOK, hostVars, history
  <2>1. CASE Fence(j.task, j.claim) /\ j.task = t
    <3>1. /\ cur'[w] = j /\ key'[w] = j.claim + 1 /\ pc'[w] = "load"
      BY <1>1, <2>1 DEF SettleNext, Fence, FenceLost, Goto, TypeOK
    <3>2. HoldsClaimOf(w, t)
      BY <2>1 DEF HoldsClaimOf, Fence, HoldsClaim
    <3>3. slot[t] # "none" /\ j.claim \in Nat
      BY <2>0, <2>1 DEF RoutineInv, WorkerInv, Job
    <3>4. \A v \in Workers \ {w} : pc[v] \in {"idle", "turn"}
      BY <1>1, LoneRunner DEF SettleNext
    <3> QED BY <1>a, <1>s, <2>0, <2>1, <3>1, <3>2, <3>3, <3>4, FencedKeeps DEF Alone
  <2>2. CASE Fence(j.task, j.claim) /\ j.task # t
    <3>1. /\ gen'[t] = gen[t] /\ cur'[w] = j
      BY <1>1, <2>2 DEF SettleNext, Fence, FenceLost, TypeOK
    <3>2. JobsFrom(w, t) /\ Moves(w, t) /\ Rests(t)
      BY <2>0, <2>2, <3>1 DEF JobsFrom, Moves, Rests
    <3> QED BY <1>a, <1>c, <3>2, AsideOne
  <2>3. CASE ~Fence(j.task, j.claim)
    <3>1. UNCHANGED <<gen, pc, cur, key>>
      BY <1>1, <2>3 DEF SettleNext, FenceLost
    <3>2. JobsFrom(w, t) /\ Moves(w, t) /\ Rests(t)
      BY <2>0, <3>1 DEF JobsFrom, Moves, Rests, Working
    <3> QED BY <1>a, <1>c, <3>2, AsideOne
  <2> QED BY <2>1, <2>2, <2>3
<1>2. CASE NextList(w)
  <2>1. jobs'[w] = Read(InStatus("continuing")) /\ pc' = pc /\ pc[w] = "settle"
    BY <1>2 DEF NextList, TypeOK
  <2>2. \A j \in jobs'[w] : j.task # t
    BY <2>1 DEF Read, InStatus, RoutineInv, RowInv
  <2>3. JobsFrom(w, t) /\ Moves(w, t) /\ Rests(t)
    BY <1>2, <2>1, <2>2 DEF JobsFrom, Moves, Working, Rests, NextList, taskVars, hostVars, history
  <2> QED BY <1>a, <1>c, <2>3, AsideOne
<1>3. CASE HostStarted(w) \/ PassHeld(w)
  <2>1. pc'[w] = "idle" /\ jobs' = jobs /\ stage' = stage
    BY <1>3 DEF HostStarted, PassHeld, Goto, TypeOK
  <2>2. JobsFrom(w, t) /\ Moves(w, t) /\ Rests(t)
    BY <1>3, <2>1 DEF JobsFrom, Moves, Working, Rests, HostStarted, PassHeld, taskVars, history
  <2> QED BY <1>a, <1>c, <2>2, AsideOne
<1>4. ASSUME NEW S \in SUBSET Due, ClaimDue(w, S) PROVE RoutineInv(t)'
  <2>1. CASE t \in S
    BY <1>4, <2>1, ClaimKeeps
  <2>2. CASE t \notin S
    <3>1. /\ status'[t] = status[t] /\ gen'[t] = gen[t] /\ cycles'[t] = cycles[t]
          /\ UNCHANGED <<slot, fails, crashes>> /\ pc'[w] = "batch"
          /\ jobs'[w] = {[task |-> u, claim |-> gen[u] + 1, late |-> slot[u] = "missed"] : u \in S}
      BY <1>4, <2>2 DEF ClaimDue, TypeOK, Goto, hostVars
    <3>2. \A j \in jobs'[w] : j.task # t
      BY <2>2, <3>1
    <3>3. JobsFrom(w, t) /\ Moves(w, t) /\ Rests(t)
      BY <3>1, <3>2 DEF JobsFrom, Moves, Working, Rests
    <3> QED BY <1>a, <1>c, <3>3, AsideOne
  <2> QED BY <2>1, <2>2
<1> QED BY <1>1, <1>2, <1>3, <1>4 DEF Settles, Claims

\* The members of a batch, one after the other.
LEMMA WalksRoutine ==
  ASSUME TypeOK, StageInv, Loop, Keys, NEW h, Hosts = {h}, NEW t \in Routines, RoutineInv(t),
         NEW w \in Workers, Walks(w)
  PROVE  RoutineInv(t)'
<1>t. t \in Tasks
  BY TaskSets
<1>a. Alone(w)
  BY StepAlone DEF WorkerStep, Advance
<1>c. ~Counted(w, t) /\ pc[w] = "batch" /\ stage[w] = "batch" /\ stage' = stage
  BY DEF Counted, StageInv, StageOK, Walks, BatchDone, SkipMissed, RefuseOrphan, RefuseGoalStep, StartTurn
<1>1. CASE BatchDone(w)
  <2>1. pc'[w] = "idle" /\ jobs' = jobs
    BY <1>1 DEF BatchDone, Goto, TypeOK
  <2>2. JobsFrom(w, t) /\ Moves(w, t) /\ Rests(t)
    BY <1>1, <1>c, <2>1 DEF JobsFrom, Moves, Working, Rests, BatchDone, taskVars, history
  <2> QED BY <1>a, <1>c, <1>t, <2>2, AsideOne
<1>2. ASSUME NEW j \in jobs[w], SkipMissed(w, j) PROVE RoutineInv(t)'
  <2>0. /\ UNCHANGED <<status, slot, fails, cycles, crashes>>
        /\ jobs'[w] = jobs[w] \ {j} /\ j \in Job
    BY <1>2 DEF SkipMissed, TypeOK, hostVars, history
  <2>1. CASE Fence(j.task, j.claim) /\ j.task = t
    <3>1. /\ cur'[w] = j /\ key'[w] = j.claim + 1 /\ pc'[w] = "rearm"
      BY <1>2, <2>1 DEF SkipMissed, Fence, FenceLost, Goto, TypeOK
    <3>2. HoldsClaimOf(w, t)
      BY <2>1 DEF HoldsClaimOf, Fence, HoldsClaim
    <3>3. slot[t] # "none" /\ j.claim \in Nat
      BY <2>0, <2>1 DEF RoutineInv, WorkerInv, Job
    <3>4. \A v \in Workers \ {w} : pc[v] \in {"idle", "turn"}
      BY <1>2, LoneRunner DEF SkipMissed
    <3> QED BY <1>a, <1>c, <1>t, <2>0, <2>1, <3>1, <3>2, <3>3, <3>4, FencedKeeps DEF Alone
  <2>2. CASE Fence(j.task, j.claim) /\ j.task # t
    <3>1. /\ gen'[t] = gen[t] /\ cur'[w] = j
      BY <1>2, <1>t, <2>2 DEF SkipMissed, Fence, FenceLost, TypeOK
    <3>2. JobsFrom(w, t) /\ Moves(w, t) /\ Rests(t)
      BY <1>c, <2>0, <2>2, <3>1 DEF JobsFrom, Moves, Rests
    <3> QED BY <1>a, <1>c, <1>t, <3>2, AsideOne
  <2>3. CASE ~Fence(j.task, j.claim)
    <3>1. UNCHANGED <<gen, pc, cur, key>>
      BY <1>2, <2>3 DEF SkipMissed, FenceLost
    <3>2. JobsFrom(w, t) /\ Moves(w, t) /\ Rests(t)
      BY <1>c, <2>0, <3>1 DEF JobsFrom, Moves, Rests, Working
    <3> QED BY <1>a, <1>c, <1>t, <3>2, AsideOne
  <2> QED BY <2>1, <2>2, <2>3
<1>3. ASSUME NEW j \in jobs[w], RefuseOrphan(w, j) \/ RefuseGoalStep(w, j) PROVE RoutineInv(t)'
  <2>1. /\ UNCHANGED <<gen, slot, fails, cycles, crashes, pc>> /\ jobs'[w] = jobs[w] \ {j}
        /\ status'[t] = status[t] \/ status'[t] \in {"failed", "cancelled"}
    BY <1>3, <1>t DEF RefuseOrphan, RefuseGoalStep, TypeOK, hostVars, history
  <2>2. JobsFrom(w, t) /\ Moves(w, t) /\ Rests(t)
    BY <1>c, <2>1 DEF JobsFrom, Moves, Rests, Working
  <2> QED BY <1>a, <1>c, <1>t, <2>2, AsideOne
<1>4. ASSUME NEW j \in jobs[w], StartTurn(w, j) PROVE RoutineInv(t)'
  <2>1. /\ UNCHANGED <<status, gen, slot, fails, cycles, crashes, key>> /\ jobs'[w] = jobs[w] \ {j}
        /\ cur'[w] = j /\ pc'[w] = "turn"
    BY <1>4 DEF StartTurn, Goto, TypeOK, taskVars, history
  <2>2. key[w] = 0
    BY <1>c DEF Keys, KeyInLanding, Landing
  <2>3. JobsFrom(w, t) /\ Moves(w, t) /\ Rests(t)
    BY <1>c, <2>1, <2>2 DEF JobsFrom, Moves, Rests
  <2> QED BY <1>a, <1>c, <1>t, <2>3, AsideOne
<1> QED BY <1>1, <1>2, <1>3, <1>4 DEF Walks

\* A sweep continues parked turns, and a routine has none that waits.
LEMMA SweepsRoutine ==
  ASSUME TypeOK, StageInv, NEW t \in Tasks, RoutineInv(t),
         NEW w \in Workers, Sweeps(w) \/ ContinuationBlocked(w)
  PROVE  RoutineInv(t)'
<1>a. Alone(w)
  BY StepAlone DEF WorkerStep, Advance
<1>c. ~Counted(w, t) /\ stage[w] = "resume" /\ stage' = stage
  BY DEF Counted, StageInv, StageOK, Sweeps, SweepDone, LeaveParked, ContinueParked, TurnTaken, ContinuationBlocked
<1>j. \A j \in jobs[w] : j.task # t
  BY <1>c DEF RoutineInv, WorkerInv
<1>w. ~WorksOn(w, t)
  BY <1>c DEF RoutineInv, WorkerInv
<1>1. CASE SweepDone(w)
  <2>1. pc'[w] = "idle" /\ jobs' = jobs
    BY <1>1 DEF SweepDone, Goto, TypeOK
  <2>2. JobsFrom(w, t) /\ Moves(w, t) /\ Rests(t)
    BY <1>1, <1>c, <2>1 DEF JobsFrom, Moves, Working, Rests, SweepDone, taskVars, history
  <2> QED BY <1>a, <1>c, <2>2, AsideOne
<1>2. ASSUME NEW j \in jobs[w], LeaveParked(w, j) \/ ContinueParked(w, j) \/ TurnTaken(w, j)
      PROVE  RoutineInv(t)'
  <2>1. /\ UNCHANGED <<gen, slot, fails, cycles, crashes>> /\ jobs'[w] = jobs[w] \ {j}
        /\ (pc' = pc /\ cur' = cur) \/ cur'[w] = j
        /\ status'[t] = status[t] /\ pc[w] = "sweep"
    BY <1>2, <1>j DEF LeaveParked, ContinueParked, TurnTaken, TypeOK, taskVars, hostVars, history
  <2>2. JobsFrom(w, t) /\ Moves(w, t) /\ Rests(t)
    BY <1>c, <1>j, <2>1 DEF JobsFrom, Moves, Rests, Working
  <2> QED BY <1>a, <1>c, <2>2, AsideOne
<1>3. CASE ContinuationBlocked(w)
  <2>1. /\ UNCHANGED <<gen, slot, fails, cycles, crashes, jobs>> /\ pc'[w] = "sweep"
        /\ status'[t] = status[t]
    BY <1>3, <1>w DEF ContinuationBlocked, TypeOK, Goto, WorksOn, Working, history
  <2>2. JobsFrom(w, t) /\ Moves(w, t) /\ Rests(t)
    BY <1>c, <2>1 DEF JobsFrom, Moves, Rests, Working
  <2> QED BY <1>a, <1>c, <2>2, AsideOne
<1> QED BY <1>1, <1>2, <1>3 DEF Sweeps

\* _land_outcome and _rearm: only the count spends the credit.
LEMMA LandsRoutine ==
  ASSUME TypeOK, StageInv, Loop, NEW h, Hosts = {h}, NEW t \in Routines, RoutineInv(t),
         NEW w \in Workers, Lands(w)
  PROVE  RoutineInv(t)'
<1>t. t \in Tasks
  BY TaskSets
<1>a. Alone(w)
  BY StepAlone DEF WorkerStep, Advance
<1>r. ASSUME Return(w), Rests(t), status'[t] = "running" => ~Counted(w, t) PROVE RoutineInv(t)'
  <2>1. pc'[w] \notin Working /\ jobs' = jobs /\ stage' = stage
    BY <1>r, ReturnAlone DEF Return
  <2>2. JobsFrom(w, t) /\ Moves(w, t)
    BY <2>1 DEF JobsFrom, Moves
  <2> QED BY <1>a, <1>r, <1>t, <2>2, AsideOne
<1>l. WorksOn(w, t) => Landed(w) \in {"count", "rearm"}
  BY DEF Landed, Repeating, WorksOn, RoutineInv, WorkerInv
<1>1. CASE Load(w)
  <2>0. ~Counted(w, t) /\ Rests(t) /\ pc[w] = "load"
    BY <1>1 DEF Counted, Load, Return, Rests, taskVars, hostVars, history
  <2>1. CASE Return(w)
    BY <1>r, <2>0, <2>1
  <2>2. CASE ~Return(w)
    <3>1. /\ UNCHANGED <<stage, jobs, cur, key>>
          /\ pc'[w] = IF stage[w] = "batch" THEN "fence" ELSE Landed(w)
      BY <1>1, <2>2 DEF Load, Goto, TypeOK
    <3>2. JobsFrom(w, t)
      BY <3>1 DEF JobsFrom
    <3>3. Moves(w, t)
      BY <1>l, <2>0, <3>1 DEF Moves, WorksOn, Working
    <3> QED BY <1>a, <1>t, <2>0, <3>2, <3>3, AsideOne
  <2> QED BY <2>1, <2>2
<1>2. CASE FenceClaim(w)
  <2>0. /\ ~Counted(w, t) /\ UNCHANGED <<status, slot, fails, cycles, crashes, stage, jobs>>
        /\ stage[w] = "batch" /\ pc[w] = "fence"
    BY <1>2 DEF Counted, FenceClaim, Return, StageInv, StageOK, hostVars, history
  <2>1. CASE Return(w) /\ gen' = gen
    BY <1>r, <2>0, <2>1 DEF Rests
  <2>2. CASE ~(Return(w) /\ gen' = gen)
    <3>1. /\ Fence(cur[w].task, cur[w].claim) /\ cur' = cur
          /\ key'[w] = cur[w].claim + 1 /\ pc'[w] = Landed(w)
      BY <1>2, <2>2 DEF FenceClaim, FenceLost, Goto, TypeOK
    <3>2. CASE cur[w].task = t
      <4>1. HoldsClaimOf(w, t)
        BY <2>0, <3>1, <3>2 DEF HoldsClaimOf, Fence, HoldsClaim
      <4>2. WorksOn(w, t) /\ cur[w].claim \in Nat
        BY <2>0, <3>2 DEF WorksOn, Working, TypeOK, Job
      <4>3. slot[t] # "none"
        BY <4>2 DEF RoutineInv, WorkerInv
      <4>4. \A v \in Workers \ {w} : pc[v] \in {"idle", "turn"}
        BY <1>2, LoneRunner DEF FenceClaim
      <4> QED BY <1>a, <1>l, <1>t, <2>0, <3>1, <3>2, <4>1, <4>2, <4>3, <4>4, FencedKeeps DEF Alone
    <3>3. CASE cur[w].task # t
      <4>1. gen'[t] = gen[t]
        BY <1>t, <3>1, <3>3 DEF Fence, TypeOK
      <4>2. JobsFrom(w, t) /\ Moves(w, t) /\ Rests(t)
        BY <2>0, <3>1, <3>3, <4>1 DEF JobsFrom, Moves, Rests
      <4> QED BY <1>a, <1>t, <2>0, <4>2, AsideOne
    <3> QED BY <3>2, <3>3
  <2> QED BY <2>1, <2>2
<1>3. CASE CountCycle(w)
  <2>1. CASE cur[w].task = t
    BY <1>3, <1>t, <2>1, CountKeeps
  <2>2. CASE cur[w].task # t
    <3>1. /\ fails'[t] = fails[t] /\ cycles'[t] = cycles[t]
          /\ UNCHANGED <<status, gen, slot, crashes, stage, jobs, cur>>
      BY <1>3, <1>t, <2>2 DEF CountCycle, TypeOK, hostVars
    <3>2. JobsFrom(w, t) /\ Moves(w, t) /\ Rests(t) /\ ~Counted(w, t)
      BY <2>2, <3>1 DEF JobsFrom, Moves, Rests, Counted
    <3> QED BY <1>a, <1>t, <3>2, AsideOne
  <2> QED BY <2>1, <2>2
<1>4. CASE PauseRoutine(w)
  <2>1. CASE cur[w].task = t
    BY <1>4, <1>t, <2>1, PauseKeeps
  <2>2. CASE cur[w].task # t
    BY <1>4, <1>r, <1>t, <2>2 DEF PauseRoutine, Return, Rests, Counted, TypeOK, hostVars
  <2> QED BY <2>1, <2>2
<1>5. CASE Rearm(w)
  <2>1. CASE cur[w].task = t
    <3>1. status'[t] \in {"queued", "completed"} /\ (slot'[t] = slot[t] \/ slot'[t] = "future")
      BY <1>5, <1>t, <2>1 DEF Rearm, TypeOK
    <3> QED BY <1>5, <1>r, <3>1 DEF Rearm, Return, Rests, hostVars
  <2>2. CASE cur[w].task # t
    BY <1>5, <1>r, <1>t, <2>2 DEF Rearm, Return, Rests, Counted, TypeOK, hostVars
  <2> QED BY <2>1, <2>2
<1>6. CASE WriteOutcome(w)
  <2>1. cur[w].task # t
    BY <1>6 DEF WriteOutcome, RoutineInv, WorkerInv, WorksOn, Working
  <2> QED BY <1>6, <1>r, <1>t, <2>1 DEF WriteOutcome, Return, Rests, Counted, TypeOK, hostVars
<1> QED BY <1>1, <1>2, <1>3, <1>4, <1>5, <1>6 DEF Lands

\* A turn that is awaited, or has ended.
LEMMA TurnsRoutine ==
  ASSUME TypeOK, StageInv, NEW t \in Tasks, RoutineInv(t),
         NEW w \in Workers, AnyTurnEnds(w) \/ RenewLease(w) \/ JobsGetLate(w)
  PROVE  RoutineInv(t)'
<1>a. Alone(w)
  BY StepAlone DEF WorkerStep
<1>c. ~Counted(w, t) /\ pc[w] = "turn" /\ UNCHANGED <<cur, key, stage>> /\ Rests(t)
  BY DEF Counted, AnyTurnEnds, TurnEnds, RenewLease, JobsGetLate, Rests, taskVars, hostVars, history
<1>1. CASE AnyTurnEnds(w)
  <2>1. pc'[w] = "load" /\ jobs' = jobs
    BY <1>1 DEF AnyTurnEnds, TurnEnds, Goto, TypeOK
  <2>2. WorksOn(w, t) => stage[w] = "batch"
    BY <1>c DEF StageInv, StageOK, RoutineInv, WorkerInv
  <2>3. JobsFrom(w, t) /\ Moves(w, t)
    BY <1>c, <2>1, <2>2 DEF JobsFrom, Moves, WorksOn, Working
  <2> QED BY <1>a, <1>c, <2>3, AsideOne
<1>2. CASE RenewLease(w)
  <2>1. JobsFrom(w, t) /\ Moves(w, t)
    BY <1>2, <1>c DEF RenewLease, JobsFrom, Moves, Same
  <2> QED BY <1>a, <1>c, <2>1, AsideOne
<1>3. CASE JobsGetLate(w)
  <2>1. jobs'[w] = {[task |-> j.task, claim |-> j.claim, late |-> TRUE] : j \in jobs[w]} /\ pc' = pc
    BY <1>3 DEF JobsGetLate, TypeOK
  <2>2. JobsFrom(w, t) /\ Moves(w, t)
    BY <1>c, <2>1 DEF JobsFrom, Moves, Same
  <2> QED BY <1>a, <1>c, <2>2, AsideOne
<1> QED BY <1>1, <1>2, <1>3

\* A pass, a host or a sweep starts, on a loop that nobody holds.
LEMMA StartsRoutine ==
  ASSUME TypeOK, StageInv, Loop, NEW h, Hosts = {h}, NEW t \in Tasks, RoutineInv(t),
         NEW w \in Workers,
         \/ StartSweep(w) \/ \E u \in Tasks : StartRetry(w, u)
         \/ \E k \in Hosts : StartHost(k, w) \/ (HostOf[w] = k /\ StartPass(w))
  PROVE  RoutineInv(t)'
<1>a. Alone(w)
  BY StepAlone DEF WorkerStep
<1>1. ASSUME StartSweep(w) \/ \E u \in Tasks : StartRetry(w, u) PROVE RoutineInv(t)'
  <2>1. PICK S \in SUBSET (Tasks \ {t}) :
            jobs' = [jobs EXCEPT ![w] = ParkedTurns(S)] /\ pc[w] = "idle"
            /\ pc' = [pc EXCEPT ![w] = "sweep"] /\ UNCHANGED <<taskVars, history, crashes>>
    <3>1. CASE StartSweep(w)
      <4>1. InStatus("waiting_for_approval") \in SUBSET (Tasks \ {t})
        BY DEF InStatus, RoutineInv, RowInv
      <4> QED BY <3>1, <4>1 DEF StartSweep, Goto
    <3>2. ASSUME NEW u \in Tasks, StartRetry(w, u)
          PROVE  \E S \in SUBSET (Tasks \ {t}) :
                    jobs' = [jobs EXCEPT ![w] = ParkedTurns(S)] /\ pc[w] = "idle"
                    /\ pc' = [pc EXCEPT ![w] = "sweep"] /\ UNCHANGED <<taskVars, history, crashes>>
      <4>1. u # t
        BY <3>2, Bounds DEF StartRetry, RoutineInv, RowInv, TypeOK
      <4>2. {u} \in SUBSET (Tasks \ {t})
        BY <4>1
      <4> QED BY <3>2, <4>2 DEF StartRetry, Goto
    <3> QED BY <1>1, <3>1, <3>2
  <2>2. jobs'[w] = ParkedTurns(S) /\ pc'[w] = "sweep"
    BY <2>1 DEF TypeOK
  <2>3. \A j \in jobs'[w] : j.task # t
    BY <2>2 DEF ParkedTurns
  <2>4. JobsFrom(w, t) /\ Moves(w, t) /\ Rests(t) /\ ~Counted(w, t)
    BY <2>1, <2>2, <2>3 DEF JobsFrom, Moves, Working, Rests, Counted, taskVars, history
  <2> QED BY <1>a, <2>4, AsideOne
<1>2. ASSUME NEW k \in Hosts, StartHost(k, w) \/ (HostOf[w] = k /\ StartPass(w))
      PROVE  RoutineInv(t)'
  <2>1. loop[h] = NoOne
    BY <1>2 DEF StartHost, StartPass, Free, Loop, DownIsFree
  <2>2. /\ pc'[w] = "settle" /\ stage'[w] \in {"lapsed", "running"}
        /\ UNCHANGED <<status, gen, slot, fails, cycles, crashes, key>>
        /\ \E S \in SUBSET InStatus("running") : jobs'[w] = Read(S)
    <3>1. Lapsed \in SUBSET InStatus("running")
      BY DEF Lapsed, InStatus
    <3> QED BY <1>2, <3>1 DEF StartHost, StartPass, Goto, TypeOK, taskVars, history
  <2> QED BY <1>a, <2>1, <2>2, ListKeeps
<1> QED BY <1>1, <1>2

\* The owner, the clock and the machine.
LEMMA OthersRoutine ==
  ASSUME TypeOK, Loop, NEW h, Hosts = {h}, NoOwnerWrites, NEW t \in Tasks, RoutineInv(t),
         \/ \E k \in Hosts : Crash(k)
         \/ \E u \in Tasks : SlotComes(u) \/ LeaseLapses(u)
         \/ Owner \/ UNCHANGED vars
  PROVE  RoutineInv(t)'
<1>1. ASSUME NEW k \in Hosts, Crash(k) PROVE RoutineInv(t)'
  BY <1>1, CrashKeeps
<1>2. ASSUME NEW u \in Tasks,
             \/ SlotComes(u) \/ LeaseLapses(u) \/ RunNow(u)
             \/ \E g \in parked[u] : TabContinues(u, g)
             \/ \E a \in OwnerActions : Interrupt(u, a)
      PROVE  RoutineInv(t)'
  <2>1. /\ UNCHANGED <<gen, fails, cycles, crashes, workVars>>
        /\ slot'[t] = slot[t] \/ slot'[t] \in {"due", "missed"}
    BY <1>2 DEF SlotComes, LeaseLapses, RunNow, TabContinues, Interrupt, TypeOK, hostVars, history
  <2>2. status'[t] = status[t] \/ status'[t] = "cancelled"
    <3>1. ASSUME NEW a \in OwnerActions, Interrupt(u, a) PROVE a = "cancel"
      BY <3>1, Switches DEF Interrupt, NoOwnerWrites, OwnerActionNames
    <3>2. InterruptResult("cancel") = "cancelled"
      BY DEF InterruptResult
    <3>3. ASSUME NEW a \in OwnerActions, Interrupt(u, a)
          PROVE  status' = [status EXCEPT ![u] = "cancelled"]
      BY <3>1, <3>2, <3>3 DEF Interrupt
    <3> QED BY <1>2, <3>3 DEF SlotComes, LeaseLapses, RunNow, TabContinues, TypeOK
  <2> QED BY <2>1, <2>2, AsideNone DEF Rests
<1>3. ASSUME NEW u \in Tasks, ContinueRoutine(u) PROVE RoutineInv(t)'
  <2>1. CASE u = t
    BY <1>3, <2>1, ContinueKeeps
  <2>2. CASE u # t
    <3>1. Rests(t) /\ UNCHANGED workVars
      BY <1>3, <2>2 DEF ContinueRoutine, Rests, TypeOK, hostVars
    <3> QED BY <3>1, AsideNone
  <2> QED BY <2>1, <2>2
<1>4. CASE HoldHost \/ ReleaseHost \/ UNCHANGED vars
  <2>1. Rests(t) /\ UNCHANGED workVars
    BY <1>4 DEF HoldHost, ReleaseHost, vars, taskVars, hostVars, history, Rests
  <2> QED BY <2>1, AsideNone
<1> QED BY <1>1, <1>2, <1>3, <1>4 DEF Owner

LEMMA RoutineStep ==
  ASSUME NEW h, Hosts = {h}, NoOwnerWrites, IInv, StageInv, Loop, [Next]_vars,
         NEW t \in Routines, RoutineInv(t)
  PROVE  RoutineInv(t)'
<1>0. TypeOK /\ Keys /\ t \in Tasks
  BY TaskSets DEF IInv
<1>1. ASSUME NEW w \in Workers, WorkerStep(w) PROVE RoutineInv(t)'
  BY <1>0, <1>1, SettlesRoutine, WalksRoutine, SweepsRoutine, LandsRoutine, TurnsRoutine, StartsRoutine
  DEF WorkerStep, Advance
<1>2. ASSUME ~\E w \in Workers : WorkerStep(w) PROVE RoutineInv(t)'
  BY <1>0, <1>2, NextSplit, OthersRoutine
<1> QED BY <1>1, <1>2

\* Only the cycles of a routine are counted.
LEMMA OthersNeverFail ==
  ASSUME TypeOK, StageInv, [Next]_vars, NEW t \in Tasks \ Routines, fails[t] = 0
  PROVE  fails'[t] = 0
<1> USE DEF taskVars, hostVars, workVars, history
<1>1. ASSUME NEW w \in Workers, Lands(w) PROVE fails'[t] = 0
  <2>1. ASSUME CountCycle(w) PROVE fails'[t] = 0
    <3>1. cur[w].task # t
      BY <2>1 DEF CountCycle, StageInv, StageOK
    <3> QED BY <2>1, <3>1 DEF CountCycle, TypeOK
  <2> QED BY <1>1, <2>1 DEF Lands, Load, FenceClaim, PauseRoutine, Rearm, WriteOutcome
<1>2. ASSUME NEW w \in Workers, WorkerStep(w), ~Lands(w) PROVE fails' = fails
  BY <1>2
  DEF WorkerStep, Advance, Settles, SettleNext, NextList, HostStarted, Claims, PassHeld, ClaimDue,
      Walks, BatchDone, SkipMissed, RefuseOrphan, RefuseGoalStep, StartTurn,
      Sweeps, SweepDone, LeaveParked, ContinueParked, TurnTaken,
      AnyTurnEnds, TurnEnds, RenewLease, JobsGetLate, ContinuationBlocked,
      StartSweep, StartRetry, StartHost, StartPass
<1>3. ASSUME NEW u \in Tasks, ContinueRoutine(u) PROVE fails'[t] = 0
  BY <1>3 DEF ContinueRoutine, TypeOK
<1>4. CASE \/ \E k \in Hosts : Crash(k)
           \/ \E u \in Tasks : SlotComes(u) \/ LeaseLapses(u)
           \/ UNCHANGED vars
  BY <1>4 DEF Crash, SlotComes, LeaseLapses, vars
<1>5. CASE Owner
  BY <1>3, <1>5 DEF Owner, Interrupt, RunNow, TabContinues, HoldHost, ReleaseHost
<1> QED BY <1>1, <1>2, <1>4, <1>5, NextSplit

----------------------------------------------------------------------------
LEMMA StreakInit == Init => Loop /\ StreakInv
<1> SUFFICES ASSUME Init PROVE Loop /\ StreakInv
  OBVIOUS
<1>1. Loop /\ StageInv
  BY DEF Init, Loop, RunnerHolds, DownIsFree, StageInv, StageOK
<1>2. ASSUME NEW t \in Tasks PROVE RoutineInv(t) /\ fails[t] = 0
  BY DEF Init, RoutineInv, RowInv, CreditInv, WorkerInv, Owed, HoldsClaimOf, MayCount, WorksOn, Working
<1> QED BY <1>1, <1>2, TaskSets DEF StreakInv

LEMMA StreakStep ==
  ASSUME NEW h, Hosts = {h}, NoOwnerWrites, IInv, Loop, StreakInv, [Next]_vars
  PROVE  Loop' /\ StreakInv'
<1>1. Loop' /\ StageInv'
  BY StepLoop, StageStep DEF IInv, StreakInv
<1>2. ASSUME NEW t \in Routines PROVE RoutineInv(t)'
  BY RoutineStep DEF StreakInv
<1>3. ASSUME NEW t \in Tasks \ Routines PROVE fails'[t] = 0
  BY OthersNeverFail DEF StreakInv, IInv
<1> QED BY <1>1, <1>2, <1>3 DEF StreakInv

\* On a workspace served by one host, whose owner pauses and resumes no task
\* through an interrupt, a routine's streak never exceeds the cycles it was
\* claimed for since the streak was last cleared, but for one count for each
\* crash (count_routine_cycle): for any number of tasks, routines and
\* coroutines, however leases lapse, and whatever else the owner presses.
THEOREM StreakIsPaidFor ==
  ASSUME NEW h, Hosts = {h}, NoOwnerWrites
  PROVE  Spec => []StreakCountsCycles
<1>1. Init => Loop /\ StreakInv
  BY StreakInit
<1>2. IInv /\ (Loop /\ StreakInv) /\ [Next]_vars => (Loop /\ StreakInv)'
  BY StreakStep
<1>3. IInv /\ StreakInv => StreakCountsCycles
  <2> SUFFICES ASSUME IInv, StreakInv, NEW t \in Tasks PROVE fails[t] <= cycles[t] + crashes
    BY DEF StreakCountsCycles
  <2>1. cycles[t] \in Nat /\ crashes \in Nat
    BY DEF IInv, TypeOK
  <2> QED BY <2>1 DEF StreakInv, RoutineInv, CreditInv
<1> QED BY <1>1, <1>2, <1>3, Invariance, PTL DEF Spec
=============================================================================
