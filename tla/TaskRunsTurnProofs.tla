------------------------- MODULE TaskRunsTurnProofs -------------------------
(***************************************************************************)
(* On one host, two passes never have a turn of the same task in flight.   *)
(*                                                                         *)
(* A claimed row belongs to the pass that claimed it: while the pass runs  *)
(* it, or keeps it in its batch, nobody else has the row in a list or in   *)
(* hand, its generation is the pass's claim, and it says "running" with a  *)
(* fresh lease, or the owner cancelled it.  So no other pass can list it   *)
(* as lapsed, and none can claim it.                                       *)
(*                                                                         *)
(* Two things break this, and both are hypotheses.  The interrupts "pause" *)
(* and "resume" write the status of a claimed row.  And only the member    *)
(* that runs renews its lease: a member that waits longer than the lease   *)
(* behind another's turn is settled as lapsed and claimed again.           *)
(***************************************************************************)
EXTENDS TaskRunsStreakProofs

Touches(w, t) == WorksOn(w, t) \/ \E j \in jobs[w] : j.task = t

\* A pass has t claimed, and runs it or will.
Waits(w, t) == stage[w] = "batch" /\ \E j \in jobs[w] : j.task = t
Turns(w, t) == stage[w] = "batch" /\ pc[w] = "turn" /\ cur[w].task = t
Has(w, t) == Waits(w, t) \/ Turns(w, t)

\* No lease passes for a claimed member that waits behind another's turn.
LapsesSpareWaiters ==
    \A t \in Tasks \ Orphans : LeaseLapses(t) => \A w \in Workers : ~Waits(w, t)
WaitersKeepTheirLease == [][LapsesSpareWaiters]_vars

ClaimedRow(t) == status[t] = "cancelled" \/ (status[t] = "running" /\ beat[t] = "fresh")

Owns(w, t) ==
    /\ \A v \in Workers \ {w} : ~Touches(v, t)
    /\ \A j \in jobs[w] : j.task = t =>
          /\ j.claim = gen[t] /\ ~WorksOn(w, t)
          /\ \A i \in jobs[w] : i.task = t => i = j
    /\ WorksOn(w, t) =>
          /\ pc[w] = "turn" /\ cur[w].claim = gen[t]
          /\ stopping[w] => status[t] = "cancelled"
    /\ ClaimedRow(t)

ClaimInv(t) == \A w \in Workers : Has(w, t) => Owns(w, t)

\* A one-time task whose turn was parked is over, or waits, or is continued: it
\* is never queued again.
Past == Terminal \union {"waiting_for_approval", "continuing"}
PastInv(t) ==
    /\ status[t] # "paused"
    /\ \A w \in Workers : stage[w] = "resume" /\ Touches(w, t) => status[t] \in Past

\* What a coroutine can have in hand, and where.
HandOK(w) ==
    /\ pc[w] # "idle" => up[HostOf[w]]
    /\ pc[w] = "idle" => jobs[w] = {}
    /\ w \in Passes => stage[w] # "resume"
    /\ w \in Passes \/ pc[w] = "idle" \/ stage[w] = "resume"
    /\ pc[w] = "rearm" => cur[w].task \in Routines
    /\ pc[w] = "turn" /\ stage[w] = "batch" => cur[w].task \notin Orphans
    /\ stopping[w] => pc[w] = "turn" /\ stage[w] = "batch"

HandInv == \A w \in Workers : HandOK(w)

TurnInv ==
    /\ HandInv
    /\ \A t \in Tasks \ Routines : PastInv(t)
    /\ \A t \in Tasks \ Orphans : ClaimInv(t)

----------------------------------------------------------------------------
(***************************************************************************)
(* What a coroutine's step leaves alone.                                   *)
(***************************************************************************)
\* What else of a coroutine its neighbours' steps leave alone.
Stays(v) == stopping'[v] = stopping[v] /\ out'[v] = out[v] /\ (up[HostOf[v]] => up'[HostOf[v]])

LEMMA StepFrame ==
  ASSUME TypeOK, NEW w \in Workers, WorkerStep(w)
  PROVE  \A v \in Workers \ {w} : Stays(v)
<1>0. \A v \in Workers : HostOf[v] \in Hosts
  BY WorkerSets
<1> USE <1>0 DEF hostVars, workVars, Stays
<1>1. CASE Settles(w)
  BY <1>1 DEF Settles, SettleNext, NextList, HostStarted, TypeOK
<1>2. CASE Claims(w)
  BY <1>2 DEF Claims, PassHeld, ClaimDue, TypeOK
<1>3. CASE Walks(w)
  BY <1>3 DEF Walks, BatchDone, SkipMissed, RefuseOrphan, RefuseGoalStep, StartTurn, TypeOK
<1>4. CASE Sweeps(w)
  BY <1>4 DEF Sweeps, SweepDone, LeaveParked, ContinueParked, TurnTaken, TypeOK
<1>5. CASE Lands(w)
  BY <1>5 DEF Lands, Load, FenceClaim, CountCycle, PauseRoutine, Rearm, WriteOutcome, Return, TypeOK
<1>6. CASE AnyTurnEnds(w) \/ RenewLease(w) \/ JobsGetLate(w) \/ ContinuationBlocked(w)
  BY <1>6 DEF AnyTurnEnds, TurnEnds, RenewLease, JobsGetLate, ContinuationBlocked, TypeOK
<1>7. CASE StartSweep(w) \/ \E t \in Tasks : StartRetry(w, t)
  BY <1>7 DEF StartSweep, StartRetry, TypeOK
<1>8. ASSUME NEW h \in Hosts, StartHost(h, w) \/ StartPass(w)
      PROVE  \A v \in Workers \ {w} : Stays(v)
  BY <1>8 DEF StartHost, StartPass, TypeOK
<1> QED BY <1>1, <1>2, <1>3, <1>4, <1>5, <1>6, <1>7, <1>8 DEF WorkerStep, Advance

RowSame(t) == status'[t] = status[t] /\ gen'[t] = gen[t] /\ beat'[t] = beat[t]

\* A coroutine writes only the rows it has in its list or in hand, but for a claim.
LEMMA RowAside ==
  ASSUME TypeOK, NEW t \in Tasks, NEW w \in Workers, WorkerStep(w),
         ~Touches(w, t), status[t] # "queued"
  PROVE  RowSame(t)
<1>j. \A j \in jobs[w] : j.task \in Tasks /\ j.task # t
  BY DEF TypeOK, Job, Touches
<1>c. cur[w].task \in Tasks /\ (pc[w] \in Working => cur[w].task # t)
  BY DEF TypeOK, Job, Touches, WorksOn
<1> USE <1>j, <1>c DEF taskVars, Working, RowSame
<1>1. CASE Settles(w)
  BY <1>1 DEF Settles, SettleNext, NextList, HostStarted, Fence, FenceLost, TypeOK
<1>2. CASE Claims(w)
  BY <1>2 DEF Claims, PassHeld, ClaimDue, Due, TypeOK
<1>3. CASE Walks(w)
  BY <1>3 DEF Walks, BatchDone, SkipMissed, RefuseOrphan, RefuseGoalStep, StartTurn, Fence, FenceLost, TypeOK
<1>4. CASE Sweeps(w)
  BY <1>4 DEF Sweeps, SweepDone, LeaveParked, ContinueParked, TurnTaken, TypeOK
<1>5. CASE Lands(w)
  BY <1>5 DEF Lands, Load, FenceClaim, CountCycle, PauseRoutine, Rearm, WriteOutcome, Fence, FenceLost, TypeOK
<1>6. CASE AnyTurnEnds(w) \/ RenewLease(w) \/ JobsGetLate(w) \/ ContinuationBlocked(w)
  BY <1>6 DEF AnyTurnEnds, TurnEnds, RenewLease, JobsGetLate, ContinuationBlocked, TypeOK
<1>7. CASE StartSweep(w) \/ \E u \in Tasks : StartRetry(w, u)
  BY <1>7 DEF StartSweep, StartRetry
<1>8. ASSUME NEW h \in Hosts, StartHost(h, w) \/ StartPass(w) PROVE RowSame(t)
  BY <1>8 DEF StartHost, StartPass
<1> QED BY <1>1, <1>2, <1>3, <1>4, <1>5, <1>6, <1>7, <1>8 DEF WorkerStep, Advance

\* A coroutine without t in its list or in hand comes by it only from a claim,
\* a list of lapsed, interrupted or parked runs.
LEMMA TouchAside ==
  ASSUME TypeOK, NEW t \in Tasks, NEW w \in Workers, WorkerStep(w),
         ~Touches(w, t), ClaimedRow(t), \A k \in Hosts : up[k]
  PROVE  ~Touches(w, t)'
<1>j. \A j \in jobs[w] : j.task # t
  BY DEF Touches
<1>c. pc[w] \in Working => cur[w].task # t
  BY DEF Touches, WorksOn
<1>r. \A S \in SUBSET Tasks : t \notin S => \A j \in Read(S) \union ParkedTurns(S) : j.task # t
  BY DEF Read, ParkedTurns
<1>g. ASSUME \A j \in jobs'[w] : j.task # t, pc'[w] \in Working => cur'[w].task # t
      PROVE  ~Touches(w, t)'
  BY <1>g DEF Touches, WorksOn
<1> USE <1>j, <1>c DEF Working
<1>1. CASE Settles(w)
  <2>1. t \notin InStatus("continuing")
    BY DEF InStatus, ClaimedRow
  <2>2. InStatus("continuing") \in SUBSET Tasks
    BY DEF InStatus
  <2> QED BY <1>1, <1>g, <1>r, <2>1, <2>2 DEF Settles, SettleNext, NextList, HostStarted, Goto, TypeOK
<1>2. CASE Claims(w)
  <2>1. ASSUME NEW S \in SUBSET Due, ClaimDue(w, S) PROVE ~Touches(w, t)'
    <3>1. t \notin S
      BY DEF Due, ClaimedRow
    <3> QED BY <1>g, <2>1, <3>1 DEF ClaimDue, Goto, TypeOK
  <2> QED BY <1>2, <1>g, <2>1 DEF Claims, PassHeld, Goto, TypeOK
<1>3. CASE Walks(w)
  BY <1>3, <1>g DEF Walks, BatchDone, SkipMissed, RefuseOrphan, RefuseGoalStep, StartTurn, Goto, TypeOK
<1>4. CASE Sweeps(w)
  BY <1>4, <1>g DEF Sweeps, SweepDone, LeaveParked, ContinueParked, TurnTaken, Goto, TypeOK
<1>5. CASE Lands(w)
  <2>1. CASE Return(w)
    BY <1>g, <2>1, ReturnAlone
  <2>2. CASE ~Return(w)
    BY <1>5, <1>g, <2>2
    DEF Lands, Load, FenceClaim, CountCycle, PauseRoutine, Rearm, WriteOutcome, Goto, TypeOK
  <2> QED BY <2>1, <2>2
<1>6. CASE AnyTurnEnds(w) \/ RenewLease(w) \/ JobsGetLate(w) \/ ContinuationBlocked(w)
  BY <1>6, <1>g DEF AnyTurnEnds, TurnEnds, RenewLease, JobsGetLate, ContinuationBlocked, Goto, TypeOK
<1>7. CASE StartSweep(w) \/ \E u \in Tasks : StartRetry(w, u)
  <2>1. ASSUME NEW S \in SUBSET Tasks, t \notin S, jobs' = [jobs EXCEPT ![w] = ParkedTurns(S)],
               Goto(w, "sweep")
        PROVE  ~Touches(w, t)'
    <3>1. jobs'[w] = ParkedTurns(S) /\ pc'[w] = "sweep"
      BY <2>1 DEF Goto, TypeOK
    <3> QED BY <1>g, <1>r, <2>1, <3>1
  <2>2. CASE StartSweep(w)
    <3>1. InStatus("waiting_for_approval") \in SUBSET Tasks /\ t \notin InStatus("waiting_for_approval")
      BY DEF InStatus, ClaimedRow
    <3> QED BY <2>1, <2>2, <3>1 DEF StartSweep
  <2>3. ASSUME NEW u \in Tasks, StartRetry(w, u) PROVE ~Touches(w, t)'
    <3>1. t \notin {u} /\ {u} \in SUBSET Tasks
      BY <2>3 DEF StartRetry, ClaimedRow
    <3> QED BY <2>1, <2>3, <3>1 DEF StartRetry
  <2> QED BY <1>7, <2>2, <2>3
<1>8. ASSUME NEW k \in Hosts, StartHost(k, w) \/ StartPass(w) PROVE ~Touches(w, t)'
  <2>1. StartPass(w)
    BY <1>8 DEF StartHost
  <2>2. t \notin Lapsed /\ Lapsed \in SUBSET Tasks
    BY DEF Lapsed, ClaimedRow
  <2> QED BY <1>g, <1>r, <2>1, <2>2 DEF StartPass, Goto, TypeOK
<1> QED BY <1>1, <1>2, <1>3, <1>4, <1>5, <1>6, <1>7, <1>8 DEF WorkerStep, Advance

\* A stranger's step leaves a claimed row to its pass.
LEMMA StrangerKeeps ==
  ASSUME TypeOK, HandInv, NEW h, Hosts = {h}, NEW t \in Tasks, NEW w \in Workers, WorkerStep(w),
         NEW v \in Workers \ {w}, Has(v, t) => Owns(v, t), Has(v, t)'
  PROVE  Owns(v, t)'
<1>a. Alone(w) /\ stopping'[v] = stopping[v]
  BY StepAlone, StepFrame DEF Stays
<1>1. Has(v, t)
  BY <1>a DEF Has, Waits, Turns, Alone, Same
<1>2. Owns(v, t) /\ ~Touches(w, t)
  BY <1>1 DEF Owns
<1>3. \A k \in Hosts : up[k]
  <2>1. pc[v] # "idle" /\ HostOf[v] = h
    BY <1>1, WorkerSets DEF Has, Waits, Turns, HandInv, HandOK
  <2> QED BY <2>1 DEF HandInv, HandOK
<1>4. RowSame(t) /\ ~Touches(w, t)'
  BY <1>2, <1>3, RowAside, TouchAside DEF Owns, ClaimedRow
<1>5. \A u \in Workers \ {w} : (Touches(u, t)' <=> Touches(u, t)) /\ (WorksOn(u, t)' <=> WorksOn(u, t))
  BY <1>a DEF Touches, WorksOn, Alone, Same
<1> QED BY <1>2, <1>4, <1>5, <1>a DEF Owns, RowSame, ClaimedRow, Alone, Same

\* A row that is due is in nobody's list or hand, while a pass holds the loop.
LEMMA DueIsUntouched ==
  ASSUME TypeOK, StageInv, Loop, HandInv, NEW h, Hosts = {h}, NEW t \in Tasks \ Orphans,
         t \in Routines => RoutineInv(t), t \notin Routines => PastInv(t), ClaimInv(t),
         status[t] = "queued", NEW w \in Workers, Holds(w), NEW v \in Workers \ {w}
  PROVE  ~Touches(v, t)
<1> SUFFICES ASSUME Touches(v, t) PROVE FALSE
  OBVIOUS
<1>1. pc[v] = "turn"
  BY LoneRunner DEF HandInv, HandOK, Touches, WorksOn, Working
<1>2. CASE stage[v] = "batch"
  <2>1. Has(v, t)
    BY <1>1, <1>2 DEF Has, Waits, Turns, Touches, WorksOn
  <2> QED BY <2>1 DEF ClaimInv, Owns, ClaimedRow
<1>3. CASE stage[v] = "resume"
  BY <1>3 DEF RoutineInv, WorkerInv, PastInv, Past, Terminal, Touches
<1> QED BY <1>1, <1>2, <1>3 DEF StageInv, StageOK

\* claim_due_tasks makes its pass the owner of what it claims.
LEMMA ClaimOwns ==
  ASSUME TypeOK, StageInv, Loop, HandInv, NEW h, Hosts = {h}, NEW t \in Tasks \ Orphans,
         t \in Routines => RoutineInv(t), t \notin Routines => PastInv(t), ClaimInv(t),
         NEW w \in Workers, NEW S \in SUBSET Due, ClaimDue(w, S), Has(w, t)'
  PROVE  Owns(w, t)'
<1>1. /\ pc'[w] = "batch" /\ Holds(w)
      /\ jobs'[w] = {[task |-> u, claim |-> gen[u] + 1, late |-> slot[u] = "missed"] : u \in S}
  BY DEF ClaimDue, Goto, TypeOK
<1>2. t \in S /\ status[t] = "queued"
  BY <1>1 DEF Has, Waits, Turns, Due
<1>3. gen'[t] = gen[t] + 1 /\ status'[t] = "running" /\ beat'[t] = "fresh"
  BY <1>2 DEF ClaimDue
<1>4. Alone(w)
  BY StepAlone DEF WorkerStep, Advance, Claims
<1>5. ASSUME NEW v \in Workers \ {w} PROVE ~Touches(v, t)'
  <2>1. ~Touches(v, t)
    BY <1>1, <1>2, DueIsUntouched
  <2> QED BY <1>4, <2>1 DEF Alone, Same, Touches, WorksOn
<1>6. ~WorksOn(w, t)'
  BY <1>1 DEF WorksOn, Working
<1>7. ASSUME NEW j \in jobs'[w], j.task = t
      PROVE  j = [task |-> t, claim |-> gen[t] + 1, late |-> slot[t] = "missed"]
  BY <1>1, <1>7
<1> QED BY <1>3, <1>5, <1>6, <1>7 DEF Owns, ClaimedRow

\* A member that still waits is not touched by what its pass does with another.
LEMMA WaitingKeeps ==
  ASSUME NEW t \in Tasks, NEW w \in Workers, Owns(w, t), Alone(w), RowSame(t),
         jobs'[w] \subseteq jobs[w], ~WorksOn(w, t)'
  PROVE  Owns(w, t)'
<1>1. \A u \in Workers \ {w} : Touches(u, t)' <=> Touches(u, t)
  BY DEF Touches, WorksOn, Alone, Same
<1> QED BY <1>1 DEF Owns, RowSame, ClaimedRow

\* What its own pass does with a claimed row.
LEMMA OwnerKeeps ==
  ASSUME TypeOK, StageInv, HandInv, NEW t \in Tasks \ Orphans, NEW w \in Workers,
         WorkerStep(w), ~Claims(w), Has(w, t) => Owns(w, t), Has(w, t)'
  PROVE  Owns(w, t)'
<1>a. Alone(w)
  BY StepAlone
<1>s. StageOK(w) /\ HandOK(w)
  BY DEF StageInv, HandInv
<1>j. \A j \in jobs[w] : j \in Job
  BY DEF TypeOK
<1>n. stage'[w] = "batch"
  BY DEF Has, Waits, Turns
<1>1. ASSUME Settles(w) PROVE FALSE
  BY <1>1, <1>n, <1>s DEF Settles, SettleNext, NextList, HostStarted, TypeOK, StageOK
<1>2. ASSUME Sweeps(w) PROVE FALSE
  BY <1>2, <1>n, <1>s DEF Sweeps, SweepDone, LeaveParked, ContinueParked, TurnTaken, StageOK
<1>3. ASSUME ContinuationBlocked(w) \/ StartSweep(w) \/ \E u \in Tasks : StartRetry(w, u) PROVE FALSE
  BY <1>3, <1>n DEF ContinuationBlocked, StartSweep, StartRetry, TypeOK
<1>4. ASSUME NEW k \in Hosts, StartHost(k, w) \/ StartPass(w) PROVE FALSE
  BY <1>4, <1>n DEF StartHost, StartPass, TypeOK
<1>5. CASE Walks(w)
  <2>1. CASE BatchDone(w)
    BY <2>1 DEF BatchDone, Goto, Has, Waits, Turns, TypeOK
  <2>2. ASSUME NEW j \in jobs[w], SkipMissed(w, j) \/ RefuseOrphan(w, j) \/ RefuseGoalStep(w, j)
        PROVE  Owns(w, t)'
    <3>1. /\ pc[w] = "batch" /\ pc'[w] \in {"batch", "rearm"} /\ jobs'[w] = jobs[w] \ {j}
          /\ stage' = stage /\ (pc'[w] = "rearm" => cur'[w] = j)
      BY <2>2 DEF SkipMissed, RefuseOrphan, RefuseGoalStep, Goto, TypeOK
    <3>2. Owns(w, t)
      BY <3>1 DEF Has, Waits, Turns
    <3>3. j.task # t
      BY <3>1, <3>2 DEF Has, Waits, Turns, Owns
    <3>4. RowSame(t)
      BY <2>2, <3>3, <1>j DEF SkipMissed, RefuseOrphan, RefuseGoalStep, RowSame, Fence, FenceLost, TypeOK, Job
    <3>5. ~WorksOn(w, t)'
      BY <3>1, <3>3 DEF WorksOn, Working
    <3> QED BY <1>a, <3>1, <3>2, <3>4, <3>5, WaitingKeeps
  <2>3. ASSUME NEW j \in jobs[w], StartTurn(w, j) PROVE Owns(w, t)'
    <3>1. /\ pc[w] = "batch" /\ pc'[w] = "turn" /\ cur'[w] = j /\ jobs'[w] = jobs[w] \ {j}
          /\ stage' = stage /\ RowSame(t) /\ stopping'[w] = stopping[w]
      BY <2>3 DEF StartTurn, Goto, TypeOK, RowSame, taskVars
    <3>2. Owns(w, t) /\ ~stopping[w]
      BY <1>s, <3>1 DEF Has, Waits, Turns, HandOK
    <3>3. CASE j.task # t
      BY <1>a, <3>1, <3>2, <3>3, WaitingKeeps DEF WorksOn
    <3>4. CASE j.task = t
      <4>1. \A i \in jobs'[w] : i.task # t
        BY <3>1, <3>2, <3>4 DEF Owns
      <4>2. \A u \in Workers \ {w} : Touches(u, t)' <=> Touches(u, t)
        BY <1>a DEF Touches, WorksOn, Alone, Same
      <4> QED BY <3>1, <3>2, <3>4, <4>1, <4>2 DEF Owns, RowSame, ClaimedRow
    <3> QED BY <3>3, <3>4
  <2> QED BY <1>5, <2>1, <2>2, <2>3 DEF Walks
<1>6. CASE Lands(w)
  <2>1. stage' = stage /\ jobs' = jobs /\ pc[w] \in Working /\ pc'[w] # "turn"
    <3>1. Landed(w) # "turn"
      BY DEF Landed
    <3> QED BY <1>6, <3>1, ReturnAlone
        DEF Lands, Load, FenceClaim, CountCycle, PauseRoutine, Rearm, WriteOutcome, Return, Goto, TypeOK, Working
  <2>2. Owns(w, t) /\ cur[w].task # t
    BY <2>1 DEF Has, Waits, Turns, Owns, WorksOn
  <2>3. RowSame(t)
    BY <1>6, <2>2 DEF Lands, Load, FenceClaim, CountCycle, PauseRoutine, Rearm, WriteOutcome,
                      RowSame, Fence, FenceLost, TypeOK, Job, taskVars
  <2>4. ~WorksOn(w, t)'
    <3>1. CASE Return(w)
      BY <3>1, ReturnAlone DEF WorksOn
    <3>2. CASE ~Return(w)
      BY <1>6, <2>2, <3>2
      DEF Lands, Load, FenceClaim, CountCycle, PauseRoutine, Rearm, WriteOutcome, WorksOn
    <3> QED BY <3>1, <3>2
  <2> QED BY <1>a, <2>1, <2>2, <2>3, <2>4, WaitingKeeps
<1>7. CASE AnyTurnEnds(w)
  <2>1. /\ pc[w] = "turn" /\ pc'[w] = "load" /\ cur' = cur /\ jobs' = jobs /\ stage' = stage /\ RowSame(t)
    BY <1>7 DEF AnyTurnEnds, TurnEnds, Goto, TypeOK, RowSame
  <2>2. Owns(w, t) /\ cur[w].task # t
    BY <2>1 DEF Has, Waits, Turns, Owns, WorksOn, Working
  <2> QED BY <1>a, <2>1, <2>2, WaitingKeeps DEF WorksOn
<1>u. \A u \in Workers \ {w} : Touches(u, t)' <=> Touches(u, t)
  BY <1>a DEF Touches, WorksOn, Alone, Same
<1>8. CASE RenewLease(w)
  <2>1. /\ pc[w] = "turn" /\ UNCHANGED <<pc, cur, jobs, stage, status, gen>>
        /\ beat'[t] = beat[t] \/ beat'[t] = "fresh"
    BY <1>8 DEF RenewLease, TypeOK
  <2>2. Owns(w, t)
    BY <2>1 DEF Has, Waits, Turns
  <2>3. cur[w].task = t /\ stopping'[w] => status[t] = "cancelled"
    <3>1. cur[w].task = t => cur[w].claim = gen[t] /\ (stopping[w] => status[t] = "cancelled")
      BY <2>1, <2>2 DEF Owns, WorksOn, Working
    <3>2. stopping'[w] = stopping[w] \/ gen[cur[w].task] # cur[w].claim \/ status[cur[w].task] # "running"
      BY <1>8 DEF RenewLease
    <3>3. status[t] \in {"cancelled", "running"}
      BY <2>2 DEF Owns, ClaimedRow
    <3> QED BY <3>1, <3>2, <3>3
  <2> QED BY <1>u, <2>1, <2>2, <2>3 DEF Owns, ClaimedRow, WorksOn
<1>9. CASE JobsGetLate(w)
  <2>1. /\ pc[w] = "turn" /\ UNCHANGED <<pc, cur, stage, stopping, status, gen, beat>>
        /\ jobs'[w] = {[task |-> j.task, claim |-> j.claim, late |-> TRUE] : j \in jobs[w]}
    BY <1>9 DEF JobsGetLate, TypeOK, taskVars
  <2>2. Owns(w, t)
    BY <2>1 DEF Has, Waits, Turns
  <2>3. ASSUME NEW j \in jobs'[w], j.task = t
        PROVE  j = [task |-> t, claim |-> gen[t], late |-> TRUE] /\ ~WorksOn(w, t)
    <3>1. PICK i \in jobs[w] : j = [task |-> i.task, claim |-> i.claim, late |-> TRUE]
      BY <2>1
    <3>2. i.task = t
      BY <2>3, <3>1
    <3>3. i.claim = gen[t] /\ ~WorksOn(w, t)
      BY <2>2, <3>1, <3>2 DEF Owns
    <3> QED BY <3>1, <3>2, <3>3
  <2>4. (WorksOn(w, t)' <=> WorksOn(w, t)) /\ (ClaimedRow(t)' <=> ClaimedRow(t))
    BY <2>1 DEF WorksOn, ClaimedRow
  <2>5. \A j \in jobs'[w] : j.task = t =>
           /\ j.claim = gen'[t] /\ ~WorksOn(w, t)'
           /\ \A i \in jobs'[w] : i.task = t => i = j
    <3> SUFFICES ASSUME NEW j \in jobs'[w], j.task = t
                 PROVE  /\ j.claim = gen[t] /\ ~WorksOn(w, t)
                        /\ \A i \in jobs'[w] : i.task = t => i = j
      BY <2>1, <2>4
    <3>1. j = [task |-> t, claim |-> gen[t], late |-> TRUE] /\ ~WorksOn(w, t)
      BY <2>3
    <3>2. j.claim = gen[t]
      BY <3>1
    <3> QED BY <2>3, <3>1, <3>2
  <2> QED BY <1>u, <2>1, <2>2, <2>4, <2>5 DEF Owns
<1> QED BY <1>1, <1>2, <1>3, <1>4, <1>5, <1>6, <1>7, <1>8, <1>9 DEF WorkerStep, Advance

----------------------------------------------------------------------------
(***************************************************************************)
(* What a coroutine has in hand, and one-time tasks whose turn was parked. *)
(***************************************************************************)
LEMMA HandStep ==
  ASSUME TypeOK, Loop, StageInv, HandInv, [Next]_vars
  PROVE  HandInv'
<1>h. \A v \in Workers : HostOf[v] \in Hosts
  BY WorkerSets
<1>1. ASSUME NEW w \in Workers, WorkerStep(w), HandOK(w)' PROVE HandInv'
  <2>1. ASSUME NEW v \in Workers \ {w} PROVE HandOK(v)'
    <3>1. Same(v) /\ jobs'[v] = jobs[v] /\ stopping'[v] = stopping[v] /\ (up[HostOf[v]] => up'[HostOf[v]])
      BY <1>1, StepAlone, StepFrame DEF Alone, Stays
    <3> QED BY <3>1 DEF HandInv, HandOK, Same
  <2> QED BY <1>1, <2>1 DEF HandInv
<1>2. ASSUME NEW w \in Workers, WorkerStep(w) PROVE HandOK(w)'
  <2>0. HandOK(w) /\ StageOK(w) /\ HostOf[w] \in Hosts /\ pc[w] \in Locations /\ w \in Workers
    BY <1>h DEF HandInv, StageInv, TypeOK
  <2>u. Free(HostOf[w]) => up[HostOf[w]]
    BY DEF Free
  <2>r. w \in Resumers => w \notin Passes
    BY WorkerSets
  <2> USE <2>0, <2>u, <2>r DEF hostVars, HandOK, StageOK
  <2>1. CASE Settles(w)
    BY <2>1 DEF Settles, SettleNext, NextList, HostStarted, Goto, TypeOK
  <2>2. CASE Claims(w)
    BY <2>2 DEF Claims, PassHeld, ClaimDue, Goto, TypeOK
  <2>3. CASE Walks(w)
    BY <2>3, TaskSets DEF Walks, BatchDone, SkipMissed, RefuseOrphan, RefuseGoalStep, StartTurn, Skips, Goto, TypeOK
  <2>4. CASE Sweeps(w)
    BY <2>4 DEF Sweeps, SweepDone, LeaveParked, ContinueParked, TurnTaken, Goto, TypeOK
  <2>5. CASE Lands(w)
    <3>1. CASE Return(w)
      <4>1. pc'[w] \in {"batch", "sweep", "settle"}
        BY <3>1 DEF Return, Goto, TypeOK
      <4>2. pc[w] \notin {"idle", "turn"}
        BY <2>5 DEF Lands, Load, FenceClaim, CountCycle, PauseRoutine, Rearm, WriteOutcome
      <4> QED BY <3>1, <4>1, <4>2 DEF Return
    <3>2. CASE ~Return(w)
      <4>1. Landed(w) \in {"count", "rearm", "write"} /\ (Landed(w) = "rearm" => cur[w].task \in Routines)
        BY DEF Landed, Repeating
      <4> QED BY <2>5, <3>2, <4>1
          DEF Lands, Load, FenceClaim, CountCycle, PauseRoutine, Rearm, WriteOutcome, Goto, TypeOK
    <3> QED BY <3>1, <3>2
  <2>6. CASE AnyTurnEnds(w) \/ RenewLease(w) \/ JobsGetLate(w) \/ ContinuationBlocked(w)
    <3>1. CASE AnyTurnEnds(w)
      BY <3>1 DEF AnyTurnEnds, TurnEnds, Goto, TypeOK
    <3>2. CASE RenewLease(w)
      BY <3>2 DEF RenewLease, TypeOK
    <3>3. CASE JobsGetLate(w)
      BY <3>3 DEF JobsGetLate, TypeOK
    <3>4. CASE ContinuationBlocked(w)
      <4>1. pc'[w] = "sweep" /\ stage' = stage /\ stopping' = stopping /\ up' = up
        BY <3>4 DEF ContinuationBlocked, Goto, TypeOK
      <4>2. pc[w] = "turn" /\ stage[w] = "resume"
        BY <3>4 DEF ContinuationBlocked
      <4> QED BY <4>1, <4>2
    <3> QED BY <2>6, <3>1, <3>2, <3>3, <3>4
  <2>7. CASE StartSweep(w) \/ \E t \in Tasks : StartRetry(w, t)
    BY <2>7 DEF StartSweep, StartRetry, Goto, TypeOK
  <2>8. ASSUME NEW h \in Hosts, StartHost(h, w) \/ StartPass(w) PROVE HandOK(w)'
    BY <2>8 DEF StartHost, StartPass, Goto, TypeOK
  <2> QED BY <1>2, <2>1, <2>2, <2>3, <2>4, <2>5, <2>6, <2>7, <2>8 DEF WorkerStep, Advance
<1>3. ASSUME NEW h \in Hosts, Crash(h) PROVE HandInv'
  <2>1. ASSUME NEW v \in Workers PROVE HandOK(v)'
    <3>1. CASE HostOf[v] = h
      BY <1>3, <3>1 DEF Crash, HandOK
    <3>2. CASE HostOf[v] # h
      BY <1>3, <1>h, <3>2 DEF Crash, HandInv, HandOK, TypeOK
    <3> QED BY <3>1, <3>2
  <2> QED BY <2>1 DEF HandInv
<1>4. ASSUME UNCHANGED <<up, workVars>> PROVE HandInv'
  BY <1>4 DEF HandInv, HandOK, workVars
<1>5. ASSUME NEW t \in Tasks, SlotComes(t) \/ LeaseLapses(t) PROVE HandInv'
  BY <1>4, <1>5 DEF SlotComes, LeaseLapses, hostVars
<1>6. CASE Owner
  BY <1>4, <1>6 DEF Owner, Interrupt, RunNow, ContinueRoutine, TabContinues, HoldHost, ReleaseHost, hostVars
<1> QED BY <1>1, <1>2, <1>3, <1>4, <1>5, <1>6, NextSplit DEF vars, hostVars

\* A one-time task that is past stays so, and is never paused.
LEMMA PastStays ==
  ASSUME TypeOK, SkippedRearms, StageInv, HandInv, NEW t \in Tasks \ Routines,
         NEW w \in Workers, WorkerStep(w), status[t] # "paused"
  PROVE  status'[t] # "paused" /\ (status[t] \in Past => status'[t] \in Past)
<1>0. StageOK(w) /\ HandOK(w) /\ out[w] \in Outcomes /\ (out[w] = "skipped" => pc[w] = "rearm")
  BY DEF StageInv, HandInv, TypeOK, SkippedRearms
<1> USE DEF taskVars, Past, Terminal
<1>1. CASE Settles(w)
  BY <1>1 DEF Settles, SettleNext, NextList, HostStarted
<1>2. CASE Claims(w)
  BY <1>2 DEF Claims, PassHeld, ClaimDue, Due
<1>3. CASE Walks(w)
  BY <1>3 DEF Walks, BatchDone, SkipMissed, RefuseOrphan, RefuseGoalStep, StartTurn, TypeOK
<1>4. CASE Sweeps(w)
  BY <1>4 DEF Sweeps, SweepDone, LeaveParked, ContinueParked, TurnTaken, TypeOK
<1>5. CASE Lands(w)
  <2>1. CASE PauseRoutine(w) \/ Rearm(w)
    BY <1>0, <2>1 DEF PauseRoutine, Rearm, StageOK, HandOK, TypeOK
  <2>2. CASE WriteOutcome(w)
    BY <1>0, <2>2 DEF WriteOutcome, Outcomes, TypeOK
  <2> QED BY <1>5, <2>1, <2>2 DEF Lands, Load, FenceClaim, CountCycle
<1>6. CASE AnyTurnEnds(w) \/ RenewLease(w) \/ JobsGetLate(w) \/ ContinuationBlocked(w)
  BY <1>6 DEF AnyTurnEnds, TurnEnds, RenewLease, JobsGetLate, ContinuationBlocked, TypeOK
<1>7. CASE StartSweep(w) \/ \E u \in Tasks : StartRetry(w, u)
  BY <1>7 DEF StartSweep, StartRetry
<1>8. ASSUME NEW k \in Hosts, StartHost(k, w) \/ StartPass(w) PROVE status' = status
  BY <1>8 DEF StartHost, StartPass
<1> QED BY <1>1, <1>2, <1>3, <1>4, <1>5, <1>6, <1>7, <1>8 DEF WorkerStep, Advance

\* A continuation has in hand only tasks that were parked.
LEMMA ResumesPast ==
  ASSUME TypeOK, StageInv, HandInv, NEW t \in Tasks, status[t] # "paused",
         NEW w \in Workers, WorkerStep(w), stage'[w] = "resume", Touches(w, t)'
  PROVE  (stage[w] = "resume" /\ Touches(w, t)) \/ status[t] = "waiting_for_approval"
<1>0. StageOK(w) /\ HandOK(w)
  BY DEF StageInv, HandInv
<1>r. ASSUME NEW S \in SUBSET Tasks, jobs' = [jobs EXCEPT ![w] = ParkedTurns(S)], Goto(w, "sweep")
      PROVE  t \in S
  <2>1. jobs'[w] = ParkedTurns(S) /\ pc'[w] = "sweep"
    BY <1>r DEF Goto, TypeOK
  <2> QED BY <2>1 DEF ParkedTurns, Touches, WorksOn, Working
<1> USE DEF Touches, WorksOn, Working
<1>1. ASSUME Settles(w) PROVE FALSE
  BY <1>0, <1>1 DEF Settles, SettleNext, NextList, HostStarted, StageOK, TypeOK
<1>2. ASSUME Claims(w) PROVE FALSE
  BY <1>0, <1>2 DEF Claims, PassHeld, ClaimDue, TypeOK
<1>3. ASSUME Walks(w) PROVE FALSE
  BY <1>0, <1>3 DEF Walks, BatchDone, SkipMissed, RefuseOrphan, RefuseGoalStep, StartTurn, StageOK
<1>4. CASE Sweeps(w)
  BY <1>4 DEF Sweeps, SweepDone, LeaveParked, ContinueParked, TurnTaken, Goto, TypeOK
<1>5. CASE Lands(w)
  <2>1. CASE Return(w)
    BY <2>1, ReturnAlone DEF Return
  <2>2. CASE ~Return(w)
    BY <1>5, <2>2
    DEF Lands, Load, FenceClaim, CountCycle, PauseRoutine, Rearm, WriteOutcome, Goto, TypeOK
  <2> QED BY <2>1, <2>2
<1>6. CASE AnyTurnEnds(w) \/ RenewLease(w) \/ JobsGetLate(w) \/ ContinuationBlocked(w)
  BY <1>6 DEF AnyTurnEnds, TurnEnds, RenewLease, JobsGetLate, ContinuationBlocked, Goto, TypeOK
<1>7. CASE StartSweep(w) \/ \E u \in Tasks : StartRetry(w, u)
  <2>1. CASE StartSweep(w)
    BY <1>r, <2>1 DEF StartSweep, InStatus
  <2>2. ASSUME NEW u \in Tasks, StartRetry(w, u) PROVE u = t
    <3>1. {u} \in SUBSET Tasks
      OBVIOUS
    <3> QED BY <1>r, <2>2, <3>1 DEF StartRetry
  <2> QED BY <1>7, <2>1, <2>2 DEF StartRetry
<1>8. ASSUME NEW k \in Hosts, StartHost(k, w) \/ StartPass(w) PROVE FALSE
  BY <1>8 DEF StartHost, StartPass, TypeOK
<1> QED BY <1>1, <1>2, <1>3, <1>4, <1>5, <1>6, <1>7, <1>8 DEF WorkerStep, Advance

----------------------------------------------------------------------------
(***************************************************************************)
(* The owner, the clock and the machine.                                   *)
(***************************************************************************)
\* The interrupts that are left only cancel.
LEMMA OnlyCancels ==
  ASSUME NoOwnerWrites, NEW u \in Tasks, NEW a \in OwnerActions, Interrupt(u, a)
  PROVE  status' = [status EXCEPT ![u] = "cancelled"]
<1>1. a = "cancel"
  BY Switches DEF Interrupt, NoOwnerWrites, OwnerActionNames
<1> QED BY <1>1 DEF Interrupt, InterruptResult

Aside == Owner \/ (\E u \in Tasks : SlotComes(u) \/ LeaseLapses(u)) \/ UNCHANGED vars

LEMMA AsideRow ==
  ASSUME TypeOK, NoOwnerWrites, Aside, NEW t \in Tasks, status[t] # "paused"
  PROVE  /\ UNCHANGED workVars /\ gen'[t] = gen[t]
         /\ status'[t] = status[t] \/ status'[t] = "cancelled"
         /\ beat'[t] # beat[t] => LeaseLapses(t)
<1>1. ASSUME NEW u \in Tasks, NEW a \in OwnerActions, Interrupt(u, a)
      PROVE  /\ UNCHANGED workVars /\ gen'[t] = gen[t] /\ beat'[t] = beat[t]
             /\ status'[t] = status[t] \/ status'[t] = "cancelled"
  BY <1>1, OnlyCancels DEF Interrupt, TypeOK
<1>2. ASSUME NEW u \in Tasks,
             \/ RunNow(u) \/ ContinueRoutine(u) \/ SlotComes(u)
             \/ \E g \in parked[u] : TabContinues(u, g)
      PROVE  UNCHANGED workVars /\ gen'[t] = gen[t] /\ beat'[t] = beat[t] /\ status'[t] = status[t]
  BY <1>2 DEF RunNow, ContinueRoutine, SlotComes, TabContinues, TypeOK
<1>3. ASSUME NEW u \in Tasks, LeaseLapses(u)
      PROVE  /\ UNCHANGED workVars /\ gen'[t] = gen[t] /\ status'[t] = status[t]
             /\ beat'[t] # beat[t] => u = t
  BY <1>3 DEF LeaseLapses, TypeOK
<1>4. CASE HoldHost \/ ReleaseHost \/ UNCHANGED vars
  BY <1>4 DEF HoldHost, ReleaseHost, vars, taskVars
<1> QED BY <1>1, <1>2, <1>3, <1>4 DEF Aside, Owner

\* The lease of a row that a pass runs does not lapse: the pass renews it.
LEMMA RunnerRenews ==
  ASSUME TypeOK, ~RenewalsMayMiss, HandInv,
         NEW t \in Tasks \ Orphans, ClaimInv(t), LeaseLapses(t), NEW w \in Workers
  PROVE  ~Turns(w, t)
<1> SUFFICES ASSUME Turns(w, t) PROVE FALSE
  OBVIOUS
<1>1. Owns(w, t) /\ status[t] = "running" /\ ~Renewing(t)
  BY DEF ClaimInv, Has, LeaseLapses
<1>2. pc[w] = "turn" /\ stage[w] = "batch" /\ cur[w].task = t /\ WorksOn(w, t)
  BY DEF Turns, WorksOn, Working
<1>3. w \in Passes
  BY <1>2 DEF HandInv, HandOK
<1>4. cur[w].claim = gen[t] /\ ~stopping[w]
  BY <1>1, <1>2 DEF Owns
<1> QED BY <1>1, <1>2, <1>3, <1>4 DEF Renewing

LEMMA AsideClaim ==
  ASSUME TypeOK, ~RenewalsMayMiss, NoOwnerWrites, HandInv, LapsesSpareWaiters, Aside,
         NEW t \in Tasks \ Orphans, ClaimInv(t)
  PROVE  ClaimInv(t)'
<1> SUFFICES ASSUME NEW w \in Workers, Has(w, t)' PROVE Owns(w, t)'
  BY DEF ClaimInv
<1>1. UNCHANGED workVars
  BY DEF Aside, Owner, Interrupt, RunNow, ContinueRoutine, TabContinues, HoldHost, ReleaseHost,
         SlotComes, LeaseLapses, vars
<1>2. Has(w, t) /\ Owns(w, t)
  BY <1>1 DEF workVars, Has, Waits, Turns, ClaimInv
<1>3. ~LeaseLapses(t)
  BY <1>2, RunnerRenews DEF LapsesSpareWaiters, Has
<1>4. /\ gen'[t] = gen[t] /\ beat'[t] = beat[t]
      /\ status'[t] = status[t] \/ status'[t] = "cancelled"
  BY <1>2, <1>3, AsideRow DEF Owns, ClaimedRow
<1>5. \A v \in Workers : (Touches(v, t)' <=> Touches(v, t)) /\ (WorksOn(v, t)' <=> WorksOn(v, t))
  BY <1>1 DEF Touches, WorksOn, workVars
<1> QED BY <1>1, <1>2, <1>4, <1>5 DEF Owns, ClaimedRow, workVars

LEMMA AsidePast ==
  ASSUME TypeOK, NoOwnerWrites, Aside, NEW t \in Tasks \ Routines, PastInv(t)
  PROVE  PastInv(t)'
<1>1. UNCHANGED workVars /\ (status'[t] = status[t] \/ status'[t] = "cancelled")
  BY AsideRow DEF PastInv
<1> QED BY <1>1 DEF PastInv, Past, Terminal, Touches, WorksOn, workVars

\* A crash leaves nobody with anything in hand.
LEMMA CrashTurns ==
  ASSUME TypeOK, NEW h, Hosts = {h}, NEW k \in Hosts, Crash(k), NEW t \in Tasks
  PROVE  ClaimInv(t)' /\ (PastInv(t) => PastInv(t)')
<1>1. \A w \in Workers : pc'[w] = "idle" /\ stage'[w] = "batch" /\ jobs'[w] = {}
  BY WorkerSets DEF Crash
<1>2. status' = status
  BY DEF Crash, taskVars
<1> QED BY <1>1, <1>2 DEF ClaimInv, PastInv, Has, Waits, Turns

LEMMA PastStep ==
  ASSUME TypeOK, SkippedRearms, StageInv, HandInv, NoOwnerWrites, NEW h, Hosts = {h}, [Next]_vars,
         NEW t \in Tasks \ Routines, PastInv(t)
  PROVE  PastInv(t)'
<1>1. ASSUME NEW w \in Workers, WorkerStep(w) PROVE PastInv(t)'
  <2>1. status'[t] # "paused" /\ (status[t] \in Past => status'[t] \in Past)
    BY <1>1, PastStays DEF PastInv
  <2>2. ASSUME stage'[w] = "resume", Touches(w, t)' PROVE status[t] \in Past
    BY <1>1, <2>2, ResumesPast DEF PastInv, Past
  <2>3. ASSUME NEW v \in Workers \ {w}, stage'[v] = "resume", Touches(v, t)'
        PROVE  stage[v] = "resume" /\ Touches(v, t)
    BY <1>1, <2>3, StepAlone DEF Alone, Same, Touches, WorksOn
  <2> QED BY <2>1, <2>2, <2>3 DEF PastInv
<1>2. ASSUME NEW k \in Hosts, Crash(k) PROVE PastInv(t)'
  BY <1>2, CrashTurns
<1>3. CASE Aside
  BY <1>3, AsidePast
<1> QED BY <1>1, <1>2, <1>3, NextSplit DEF Aside

LEMMA TurnStep ==
  ASSUME NEW h, Hosts = {h}, NoOwnerWrites, ~RenewalsMayMiss,
         IInv, Loop, StreakInv, TurnInv, [Next]_vars, LapsesSpareWaiters \/ UNCHANGED vars
  PROVE  TurnInv'
<1>0. TypeOK /\ SkippedRearms /\ StageInv /\ HandInv
  BY DEF IInv, StreakInv, TurnInv
<1>1. HandInv'
  BY <1>0, HandStep
<1>2. ASSUME NEW t \in Tasks \ Routines PROVE PastInv(t)'
  BY <1>0, PastStep DEF TurnInv
<1>3. ASSUME NEW t \in Tasks \ Orphans PROVE ClaimInv(t)'
  <2>0. /\ ClaimInv(t)
        /\ t \in Routines => RoutineInv(t)
        /\ t \notin Routines => PastInv(t)
    BY DEF TurnInv, StreakInv
  <2>1. ASSUME NEW w \in Workers, WorkerStep(w), NEW v \in Workers, Has(v, t)' PROVE Owns(v, t)'
    <3>1. CASE v # w
      BY <1>0, <2>0, <2>1, <3>1, StrangerKeeps DEF ClaimInv
    <3>2. CASE v = w /\ ~Claims(w)
      BY <1>0, <2>0, <2>1, <3>2, OwnerKeeps DEF ClaimInv
    <3>3. CASE v = w /\ Claims(w)
      <4>1. CASE PassHeld(w)
        BY <2>1, <3>3, <4>1 DEF PassHeld, Goto, Has, Waits, Turns, TypeOK
      <4>2. ASSUME NEW S \in SUBSET Due, ClaimDue(w, S) PROVE Owns(w, t)'
        BY <1>0, <2>0, <2>1, <3>3, <4>2, ClaimOwns
      <4> QED BY <3>3, <4>1, <4>2 DEF Claims
    <3> QED BY <3>1, <3>2, <3>3
  <2>2. ASSUME NEW k \in Hosts, Crash(k) PROVE ClaimInv(t)'
    BY <1>0, <2>2, CrashTurns
  <2>3. CASE Aside /\ LapsesSpareWaiters
    BY <1>0, <2>0, <2>3, AsideClaim
  <2>4. CASE UNCHANGED vars
    BY <2>0, <2>4 DEF vars, taskVars, workVars, ClaimInv, Has, Waits, Turns, Owns, Touches, WorksOn, ClaimedRow
  <2> QED BY <2>1, <2>2, <2>3, <2>4, NextSplit DEF Aside, ClaimInv
<1> QED BY <1>1, <1>2, <1>3 DEF TurnInv

----------------------------------------------------------------------------
\* On a workspace served by one host, two passes never have a turn of the same
\* task in flight (claim_due_tasks: "so two host ticks cannot run it twice"):
\* for any number of tasks and coroutines, whatever turns do, and wherever the
\* host dies, if the pass that awaits a turn renews its lease, no interrupt
\* writes "paused" or "running", and no lease passes for a claimed member that
\* still waits in its batch.
THEOREM OneTurnAtATime ==
  ASSUME NEW h, Hosts = {h}, NoOwnerWrites, ~RenewalsMayMiss
  PROVE  Spec /\ WaitersKeepTheirLease => []OneLiveTurn
<1>1. Init => Loop /\ StreakInv /\ TurnInv
  <2> SUFFICES ASSUME Init PROVE Loop /\ StreakInv /\ TurnInv
    OBVIOUS
  <2>1. TurnInv
    BY DEF Init, TurnInv, HandInv, HandOK, PastInv, ClaimInv, Has, Waits, Turns
  <2> QED BY <2>1, StreakInit
<1>2. IInv /\ (Loop /\ StreakInv /\ TurnInv) /\ [Next]_vars /\ [LapsesSpareWaiters]_vars
        => (Loop /\ StreakInv /\ TurnInv)'
  BY StreakStep, TurnStep
<1>3. IInv /\ StreakInv /\ TurnInv => OneLiveTurn
  <2> SUFFICES ASSUME IInv, StreakInv, TurnInv, NEW v \in Passes, NEW w \in Passes, v # w,
                      pc[v] = "turn", pc[w] = "turn", cur[v].task = cur[w].task
               PROVE  FALSE
    BY DEF OneLiveTurn
  <2>1. v \in Workers /\ w \in Workers /\ cur[v].task \in Tasks
    BY DEF Workers, IInv, TypeOK, Job
  <2>2. stage[v] = "batch" /\ cur[v].task \notin Orphans
    BY <2>1 DEF StreakInv, StageInv, StageOK, TurnInv, HandInv, HandOK
  <2>3. Owns(v, cur[v].task)
    BY <2>1, <2>2 DEF TurnInv, ClaimInv, Has, Turns
  <2>4. Touches(w, cur[v].task)
    BY DEF Touches, WorksOn, Working
  <2> QED BY <2>1, <2>3, <2>4 DEF Owns
<1> QED BY <1>1, <1>2, <1>3, Invariance, PTL DEF Spec, WaitersKeepTheirLease
=============================================================================
