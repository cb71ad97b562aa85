--------------------------- MODULE TaskRunsProofs ---------------------------
(***************************************************************************)
(* What holds of TaskRuns for every set of tasks, hosts and coroutines,    *)
(* and every value of the limits and bounds.                               *)
(***************************************************************************)
EXTENDS TaskRuns, TLAPS

\* "skipped" is not a task status: a skipped slot is re-armed, never written.
SkippedRearms == \A w \in Workers : out[w] = "skipped" => pc[w] = "rearm"

(***************************************************************************)
(* Why a generation is settled once.  key[w] is the generation w's fence   *)
(* moved the row to.  It is held only from the fence to the end of the     *)
(* landing; generations only grow, so a key is at most its task's          *)
(* generation, and so is every key that was landed: the next fence, which  *)
(* moves the generation, takes a key that no one has or had.               *)
(***************************************************************************)
KeyInLanding == \A w \in Workers : key[w] # 0 => pc[w] \in Landing \union {"load", "fence"}

LandedBelow == \A t \in Tasks : \A k \in landed[t] : k <= gen[t]

KeyFresh ==
    \A w \in Workers : key[w] # 0 => /\ key[w] <= gen[cur[w].task]
                                     /\ key[w] \notin landed[cur[w].task]

KeyDistinct ==
    \A v, w \in Workers :
        v # w /\ key[v] # 0 /\ key[v] = key[w] => cur[v].task # cur[w].task

Keys == KeyInLanding /\ LandedBelow /\ KeyFresh /\ KeyDistinct
IInv == TypeOK /\ SkippedRearms /\ Keys

\* The placeholder an idle coroutine holds is a row like any other.
LEMMA NoJobIsJob == NoJob \in Job
<1>1. PICK t \in Tasks : TRUE
  BY SomeTask
<1>2. (CHOOSE u \in Tasks : TRUE) \in Tasks
  BY <1>1
<1> QED BY <1>2 DEF NoJob, Job

\* Where a landing goes first is a location.
LEMMA LandedIsLocation == \A w \in Workers : Landed(w) \in Landing
  BY DEF Landed, Landing

\* Initial states are well typed.
LEMMA InitTypeOK == Init => TypeOK
<1> SUFFICES ASSUME Init PROVE TypeOK
  OBVIOUS
<1> USE NoJobIsJob
<1> QED
  BY DEF Init, TypeOK, Statuses, Slots, Leases, Outcomes, Locations, Stages

\* What a coroutine read of the table is a set of rows.
LEMMA ReadIsJobs ==
  ASSUME TypeOK, NEW S \in SUBSET Tasks
  PROVE  Read(S) \in SUBSET Job
<1> SUFFICES ASSUME NEW j \in Read(S) PROVE j \in Job
  OBVIOUS
<1>1. PICK t \in S : j = [task |-> t, claim |-> gen[t], late |-> FALSE]
  BY DEF Read
<1>2. t \in Tasks /\ gen[t] \in Nat
  BY DEF TypeOK
<1> QED BY <1>1, <1>2 DEF Job

\* A list of parked turns is a set of rows too.
LEMMA ParkedAreJobs ==
  ASSUME TypeOK, NEW S \in SUBSET Tasks
  PROVE  ParkedTurns(S) \in SUBSET Job
<1> SUFFICES ASSUME NEW j \in ParkedTurns(S) PROVE j \in Job
  OBVIOUS
<1>1. PICK t \in S : j \in {[task |-> t, claim |-> g, late |-> FALSE] : g \in parked[t]}
  BY DEF ParkedTurns
<1>2. PICK g \in parked[t] : j = [task |-> t, claim |-> g, late |-> FALSE]
  BY <1>1
<1>3. t \in Tasks /\ g \in Nat
  BY DEF TypeOK
<1> QED BY <1>2, <1>3 DEF Job

\* The end of a landing keeps the coroutines well typed.
LEMMA ReturnTypeOK ==
  ASSUME TypeOK, NEW w \in Workers, Return(w)
  PROVE  /\ cur' \in [Workers -> Job] /\ out' \in [Workers -> Outcomes]
         /\ key' \in [Workers -> Nat] /\ pc' \in [Workers -> Locations]
         /\ UNCHANGED hostVars /\ UNCHANGED <<stage, jobs, stopping>>
  BY NoJobIsJob DEF TypeOK, Return, Goto, Locations, Outcomes

\* Every step keeps the state well typed: the statuses written are task
\* statuses, and the rows a coroutine holds are rows.
LEMMA StepTypeOK == TypeOK /\ SkippedRearms /\ [Next]_vars => TypeOK'
<1> SUFFICES ASSUME TypeOK, SkippedRearms, [Next]_vars PROVE TypeOK'
  OBVIOUS
<1> USE NoJobIsJob, WorkerSets
    DEF taskVars, hostVars, workVars, history,
        Statuses, Slots, Leases, Outcomes, Locations, Stages
<1>1. ASSUME NEW w \in Workers, StartPass(w) PROVE TypeOK'
  <2>1. Read(Lapsed) \in SUBSET Job
    BY ReadIsJobs DEF Lapsed
  <2> QED BY <1>1, <2>1 DEF StartPass, Take, Goto, TypeOK
<1>2. ASSUME NEW h \in Hosts, NEW w \in Workers, StartHost(h, w) PROVE TypeOK'
  <2>1. Read(InStatus("running")) \in SUBSET Job
    BY ReadIsJobs DEF InStatus
  <2> QED BY <1>2, <2>1 DEF StartHost, Take, Goto, TypeOK
<1>3. ASSUME NEW w \in Workers, NEW j \in jobs[w], SettleNext(w, j) PROVE TypeOK'
  <2>1. j \in Job /\ j.task \in Tasks /\ j.claim \in Nat
    BY <1>3 DEF TypeOK, Job
  <2>2. CASE Fence(j.task, j.claim)
    <3>1. gen' \in [Tasks -> Nat] /\ key' \in [Workers -> Nat]
      BY <1>3, <2>1, <2>2 DEF SettleNext, Fence, FenceLost, HoldsClaim, TypeOK
    <3>2. pc' = [pc EXCEPT ![w] = "load"] /\ cur' = [cur EXCEPT ![w] = j]
          /\ out' = [out EXCEPT ![w] = "failed"]
      BY <1>3, <2>2 DEF SettleNext, Fence, FenceLost, Goto
    <3>3. jobs' \in [Workers -> SUBSET Job]
      BY <1>3 DEF SettleNext, TypeOK
    <3>4. pc' \in [Workers -> Locations] /\ cur' \in [Workers -> Job]
          /\ out' \in [Workers -> Outcomes]
      BY <2>1, <3>2 DEF TypeOK, Locations, Outcomes
    <3> QED BY <1>3, <3>1, <3>3, <3>4 DEF SettleNext, TypeOK
  <2>3. CASE FenceLost(j.task, j.claim)
    BY <1>3, <2>1, <2>3 DEF SettleNext, Fence, FenceLost, HoldsClaim, Goto, TypeOK
  <2> QED BY <1>3, <2>2, <2>3 DEF SettleNext
<1>4. ASSUME NEW w \in Workers, NextList(w) PROVE TypeOK'
  <2>1. Read(InStatus("continuing")) \in SUBSET Job
    BY ReadIsJobs DEF InStatus
  <2> QED BY <1>4, <2>1 DEF NextList, TypeOK
<1>5. ASSUME NEW w \in Workers, HostStarted(w) PROVE TypeOK'
  BY <1>5 DEF HostStarted, Goto, Release, TypeOK
<1>6. ASSUME NEW w \in Workers, PassHeld(w) PROVE TypeOK'
  BY <1>6 DEF PassHeld, Goto, Release, TypeOK
<1>7. ASSUME NEW w \in Workers, NEW S \in SUBSET Due, ClaimDue(w, S) PROVE TypeOK'
  <2> DEFINE B == {[task |-> t, claim |-> gen[t] + 1, late |-> slot[t] = "missed"] : t \in S}
  <2>1. \A t \in S : t \in Tasks /\ gen[t] + 1 \in Nat
    BY DEF Due, TypeOK
  <2>2. ASSUME NEW b \in B PROVE b \in Job
    <3>1. PICK t \in S : b = [task |-> t, claim |-> gen[t] + 1, late |-> slot[t] = "missed"]
      OBVIOUS
    <3> QED BY <2>1, <3>1 DEF Job
  <2> HIDE DEF B
  <2>3. jobs' = [jobs EXCEPT ![w] = B]
    BY <1>7 DEF ClaimDue, B
  <2> QED BY <1>7, <2>1, <2>2, <2>3 DEF ClaimDue, Goto, TypeOK
<1>8. ASSUME NEW w \in Workers, BatchDone(w) PROVE TypeOK'
  BY <1>8 DEF BatchDone, Goto, Release, TypeOK
<1>9. ASSUME NEW w \in Workers, NEW j \in jobs[w], SkipMissed(w, j) PROVE TypeOK'
  <2>1. j \in Job /\ j.task \in Tasks /\ j.claim \in Nat
    BY <1>9 DEF TypeOK, Job
  <2>2. CASE Fence(j.task, j.claim)
    <3>1. gen' \in [Tasks -> Nat] /\ key' \in [Workers -> Nat]
      BY <1>9, <2>1, <2>2 DEF SkipMissed, Fence, FenceLost, HoldsClaim, TypeOK
    <3>2. pc' = [pc EXCEPT ![w] = "rearm"] /\ cur' = [cur EXCEPT ![w] = j]
          /\ out' = [out EXCEPT ![w] = "skipped"]
      BY <1>9, <2>2 DEF SkipMissed, Fence, FenceLost, Goto
    <3>3. jobs' \in [Workers -> SUBSET Job]
      BY <1>9 DEF SkipMissed, TypeOK
    <3>4. pc' \in [Workers -> Locations] /\ cur' \in [Workers -> Job]
          /\ out' \in [Workers -> Outcomes]
      BY <2>1, <3>2 DEF TypeOK
    <3> QED BY <1>9, <3>1, <3>3, <3>4 DEF SkipMissed, TypeOK
  <2>3. CASE FenceLost(j.task, j.claim)
    BY <1>9, <2>1, <2>3 DEF SkipMissed, Fence, FenceLost, HoldsClaim, Goto, TypeOK
  <2> QED BY <1>9, <2>2, <2>3 DEF SkipMissed
<1>10. ASSUME NEW w \in Workers, NEW j \in jobs[w], RefuseOrphan(w, j) PROVE TypeOK'
  BY <1>10 DEF RefuseOrphan, TypeOK
<1>11. ASSUME NEW w \in Workers, NEW j \in jobs[w], RefuseGoalStep(w, j) PROVE TypeOK'
  BY <1>11 DEF RefuseGoalStep, TypeOK
<1>12. ASSUME NEW w \in Workers, NEW j \in jobs[w], StartTurn(w, j) PROVE TypeOK'
  BY <1>12 DEF StartTurn, Goto, Release, TypeOK
<1>13. ASSUME NEW w \in Workers, RenewLease(w) PROVE TypeOK'
  BY <1>13 DEF RenewLease, TypeOK
<1>14. ASSUME NEW w \in Workers, NEW s \in TurnStatuses, TurnEnds(w, s) PROVE TypeOK'
  <2>1. RunOutcome(s) \in Outcomes
    BY DEF RunOutcome, Outcomes
  <2>2. parked' \in [Tasks -> SUBSET Nat]
    <3>1. cur[w].task \in Tasks /\ cur[w].claim \in Nat
      BY DEF TypeOK, Job
    <3> QED BY <1>14, <3>1 DEF TurnEnds, TypeOK
  <2> QED BY <1>14, <2>1, <2>2 DEF TurnEnds, Take, Goto, TypeOK, Locations
<1>15. ASSUME NEW w \in Workers, JobsGetLate(w) PROVE TypeOK'
  <2> DEFINE L == {[task |-> j.task, claim |-> j.claim, late |-> TRUE] : j \in jobs[w]}
  <2>1. \A j \in jobs[w] : j.task \in Tasks /\ j.claim \in Nat
    BY DEF TypeOK, Job
  <2>2. ASSUME NEW b \in L PROVE b \in Job
    <3>1. PICK j \in jobs[w] : b = [task |-> j.task, claim |-> j.claim, late |-> TRUE]
      OBVIOUS
    <3> QED BY <2>1, <3>1 DEF Job
  <2> HIDE DEF L
  <2>3. jobs' = [jobs EXCEPT ![w] = L]
    BY <1>15 DEF JobsGetLate, TypeOK, L
  <2> QED BY <1>15, <2>2, <2>3 DEF JobsGetLate, TypeOK
<1>16. ASSUME NEW w \in Workers, Load(w) PROVE TypeOK'
  <2>1. CASE Return(w)
    BY <1>16, <2>1, ReturnTypeOK DEF Load, TypeOK
  <2>2. CASE ~Return(w)
    <3>1. pc' = [pc EXCEPT ![w] = IF stage[w] = "batch" THEN "fence" ELSE Landed(w)]
          /\ UNCHANGED <<hostVars, stage, jobs, cur, out, key, stopping>>
      BY <1>16, <2>2 DEF Load, Goto
    <3>2. pc' \in [Workers -> Locations]
      BY <3>1, LandedIsLocation DEF Landing, TypeOK
    <3> QED BY <1>16, <3>1, <3>2 DEF Load, TypeOK
  <2> QED BY <2>1, <2>2
<1>17. ASSUME NEW w \in Workers, FenceClaim(w) PROVE TypeOK'
  <2>1. cur[w].task \in Tasks /\ cur[w].claim \in Nat
    BY DEF TypeOK, Job
  <2>2. CASE Fence(cur[w].task, cur[w].claim)
    BY <1>17, <2>1, <2>2, LandedIsLocation DEF FenceClaim, Fence, FenceLost, HoldsClaim, Goto, Landing, TypeOK
  <2>3. CASE FenceLost(cur[w].task, cur[w].claim) /\ Return(w)
    BY <1>17, <2>3, ReturnTypeOK DEF FenceClaim, FenceLost, TypeOK
  <2> QED BY <1>17, <2>2, <2>3 DEF FenceClaim
<1>18. ASSUME NEW w \in Workers, CountCycle(w) PROVE TypeOK'
  <2>1. cur[w].task \in Tasks
    BY DEF TypeOK, Job
  <2>2. Streak(w) \in Nat
    BY <2>1 DEF Streak, TypeOK
  <2> QED BY <1>18, <2>1, <2>2 DEF CountCycle, Goto, TypeOK
<1>19. ASSUME NEW w \in Workers, PauseRoutine(w) PROVE TypeOK'
  <2>1. cur[w].task \in Tasks /\ key[w] \in Nat
    BY DEF TypeOK, Job
  <2>2. landed' \in [Tasks -> SUBSET Nat]
    BY <1>19, <2>1 DEF PauseRoutine, Record, TypeOK
  <2>3. /\ status' \in [Tasks -> Statuses] /\ slot' \in [Tasks -> Slots]
        /\ UNCHANGED <<gen, beat, fails, parked, cycles>>
    BY <1>19, <2>1 DEF PauseRoutine, TypeOK, Statuses, Slots, Outcomes
  <2>4. Return(w)
    BY <1>19 DEF PauseRoutine
  <2> QED BY <2>2, <2>3, <2>4, ReturnTypeOK DEF TypeOK
<1>20. ASSUME NEW w \in Workers, Rearm(w) PROVE TypeOK'
  <2>1. cur[w].task \in Tasks /\ key[w] \in Nat
    BY DEF TypeOK, Job
  <2>2. landed' \in [Tasks -> SUBSET Nat]
    BY <1>20, <2>1 DEF Rearm, Record, TypeOK
  <2>3. /\ status' \in [Tasks -> Statuses] /\ slot' \in [Tasks -> Slots]
        /\ UNCHANGED <<gen, beat, fails, parked, cycles>>
    BY <1>20, <2>1 DEF Rearm, TypeOK, Statuses, Slots, Outcomes
  <2>4. Return(w)
    BY <1>20 DEF Rearm
  <2> QED BY <2>2, <2>3, <2>4, ReturnTypeOK DEF TypeOK
<1>21. ASSUME NEW w \in Workers, WriteOutcome(w) PROVE TypeOK'
  <2>1. cur[w].task \in Tasks /\ key[w] \in Nat
    BY DEF TypeOK, Job
  <2>2. landed' \in [Tasks -> SUBSET Nat]
    BY <1>21, <2>1 DEF WriteOutcome, Record, TypeOK
  <2>3. /\ status' \in [Tasks -> Statuses] /\ slot' \in [Tasks -> Slots]
        /\ UNCHANGED <<gen, beat, fails, parked, cycles>>
    BY <1>21, <2>1 DEF WriteOutcome, SkippedRearms, TypeOK, Statuses, Slots, Outcomes
  <2>4. Return(w)
    BY <1>21 DEF WriteOutcome
  <2> QED BY <2>2, <2>3, <2>4, ReturnTypeOK DEF TypeOK
<1>22. ASSUME NEW w \in Workers, NEW t \in Tasks, StartSweep(w) \/ StartRetry(w, t)
       PROVE  TypeOK'
  <2>1. /\ ParkedTurns(InStatus("waiting_for_approval")) \in SUBSET Job
        /\ ParkedTurns({t}) \in SUBSET Job
    BY ParkedAreJobs DEF InStatus
  <2>2. CASE StartSweep(w)
    BY <2>1, <2>2 DEF StartSweep, Take, Goto, TypeOK
  <2>3. CASE StartRetry(w, t)
    BY <2>1, <2>3 DEF StartRetry, Take, Goto, TypeOK
  <2> QED BY <1>22, <2>2, <2>3
<1>23. ASSUME NEW w \in Workers, ContinuationBlocked(w) PROVE TypeOK'
  BY <1>23 DEF ContinuationBlocked, Take, Goto, TypeOK, Statuses, Locations
<1>40. ASSUME NEW w \in Workers, SweepDone(w) PROVE TypeOK'
  BY <1>40 DEF SweepDone, Goto, Release, TypeOK, Locations
<1>41. ASSUME NEW w \in Workers, NEW j \in jobs[w], LeaveParked(w, j) \/ TurnTaken(w, j)
       PROVE  TypeOK'
  <2>1. CASE LeaveParked(w, j)
    BY <2>1 DEF LeaveParked, TypeOK
  <2>2. CASE TurnTaken(w, j)
    BY <2>2 DEF TurnTaken, TypeOK
  <2> QED BY <1>41, <2>1, <2>2
<1>42. ASSUME NEW w \in Workers, NEW j \in jobs[w], ContinueParked(w, j) PROVE TypeOK'
  <2>1. j \in Job /\ j.task \in Tasks
    BY <1>42 DEF TypeOK, Job
  <2>2. parked' \in [Tasks -> SUBSET Nat] /\ status' \in [Tasks -> Statuses]
    BY <1>42, <2>1 DEF ContinueParked, TypeOK, Statuses
  <2> QED BY <1>42, <2>1, <2>2 DEF ContinueParked, Release, Goto, TypeOK, Locations
<1>43. ASSUME NEW t \in Tasks, NEW g \in parked[t], TabContinues(t, g) PROVE TypeOK'
  BY <1>43 DEF TabContinues, TypeOK
<1>24. ASSUME NEW t \in Tasks, NEW a \in OwnerActions, Interrupt(t, a) PROVE TypeOK'
  <2>1. InterruptResult(a) \in Statuses
    BY <1>24, Switches DEF InterruptResult, Interrupt, OwnerActionNames, Statuses
  <2> QED BY <1>24, <2>1 DEF Interrupt, TypeOK
<1>25. ASSUME NEW t \in Tasks, RunNow(t) PROVE TypeOK'
  BY <1>25 DEF RunNow, TypeOK
<1>26. ASSUME NEW t \in Tasks, ContinueRoutine(t) PROVE TypeOK'
  BY <1>26 DEF ContinueRoutine, TypeOK
<1>27. ASSUME HoldHost PROVE TypeOK'
  BY <1>27 DEF HoldHost, TypeOK
<1>28. ASSUME ReleaseHost PROVE TypeOK'
  BY <1>28 DEF ReleaseHost, TypeOK
<1>29. ASSUME NEW t \in Tasks, SlotComes(t) PROVE TypeOK'
  BY <1>29 DEF SlotComes, TypeOK
<1>30. ASSUME NEW t \in Tasks, LeaseLapses(t) PROVE TypeOK'
  BY <1>30 DEF LeaseLapses, TypeOK
<1>31. ASSUME NEW h \in Hosts, Crash(h) PROVE TypeOK'
  <2>1. /\ pc' \in [Workers -> Locations] /\ stage' \in [Workers -> Stages]
        /\ out' \in [Workers -> Outcomes] /\ stopping' \in [Workers -> BOOLEAN]
    BY <1>31 DEF Crash, TypeOK, Locations, Stages, Outcomes
  <2>2. /\ jobs' \in [Workers -> SUBSET Job] /\ cur' \in [Workers -> Job]
        /\ key' \in [Workers -> Nat]
    BY <1>31 DEF Crash, TypeOK
  <2>3. /\ up' \in [Hosts -> BOOLEAN] /\ loop' \in [Hosts -> Workers \union {NoOne}]
        /\ crashes' \in Nat
    BY <1>31 DEF Crash, TypeOK
  <2> QED BY <1>31, <2>1, <2>2, <2>3 DEF Crash, TypeOK
<1>32. CASE UNCHANGED vars
  BY <1>32 DEF vars, TypeOK
<1>33. ASSUME NEW w \in Workers, Settles(w) \/ Claims(w) \/ Walks(w) \/ Sweeps(w) PROVE TypeOK'
  <2>1. CASE Settles(w) \/ Claims(w)
    BY <2>1, <1>3, <1>4, <1>5, <1>6, <1>7 DEF Settles, Claims
  <2>2. CASE Walks(w)
    BY <2>2, <1>8, <1>9, <1>10, <1>11, <1>12 DEF Walks
  <2>3. CASE Sweeps(w)
    BY <2>3, <1>40, <1>41, <1>42 DEF Sweeps
  <2> QED BY <1>33, <2>1, <2>2, <2>3
<1>34. ASSUME NEW w \in Workers, Lands(w) PROVE TypeOK'
  BY <1>34, <1>16, <1>17, <1>18, <1>19, <1>20, <1>21 DEF Lands
<1>35. ASSUME NEW w \in Workers,
              AnyTurnEnds(w) \/ RenewLease(w) \/ JobsGetLate(w) \/ ContinuationBlocked(w)
                \/ StartSweep(w) \/ \E t \in Tasks : StartRetry(w, t)
       PROVE  TypeOK'
  BY <1>35, <1>13, <1>14, <1>15, <1>22, <1>23, SomeTask DEF AnyTurnEnds
<1>36. ASSUME NEW h \in Hosts, Starts(h) \/ Ticks(h) \/ Crash(h) PROVE TypeOK'
  BY <1>36, <1>1, <1>2, <1>31 DEF Starts, Ticks, Workers
<1>37. ASSUME NEW t \in Tasks, SlotComes(t) \/ LeaseLapses(t) PROVE TypeOK'
  BY <1>37, <1>29, <1>30
<1>38. ASSUME Owner PROVE TypeOK'
  BY <1>38, <1>24, <1>25, <1>26, <1>27, <1>28, <1>43 DEF Owner
<1>39. CASE Next
  BY <1>39, <1>33, <1>34, <1>35, <1>36, <1>37, <1>38 DEF Next, Advance
<1> QED BY <1>32, <1>39

\* A step that fences and lands nothing keeps the keys as they are.
LEMMA QuietStep ==
  ASSUME TypeOK, Keys, key' = key, landed' = landed,
         \A t \in Tasks : gen'[t] \in Nat /\ gen[t] <= gen'[t],
         \A w \in Workers : key[w] # 0 => /\ cur'[w] = cur[w]
                                          /\ pc'[w] \in Landing \union {"load", "fence"}
  PROVE  Keys'
<1>1. \A w \in Workers : cur[w].task \in Tasks /\ key[w] \in Nat
  BY DEF TypeOK, Job
<1>2. \A t \in Tasks : gen[t] \in Nat /\ landed[t] \in SUBSET Nat
  BY DEF TypeOK
<1>3. KeyInLanding' /\ KeyDistinct'
  BY DEF Keys, KeyInLanding, KeyDistinct
<1>4. LandedBelow'
  BY <1>2 DEF Keys, LandedBelow
<1>5. KeyFresh'
  BY <1>1, <1>2 DEF Keys, KeyFresh
<1> QED BY <1>3, <1>4, <1>5 DEF Keys

\* A successful fence gives its coroutine a key that is new for the task.
LEMMA FenceStep ==
  ASSUME TypeOK, Keys, NEW w \in Workers, NEW t \in Tasks, NEW g \in Nat,
         Fence(t, g), landed' = landed,
         key' = [key EXCEPT ![w] = g + 1], cur'[w].task = t,
         pc'[w] \in Landing \union {"load", "fence"},
         \A v \in Workers \ {w} : cur'[v] = cur[v] /\ pc'[v] = pc[v]
  PROVE  Keys'
<1>1. \A v \in Workers : cur[v].task \in Tasks /\ key[v] \in Nat
  BY DEF TypeOK, Job
<1>2. \A u \in Tasks : gen[u] \in Nat /\ landed[u] \in SUBSET Nat
  BY DEF TypeOK
<1>3. gen[t] = g /\ gen'[t] = g + 1 /\ \A u \in Tasks : u # t => gen'[u] = gen[u]
  BY DEF Fence, HoldsClaim, TypeOK
<1>4. key'[w] = g + 1 /\ \A v \in Workers \ {w} : key'[v] = key[v]
  BY DEF TypeOK
<1>5. KeyInLanding'
  BY <1>4 DEF Keys, KeyInLanding
<1>6. LandedBelow'
  BY <1>2, <1>3 DEF Keys, LandedBelow
<1>7. KeyFresh'
  <2>1. key'[w] <= gen'[cur'[w].task] /\ key'[w] \notin landed'[cur'[w].task]
    BY <1>2, <1>3, <1>4 DEF Keys, LandedBelow
  <2>2. ASSUME NEW v \in Workers \ {w}, key'[v] # 0
        PROVE  key'[v] <= gen'[cur'[v].task] /\ key'[v] \notin landed'[cur'[v].task]
    BY <1>1, <1>2, <1>3, <1>4, <2>2 DEF Keys, KeyFresh
  <2> QED BY <2>1, <2>2 DEF KeyFresh
<1>8. KeyDistinct'
  <2>1. \A v \in Workers \ {w} : key[v] # 0 /\ cur[v].task = t => key[v] <= g
    BY <1>3 DEF Keys, KeyFresh
  <2>2. \A v \in Workers \ {w} : key'[v] # 0 /\ key'[v] = key'[w] => cur'[v].task # cur'[w].task
    BY <1>1, <1>4, <2>1
  <2>3. \A u, v \in Workers \ {w} :
          u # v /\ key'[u] # 0 /\ key'[u] = key'[v] => cur'[u].task # cur'[v].task
    BY <1>4 DEF Keys, KeyDistinct
  <2> QED BY <1>4, <2>2, <2>3 DEF KeyDistinct
<1> QED BY <1>5, <1>6, <1>7, <1>8 DEF Keys

\* The end of a landing gives the key up, recorded or not.
LEMMA ReturnStep ==
  ASSUME TypeOK, Keys, NEW w \in Workers, Return(w),
         gen' = gen, landed' = landed \/ Record(w)
  PROVE  Keys'
<1>1. \A v \in Workers : cur[v].task \in Tasks /\ key[v] \in Nat
  BY DEF TypeOK, Job
<1>2. \A u \in Tasks : gen[u] \in Nat /\ landed[u] \in SUBSET Nat
  BY DEF TypeOK
<1>3. key'[w] = 0 /\ \A v \in Workers \ {w} : key'[v] = key[v] /\ cur'[v] = cur[v]
  BY DEF Return, TypeOK
<1>4. \A v \in Workers \ {w} : pc'[v] = pc[v]
  BY DEF Return, Goto, TypeOK
<1>5. \A u \in Tasks : landed'[u] = landed[u]
                        \/ (u = cur[w].task /\ key[w] # 0 /\ landed'[u] = landed[u] \union {key[w]})
  BY <1>1 DEF Record, TypeOK
<1>6. KeyInLanding' /\ KeyDistinct'
  BY <1>3, <1>4 DEF Keys, KeyInLanding, KeyDistinct
<1>7. LandedBelow'
  BY <1>1, <1>2, <1>5 DEF Keys, LandedBelow, KeyFresh
<1>8. KeyFresh'
  BY <1>1, <1>3, <1>5 DEF Keys, KeyFresh, KeyDistinct
<1> QED BY <1>6, <1>7, <1>8 DEF Keys

\* The end of a landing leaves no coroutine with a skipped slot in hand.
LEMMA ReturnSkips ==
  ASSUME TypeOK, SkippedRearms, NEW w \in Workers, Return(w)
  PROVE  SkippedRearms'
<1>1. out'[w] = "failed" /\ \A v \in Workers \ {w} : out'[v] = out[v] /\ pc'[v] = pc[v]
  BY DEF Return, Goto, TypeOK
<1> QED BY <1>1 DEF SkippedRearms

\* Every step keeps the keys: only a fence takes one, only the end of a landing
\* or a crash gives one up.
LEMMA StepKeys == IInv /\ [Next]_vars => SkippedRearms' /\ Keys'
<1> SUFFICES ASSUME TypeOK, SkippedRearms, Keys, [Next]_vars PROVE SkippedRearms' /\ Keys'
  BY DEF IInv
<1> DEFINE Kept == SkippedRearms' /\ Keys'
<1> USE DEF taskVars, hostVars, workVars, history
<1>1. ASSUME NEW w \in Workers, StartPass(w) PROVE Kept
  BY <1>1, QuietStep DEF StartPass, Goto, Keys, KeyInLanding, SkippedRearms, Landing, TypeOK
<1>2. ASSUME NEW h \in Hosts, NEW w \in Workers, StartHost(h, w) PROVE Kept
  BY <1>2, QuietStep DEF StartHost, Goto, Keys, KeyInLanding, SkippedRearms, Landing, TypeOK
<1>3. ASSUME NEW w \in Workers, NEW j \in jobs[w], SettleNext(w, j) PROVE Kept
  <2>1. j.task \in Tasks /\ j.claim \in Nat
    BY <1>3 DEF TypeOK, Job
  <2>3. CASE Fence(j.task, j.claim)
    <3>1. /\ key' = [key EXCEPT ![w] = j.claim + 1] /\ landed' = landed
          /\ cur' = [cur EXCEPT ![w] = j]
          /\ pc' = [pc EXCEPT ![w] = "load"]
          /\ out' = [out EXCEPT ![w] = "failed"]
      BY <1>3, <2>3 DEF SettleNext, Fence, FenceLost, Goto
    <3>2. Keys'
      BY <2>1, <2>3, <3>1, FenceStep DEF TypeOK, Landing
    <3> QED BY <1>3, <3>1, <3>2 DEF SettleNext, SkippedRearms, TypeOK
  <2>4. CASE FenceLost(j.task, j.claim)
    <3>1. UNCHANGED <<pc, cur, out, key, gen, landed>>
      BY <1>3, <2>4 DEF SettleNext, Fence, FenceLost
    <3> QED BY <2>4, <3>1, QuietStep DEF SkippedRearms, Keys, KeyInLanding, TypeOK
  <2> QED BY <1>3, <2>3, <2>4 DEF SettleNext
<1>4. ASSUME NEW w \in Workers, NextList(w) PROVE Kept
  BY <1>4, QuietStep DEF NextList, Keys, KeyInLanding, SkippedRearms, Landing, TypeOK
<1>5. ASSUME NEW w \in Workers, HostStarted(w) PROVE Kept
  BY <1>5, QuietStep DEF HostStarted, Goto, Keys, KeyInLanding, SkippedRearms, Landing, TypeOK
<1>6. ASSUME NEW w \in Workers, PassHeld(w) PROVE Kept
  BY <1>6, QuietStep DEF PassHeld, Goto, Keys, KeyInLanding, SkippedRearms, Landing, TypeOK
<1>7. ASSUME NEW w \in Workers, NEW S \in SUBSET Due, ClaimDue(w, S) PROVE Kept
  <2>1. \A t \in Tasks : gen'[t] \in Nat /\ gen[t] <= gen'[t]
    BY <1>7 DEF ClaimDue, TypeOK
  <2>2. UNCHANGED <<cur, out, key, landed>> /\ pc[w] = "settle" /\ Goto(w, "batch")
    BY <1>7 DEF ClaimDue
  <2> QED BY <2>1, <2>2, QuietStep DEF Goto, Keys, KeyInLanding, SkippedRearms, Landing, TypeOK
<1>8. ASSUME NEW w \in Workers, BatchDone(w) PROVE Kept
  BY <1>8, QuietStep DEF BatchDone, Goto, Keys, KeyInLanding, SkippedRearms, Landing, TypeOK
<1>9. ASSUME NEW w \in Workers, NEW j \in jobs[w], SkipMissed(w, j) PROVE Kept
  <2>1. j.task \in Tasks /\ j.claim \in Nat
    BY <1>9 DEF TypeOK, Job
  <2>3. CASE Fence(j.task, j.claim)
    <3>1. /\ key' = [key EXCEPT ![w] = j.claim + 1] /\ landed' = landed
          /\ cur' = [cur EXCEPT ![w] = j]
          /\ pc' = [pc EXCEPT ![w] = "rearm"]
          /\ out' = [out EXCEPT ![w] = "skipped"]
      BY <1>9, <2>3 DEF SkipMissed, Fence, FenceLost, Goto
    <3>2. Keys'
      BY <2>1, <2>3, <3>1, FenceStep DEF TypeOK, Landing
    <3> QED BY <1>9, <3>1, <3>2 DEF SkipMissed, SkippedRearms, TypeOK
  <2>4. CASE FenceLost(j.task, j.claim)
    <3>1. UNCHANGED <<pc, cur, out, key, gen, landed>>
      BY <1>9, <2>4 DEF SkipMissed, Fence, FenceLost
    <3> QED BY <2>4, <3>1, QuietStep DEF SkippedRearms, Keys, KeyInLanding, TypeOK
  <2> QED BY <1>9, <2>3, <2>4 DEF SkipMissed
<1>10. ASSUME NEW w \in Workers, NEW j \in jobs[w], RefuseOrphan(w, j) PROVE Kept
  BY <1>10, QuietStep DEF RefuseOrphan, Keys, KeyInLanding, SkippedRearms, Landing, TypeOK
<1>11. ASSUME NEW w \in Workers, NEW j \in jobs[w], RefuseGoalStep(w, j) PROVE Kept
  BY <1>11, QuietStep DEF RefuseGoalStep, Keys, KeyInLanding, SkippedRearms, Landing, TypeOK
<1>12. ASSUME NEW w \in Workers, NEW j \in jobs[w], StartTurn(w, j) PROVE Kept
  BY <1>12, QuietStep DEF StartTurn, Goto, Keys, KeyInLanding, SkippedRearms, Landing, TypeOK
<1>13. ASSUME NEW w \in Workers, RenewLease(w) PROVE Kept
  BY <1>13, QuietStep DEF RenewLease, Keys, KeyInLanding, SkippedRearms, Landing, TypeOK
<1>14. ASSUME NEW w \in Workers, NEW s \in TurnStatuses, TurnEnds(w, s) PROVE Kept
  <2>1. RunOutcome(s) # "skipped"
    BY DEF RunOutcome, TurnStatuses
  <2> QED BY <1>14, <2>1, QuietStep
    DEF TurnEnds, Goto, Keys, KeyInLanding, SkippedRearms, Landing, TypeOK
<1>15. ASSUME NEW w \in Workers, JobsGetLate(w) PROVE Kept
  BY <1>15, QuietStep DEF JobsGetLate, Keys, KeyInLanding, SkippedRearms, Landing, TypeOK
<1>16. ASSUME NEW w \in Workers, Load(w) PROVE Kept
  <2>1. CASE Return(w)
    BY <1>16, <2>1, ReturnStep, ReturnSkips DEF Load
  <2>2. CASE ~Return(w)
    <3>1. Goto(w, IF stage[w] = "batch" THEN "fence" ELSE Landed(w)) /\ UNCHANGED <<cur, out, key, gen, landed>>
      BY <1>16, <2>2 DEF Load
    <3>2. out[w] # "skipped"
      BY <1>16 DEF Load, SkippedRearms
    <3> QED BY <3>1, <3>2, LandedIsLocation, QuietStep
      DEF Goto, Keys, KeyInLanding, SkippedRearms, Landing, TypeOK
  <2> QED BY <2>1, <2>2
<1>17. ASSUME NEW w \in Workers, FenceClaim(w) PROVE Kept
  <2>1. cur[w].task \in Tasks /\ cur[w].claim \in Nat
    BY DEF TypeOK, Job
  <2>2. out[w] # "skipped"
    BY <1>17 DEF FenceClaim, SkippedRearms
  <2>3. CASE Fence(cur[w].task, cur[w].claim)
    <3>1. /\ key' = [key EXCEPT ![w] = cur[w].claim + 1] /\ landed' = landed
          /\ UNCHANGED <<cur, out>> /\ pc' = [pc EXCEPT ![w] = Landed(w)]
      BY <1>17, <2>3 DEF FenceClaim, Fence, FenceLost, Goto
    <3>2. Keys'
      BY <2>1, <2>2, <2>3, <3>1, LandedIsLocation, FenceStep DEF TypeOK
    <3> QED BY <2>2, <3>1, <3>2 DEF SkippedRearms, TypeOK
  <2>4. CASE FenceLost(cur[w].task, cur[w].claim) /\ Return(w)
    BY <1>17, <2>4, ReturnStep, ReturnSkips DEF FenceClaim, FenceLost
  <2> QED BY <1>17, <2>3, <2>4 DEF FenceClaim
<1>18. ASSUME NEW w \in Workers, CountCycle(w) PROVE Kept
  <2>1. out[w] # "skipped"
    BY <1>18 DEF CountCycle, SkippedRearms
  <2> QED BY <1>18, <2>1, QuietStep
    DEF CountCycle, Goto, Keys, KeyInLanding, SkippedRearms, Landing, TypeOK
<1>19. ASSUME NEW w \in Workers, PauseRoutine(w) PROVE Kept
  <2>1. Return(w) /\ gen' = gen /\ Record(w)
    BY <1>19 DEF PauseRoutine
  <2>2. Keys'
    BY <2>1, ReturnStep
  <2> QED BY <1>19, <2>1, <2>2, ReturnSkips
<1>20. ASSUME NEW w \in Workers, Rearm(w) PROVE Kept
  <2>1. Return(w) /\ gen' = gen /\ Record(w)
    BY <1>20 DEF Rearm
  <2>2. Keys'
    BY <2>1, ReturnStep
  <2> QED BY <1>20, <2>1, <2>2, ReturnSkips
<1>21. ASSUME NEW w \in Workers, WriteOutcome(w) PROVE Kept
  <2>1. Return(w) /\ gen' = gen /\ Record(w)
    BY <1>21 DEF WriteOutcome
  <2>2. Keys'
    BY <2>1, ReturnStep
  <2> QED BY <1>21, <2>1, <2>2, ReturnSkips
<1>22. ASSUME NEW w \in Workers, NEW t \in Tasks, StartSweep(w) \/ StartRetry(w, t)
       PROVE  Kept
  BY <1>22, QuietStep
  DEF StartSweep, StartRetry, Goto, Keys, KeyInLanding, SkippedRearms, Landing, TypeOK
<1>33. ASSUME NEW w \in Workers, SweepDone(w) PROVE Kept
  BY <1>33, QuietStep DEF SweepDone, Goto, Keys, KeyInLanding, SkippedRearms, Landing, TypeOK
<1>34. ASSUME NEW w \in Workers, NEW j \in jobs[w], LeaveParked(w, j) \/ TurnTaken(w, j)
       PROVE  Kept
  BY <1>34, QuietStep DEF LeaveParked, TurnTaken, Keys, KeyInLanding, SkippedRearms, TypeOK
<1>35. ASSUME NEW w \in Workers, NEW j \in jobs[w], ContinueParked(w, j) PROVE Kept
  BY <1>35, QuietStep DEF ContinueParked, Goto, Keys, KeyInLanding, SkippedRearms, Landing, TypeOK
<1>23. ASSUME NEW w \in Workers, ContinuationBlocked(w) PROVE Kept
  BY <1>23, QuietStep DEF ContinuationBlocked, Goto, Keys, KeyInLanding, SkippedRearms, Landing, TypeOK
<1>24. ASSUME Owner PROVE Kept
  <2>1. UNCHANGED workVars /\ UNCHANGED <<gen, landed>>
    BY <1>24
    DEF Owner, Interrupt, RunNow, ContinueRoutine, TabContinues, HoldHost, ReleaseHost
  <2> QED BY <2>1, QuietStep DEF Keys, KeyInLanding, SkippedRearms, TypeOK
<1>25. ASSUME NEW t \in Tasks, SlotComes(t) \/ LeaseLapses(t) PROVE Kept
  <2>1. UNCHANGED workVars /\ UNCHANGED <<gen, landed>>
    BY <1>25 DEF SlotComes, LeaseLapses
  <2> QED BY <2>1, QuietStep DEF Keys, KeyInLanding, SkippedRearms, TypeOK
<1>26. ASSUME NEW h \in Hosts, Crash(h) PROVE Kept
  <2>1. UNCHANGED <<gen, landed>>
    BY <1>26 DEF Crash
  <2>2. \A w \in Workers : key'[w] # 0 => /\ key'[w] = key[w] /\ cur'[w] = cur[w]
                                         /\ pc'[w] = pc[w]
    BY <1>26 DEF Crash
  <2>3. \A w \in Workers : out'[w] = "skipped" => out[w] = "skipped" /\ pc'[w] = pc[w]
    BY <1>26 DEF Crash
  <2>4. KeyInLanding' /\ KeyDistinct'
    BY <2>2 DEF Keys, KeyInLanding, KeyDistinct
  <2>5. LandedBelow' /\ KeyFresh'
    BY <2>1, <2>2 DEF Keys, LandedBelow, KeyFresh
  <2> QED BY <2>3, <2>4, <2>5 DEF Keys, SkippedRearms
<1>27. CASE UNCHANGED vars
  BY <1>27, QuietStep DEF vars, Keys, KeyInLanding, SkippedRearms, TypeOK
<1>28. ASSUME NEW w \in Workers, Settles(w) \/ Claims(w) \/ Walks(w) \/ Sweeps(w) PROVE Kept
  <2>1. CASE Settles(w) \/ Claims(w)
    BY <2>1, <1>3, <1>4, <1>5, <1>6, <1>7 DEF Settles, Claims
  <2>2. CASE Walks(w)
    BY <2>2, <1>8, <1>9, <1>10, <1>11, <1>12 DEF Walks
  <2>3. CASE Sweeps(w)
    BY <2>3, <1>33, <1>34, <1>35 DEF Sweeps
  <2> QED BY <1>28, <2>1, <2>2, <2>3
<1>29. ASSUME NEW w \in Workers, Lands(w) PROVE Kept
  BY <1>29, <1>16, <1>17, <1>18, <1>19, <1>20, <1>21 DEF Lands
<1>30. ASSUME NEW w \in Workers,
              AnyTurnEnds(w) \/ RenewLease(w) \/ JobsGetLate(w) \/ ContinuationBlocked(w)
                \/ StartSweep(w) \/ \E t \in Tasks : StartRetry(w, t)
       PROVE  Kept
  BY <1>30, <1>13, <1>14, <1>15, <1>22, <1>23, SomeTask DEF AnyTurnEnds
<1>31. ASSUME NEW h \in Hosts, Starts(h) \/ Ticks(h) \/ Crash(h) PROVE Kept
  BY <1>31, <1>1, <1>2, <1>26 DEF Starts, Ticks, Workers
<1>32. CASE Next
  BY <1>32, <1>24, <1>25, <1>28, <1>29, <1>30, <1>31 DEF Next, Advance
<1> QED BY <1>27, <1>32

\* The inductive invariant.
LEMMA Invariance == Spec => []IInv
<1>1. Init => IInv
  BY InitTypeOK DEF Init, IInv, SkippedRearms, Keys, KeyInLanding, LandedBelow, KeyFresh, KeyDistinct
<1>2. IInv /\ [Next]_vars => IInv'
  BY StepTypeOK, StepKeys DEF IInv
<1> QED BY <1>1, <1>2, PTL DEF Spec

\* The state of the scheduler is always well typed, for any number of tasks,
\* hosts and coroutines; in particular every status written is a task status.
THEOREM TypeCorrect == Spec => []TypeOK
<1>1. IInv => TypeOK
  BY DEF IInv
<1> QED BY <1>1, Invariance, PTL

\* No generation of a task's claim is settled twice, whatever the number of
\* hosts and passes, whatever the owner presses, and wherever a host dies.
THEOREM FencingSettlesOnce == Spec => []SettledOnce
<1>1. IInv => SettledOnce
  BY DEF IInv, Keys, KeyFresh, KeyDistinct, SettledOnce
<1> QED BY <1>1, Invariance, PTL

----------------------------------------------------------------------------
(***************************************************************************)
(* On one host, outcomes land in the order of the claims they settle.      *)
(* With two hosts they need not: a second host may fence the row again     *)
(* before the first one writes.  So the argument has to use the event      *)
(* loop, and it does: a coroutine between its fence and its write holds    *)
(* the loop, so no other coroutine moves a generation meanwhile, and the   *)
(* key it holds is the task's current generation.                          *)
(***************************************************************************)
\* Only an idle or an awaiting coroutine is off the loop.
RunnerHolds == \A w \in Workers : pc[w] \notin {"idle", "turn"} => Holds(w)

DownIsFree == \A h \in Hosts : ~up[h] => loop[h] = NoOne

Loop == RunnerHolds /\ DownIsFree

\* The key of a landing is the generation its task is at.
KeyCurrent == \A w \in Workers : key[w] # 0 => key[w] = gen[cur[w].task]

\* A coroutine that neither takes nor releases the loop keeps it.
LEMMA LoopKept ==
  ASSUME TypeOK, Loop, NEW w \in Workers, Holds(w), UNCHANGED <<up, loop>>,
         \A v \in Workers \ {w} : pc'[v] = pc[v]
  PROVE  Loop'
  BY DEF Loop, RunnerHolds, DownIsFree, Holds

\* A step of no coroutine leaves the loop as it is.
LEMMA LoopAside ==
  ASSUME TypeOK, Loop, UNCHANGED <<up, loop, pc>>
  PROVE  Loop'
  BY DEF Loop, RunnerHolds, DownIsFree, Holds

\* A coroutine that awaits, or ends, gives the loop back.
LEMMA LoopReleased ==
  ASSUME TypeOK, Loop, NEW w \in Workers, Holds(w), Release(w), up' = up,
         NEW l \in {"idle", "turn"}, Goto(w, l)
  PROVE  Loop'
<1>1. HostOf[w] \in Hosts /\ \A v \in Workers : HostOf[v] \in Hosts
  BY WorkerSets
<1>2. \A v \in Workers \ {w} : pc'[v] = pc[v] /\ (HostOf[v] = HostOf[w] => pc[v] \in {"idle", "turn"})
  BY DEF Goto, Loop, RunnerHolds, Holds, TypeOK
<1>3. pc'[w] \in {"idle", "turn"}
  BY DEF Goto, TypeOK
<1>4. RunnerHolds'
  BY <1>1, <1>2, <1>3 DEF Loop, RunnerHolds, Holds, Release, TypeOK
<1>5. DownIsFree'
  BY <1>1 DEF Loop, DownIsFree, Release, TypeOK
<1> QED BY <1>4, <1>5 DEF Loop

\* A coroutine takes a loop that nobody holds.
LEMMA LoopTaken ==
  ASSUME TypeOK, Loop, NEW w \in Workers, loop[HostOf[w]] = NoOne, Take(w),
         \A v \in Workers \ {w} : pc'[v] = pc[v],
         up'[HostOf[w]], \A h \in Hosts \ {HostOf[w]} : up'[h] = up[h]
  PROVE  Loop'
<1>1. \A v \in Workers : HostOf[v] \in Hosts /\ v # NoOne
  BY WorkerSets, NoOneIsNoWorker
<1>2. \A v \in Workers \ {w} : HostOf[v] = HostOf[w] => pc[v] \in {"idle", "turn"}
  BY <1>1 DEF Loop, RunnerHolds, Holds
<1>3. RunnerHolds'
  BY <1>1, <1>2 DEF Loop, RunnerHolds, Holds, Take, TypeOK
<1>4. DownIsFree'
  BY <1>1 DEF Loop, DownIsFree, Take, TypeOK
<1> QED BY <1>3, <1>4 DEF Loop

\* Every step keeps the discipline of the event loop, on any number of hosts.
LEMMA StepLoop == TypeOK /\ Loop /\ [Next]_vars => Loop'
<1> SUFFICES ASSUME TypeOK, Loop, [Next]_vars PROVE Loop'
  OBVIOUS
<1> USE DEF taskVars, hostVars, workVars, history
<1>1. ASSUME NEW w \in Workers, Settles(w) PROVE Loop'
  <2>1. ASSUME NEW j \in jobs[w], SettleNext(w, j) PROVE Loop'
    <3>1. Holds(w) /\ UNCHANGED <<up, loop>> /\ \A v \in Workers \ {w} : pc'[v] = pc[v]
      BY <2>1 DEF SettleNext, Goto, TypeOK
    <3> QED BY <3>1, LoopKept
  <2>2. CASE NextList(w)
    BY <2>2, LoopAside DEF NextList
  <2>3. CASE HostStarted(w)
    BY <2>3, LoopReleased DEF HostStarted
  <2> QED BY <1>1, <2>1, <2>2, <2>3 DEF Settles
<1>2. ASSUME NEW w \in Workers, Claims(w) PROVE Loop'
  <2>1. CASE PassHeld(w)
    BY <2>1, LoopReleased DEF PassHeld
  <2>2. ASSUME NEW S \in SUBSET Due, ClaimDue(w, S) PROVE Loop'
    <3>1. Holds(w) /\ UNCHANGED <<up, loop>> /\ \A v \in Workers \ {w} : pc'[v] = pc[v]
      BY <2>2 DEF ClaimDue, Goto, TypeOK
    <3> QED BY <3>1, LoopKept
  <2> QED BY <1>2, <2>1, <2>2 DEF Claims
<1>3. ASSUME NEW w \in Workers, Walks(w) PROVE Loop'
  <2>1. CASE BatchDone(w)
    BY <2>1, LoopReleased DEF BatchDone
  <2>2. ASSUME NEW j \in jobs[w], SkipMissed(w, j) PROVE Loop'
    <3>1. Holds(w) /\ UNCHANGED <<up, loop>> /\ \A v \in Workers \ {w} : pc'[v] = pc[v]
      BY <2>2 DEF SkipMissed, Goto, TypeOK
    <3> QED BY <3>1, LoopKept
  <2>3. ASSUME NEW j \in jobs[w], RefuseOrphan(w, j) \/ RefuseGoalStep(w, j) PROVE Loop'
    BY <2>3, LoopAside DEF RefuseOrphan, RefuseGoalStep
  <2>4. ASSUME NEW j \in jobs[w], StartTurn(w, j) PROVE Loop'
    BY <2>4, LoopReleased DEF StartTurn
  <2> QED BY <1>3, <2>1, <2>2, <2>3, <2>4 DEF Walks
<1>4. ASSUME NEW w \in Workers, Sweeps(w) PROVE Loop'
  <2>1. CASE SweepDone(w)
    BY <2>1, LoopReleased DEF SweepDone
  <2>2. ASSUME NEW j \in jobs[w], LeaveParked(w, j) \/ TurnTaken(w, j) PROVE Loop'
    BY <2>2, LoopAside DEF LeaveParked, TurnTaken
  <2>3. ASSUME NEW j \in jobs[w], ContinueParked(w, j) PROVE Loop'
    BY <2>3, LoopReleased DEF ContinueParked
  <2> QED BY <1>4, <2>1, <2>2, <2>3 DEF Sweeps
<1>5. ASSUME NEW w \in Workers, Lands(w) PROVE Loop'
  <2>1. Holds(w)
    BY <1>5 DEF Lands, Load, FenceClaim, CountCycle, PauseRoutine, Rearm, WriteOutcome
  <2>2. UNCHANGED hostVars
    BY <1>5
    DEF Lands, Load, FenceClaim, CountCycle, PauseRoutine, Rearm, WriteOutcome, Return
  <2>3. \A v \in Workers \ {w} : pc'[v] = pc[v]
    <3>1. \E l : Goto(w, l)
      BY <1>5
      DEF Lands, Load, FenceClaim, CountCycle, PauseRoutine, Rearm, WriteOutcome, Return
    <3> QED BY <3>1 DEF Goto, TypeOK
  <2> QED BY <2>1, <2>2, <2>3, LoopKept
<1>6. ASSUME NEW w \in Workers,
             AnyTurnEnds(w) \/ ContinuationBlocked(w) \/ StartSweep(w)
               \/ \E t \in Tasks : StartRetry(w, t)
      PROVE  Loop'
  <2>1. Free(HostOf[w]) /\ Take(w) /\ up' = up /\ \E l : Goto(w, l)
    BY <1>6 DEF AnyTurnEnds, TurnEnds, ContinuationBlocked, StartSweep, StartRetry
  <2> QED BY <2>1, LoopTaken DEF Free, Goto, TypeOK
<1>7. ASSUME NEW w \in Workers, RenewLease(w) \/ JobsGetLate(w) PROVE Loop'
  BY <1>7, LoopAside DEF RenewLease, JobsGetLate
<1>8. ASSUME NEW h \in Hosts, Ticks(h) PROVE Loop'
  <2>1. PICK w \in Passes : HostOf[w] = h /\ StartPass(w)
    BY <1>8 DEF Ticks
  <2>2. Free(HostOf[w]) /\ Take(w) /\ up' = up /\ Goto(w, "settle") /\ w \in Workers
    BY <2>1 DEF StartPass, Workers
  <2> QED BY <2>2, LoopTaken DEF Free, Goto, TypeOK
<1>9. ASSUME NEW h \in Hosts, Starts(h) PROVE Loop'
  <2>1. PICK w \in Passes : StartHost(h, w)
    BY <1>9 DEF Starts
  <2>2. /\ HostOf[w] = h /\ ~up[h] /\ up' = [up EXCEPT ![h] = TRUE]
        /\ Take(w) /\ Goto(w, "settle") /\ w \in Workers
    BY <2>1 DEF StartHost, Workers
  <2>3. loop[HostOf[w]] = NoOne
    BY <2>2 DEF Loop, DownIsFree
  <2> QED BY <2>2, <2>3, LoopTaken DEF Goto, TypeOK
<1>10. ASSUME NEW h \in Hosts, Crash(h) PROVE Loop'
  <2>1. \A w \in Workers : pc'[w] = (IF HostOf[w] = h THEN "idle" ELSE pc[w])
    BY <1>10 DEF Crash
  <2>2. /\ loop'[h] = NoOne /\ ~up'[h]
        /\ \A k \in Hosts \ {h} : loop'[k] = loop[k] /\ up'[k] = up[k]
    BY <1>10 DEF Crash, TypeOK
  <2>3. RunnerHolds'
    BY <2>1, <2>2, WorkerSets DEF Loop, RunnerHolds, Holds
  <2>4. DownIsFree'
    BY <2>2 DEF Loop, DownIsFree
  <2> QED BY <2>3, <2>4 DEF Loop
<1>11. ASSUME NEW t \in Tasks, SlotComes(t) \/ LeaseLapses(t) PROVE Loop'
  BY <1>11, LoopAside DEF SlotComes, LeaseLapses
<1>12. CASE Owner
  <2>1. UNCHANGED <<up, loop, pc>>
    BY <1>12
    DEF Owner, Interrupt, RunNow, ContinueRoutine, TabContinues, HoldHost, ReleaseHost
  <2> QED BY <2>1, LoopAside
<1>13. CASE UNCHANGED vars
  BY <1>13, LoopAside DEF vars
<1>14. CASE Next
  BY <1>14, <1>1, <1>2, <1>3, <1>4, <1>5, <1>6, <1>7, <1>8, <1>9, <1>10, <1>11, <1>12
  DEF Next, Advance
<1> QED BY <1>13, <1>14

\* On one host, a coroutine that holds the loop is the only one with a key.
LEMMA OtherKeysAreNone ==
  ASSUME Loop, Keys, NEW h, Hosts = {h}, NEW w \in Workers, Holds(w)
  PROVE  \A v \in Workers \ {w} : key[v] = 0
<1> SUFFICES ASSUME NEW v \in Workers \ {w}, key[v] # 0 PROVE FALSE
  OBVIOUS
<1>1. HostOf[v] = HostOf[w]
  BY WorkerSets
<1>2. pc[v] \notin {"idle", "turn"}
  BY DEF Keys, KeyInLanding, Landing
<1> QED BY <1>1, <1>2 DEF Loop, RunnerHolds, Holds

\* A step that moves no generation and gives no new key keeps them current.
LEMMA CurrentKept ==
  ASSUME KeyCurrent, gen' = gen,
         \A w \in Workers : key'[w] # 0 => key'[w] = key[w] /\ cur'[w] = cur[w]
  PROVE  KeyCurrent'
  BY DEF KeyCurrent

\* The fence gives its coroutine the generation it moved the task to.
LEMMA CurrentFenced ==
  ASSUME TypeOK, NEW w \in Workers, NEW t \in Tasks, NEW g \in Nat, Fence(t, g),
         \A v \in Workers \ {w} : key[v] = 0,
         key' = [key EXCEPT ![w] = g + 1], cur'[w].task = t
  PROVE  KeyCurrent'
<1>1. gen'[t] = g + 1
  BY DEF Fence, TypeOK
<1>2. key'[w] = g + 1 /\ \A v \in Workers \ {w} : key'[v] = 0
  BY DEF TypeOK
<1> QED BY <1>1, <1>2 DEF KeyCurrent

\* Every step keeps the keys current, on one host.
LEMMA StepCurrent ==
  ASSUME NEW h, Hosts = {h}
  PROVE  IInv /\ Loop /\ KeyCurrent /\ [Next]_vars => KeyCurrent'
<1> SUFFICES ASSUME TypeOK, Keys, Loop, KeyCurrent, [Next]_vars PROVE KeyCurrent'
  BY DEF IInv
<1> USE DEF taskVars, hostVars, workVars, history
<1>1. ASSUME NEW w \in Workers, Settles(w) PROVE KeyCurrent'
  <2>1. ASSUME NEW j \in jobs[w], SettleNext(w, j) PROVE KeyCurrent'
    <3>1. j.task \in Tasks /\ j.claim \in Nat
      BY DEF TypeOK, Job
    <3>2. CASE Fence(j.task, j.claim)
      <4>1. /\ key' = [key EXCEPT ![w] = j.claim + 1]
            /\ cur' = [cur EXCEPT ![w] = j] /\ Holds(w)
        BY <2>1, <3>2 DEF SettleNext, Fence, FenceLost
      <4> QED BY <3>1, <3>2, <4>1, OtherKeysAreNone, CurrentFenced DEF TypeOK
    <3>3. CASE FenceLost(j.task, j.claim)
      <4>1. UNCHANGED <<cur, key, gen>>
        BY <2>1, <3>3 DEF SettleNext, Fence, FenceLost
      <4> QED BY <4>1, CurrentKept
    <3> QED BY <2>1, <3>2, <3>3 DEF SettleNext
  <2>2. CASE NextList(w) \/ HostStarted(w)
    BY <2>2, CurrentKept DEF NextList, HostStarted
  <2> QED BY <1>1, <2>1, <2>2 DEF Settles
<1>2. ASSUME NEW w \in Workers, Claims(w) PROVE KeyCurrent'
  <2>1. CASE PassHeld(w)
    BY <2>1, CurrentKept DEF PassHeld
  <2>2. ASSUME NEW S \in SUBSET Due, ClaimDue(w, S) PROVE KeyCurrent'
    <3>1. Holds(w) /\ pc[w] = "settle" /\ key' = key
      BY <2>2 DEF ClaimDue
    <3>2. key[w] = 0
      BY <3>1 DEF Keys, KeyInLanding, Landing
    <3> QED BY <3>1, <3>2, OtherKeysAreNone DEF KeyCurrent
  <2> QED BY <1>2, <2>1, <2>2 DEF Claims
<1>3. ASSUME NEW w \in Workers, Walks(w) PROVE KeyCurrent'
  <2>1. ASSUME NEW j \in jobs[w], SkipMissed(w, j) PROVE KeyCurrent'
    <3>1. j.task \in Tasks /\ j.claim \in Nat
      BY DEF TypeOK, Job
    <3>2. CASE Fence(j.task, j.claim)
      <4>1. /\ key' = [key EXCEPT ![w] = j.claim + 1]
            /\ cur' = [cur EXCEPT ![w] = j] /\ Holds(w)
        BY <2>1, <3>2 DEF SkipMissed, Fence, FenceLost
      <4> QED BY <3>1, <3>2, <4>1, OtherKeysAreNone, CurrentFenced DEF TypeOK
    <3>3. CASE FenceLost(j.task, j.claim)
      <4>1. UNCHANGED <<cur, key, gen>>
        BY <2>1, <3>3 DEF SkipMissed, Fence, FenceLost
      <4> QED BY <4>1, CurrentKept
    <3> QED BY <2>1, <3>2, <3>3 DEF SkipMissed
  <2>2. ASSUME NEW j \in jobs[w], RefuseOrphan(w, j) \/ RefuseGoalStep(w, j)
        PROVE  KeyCurrent'
    BY <2>2, CurrentKept DEF RefuseOrphan, RefuseGoalStep
  <2>3. ASSUME NEW j \in jobs[w], StartTurn(w, j) PROVE KeyCurrent'
    <3>1. key[w] = 0
      BY <2>3 DEF StartTurn, Keys, KeyInLanding, Landing
    <3> QED BY <2>3, <3>1, CurrentKept DEF StartTurn
  <2>4. CASE BatchDone(w)
    BY <2>4, CurrentKept DEF BatchDone
  <2> QED BY <1>3, <2>1, <2>2, <2>3, <2>4 DEF Walks
<1>4. ASSUME NEW w \in Workers, Sweeps(w) PROVE KeyCurrent'
  <2>1. ASSUME NEW j \in jobs[w], ContinueParked(w, j) PROVE KeyCurrent'
    <3>1. key[w] = 0
      BY <2>1 DEF ContinueParked, Keys, KeyInLanding, Landing
    <3> QED BY <2>1, <3>1, CurrentKept DEF ContinueParked
  <2>2. ASSUME NEW j \in jobs[w], LeaveParked(w, j) \/ TurnTaken(w, j) PROVE KeyCurrent'
    BY <2>2, CurrentKept DEF LeaveParked, TurnTaken
  <2>3. CASE SweepDone(w)
    BY <2>3, CurrentKept DEF SweepDone
  <2> QED BY <1>4, <2>1, <2>2, <2>3 DEF Sweeps
<1>5. ASSUME NEW w \in Workers, Lands(w) PROVE KeyCurrent'
  <2>1. ASSUME Return(w), gen' = gen PROVE KeyCurrent'
    <3>1. key'[w] = 0 /\ \A v \in Workers \ {w} : key'[v] = key[v] /\ cur'[v] = cur[v]
      BY <2>1 DEF Return, TypeOK
    <3> QED BY <2>1, <3>1, CurrentKept
  <2>2. CASE Load(w)
    BY <2>1, <2>2, CurrentKept DEF Load
  <2>3. CASE FenceClaim(w)
    <3>1. cur[w].task \in Tasks /\ cur[w].claim \in Nat
      BY DEF TypeOK, Job
    <3>2. CASE Fence(cur[w].task, cur[w].claim)
      <4>1. key' = [key EXCEPT ![w] = cur[w].claim + 1] /\ cur' = cur /\ Holds(w)
        BY <2>3, <3>2 DEF FenceClaim, Fence, FenceLost
      <4> QED BY <3>1, <3>2, <4>1, OtherKeysAreNone, CurrentFenced
    <3>3. CASE ~Fence(cur[w].task, cur[w].claim)
      BY <2>1, <2>3, <3>3 DEF FenceClaim, FenceLost
    <3> QED BY <3>2, <3>3
  <2>4. CASE CountCycle(w)
    BY <2>4, CurrentKept DEF CountCycle
  <2>5. CASE PauseRoutine(w) \/ Rearm(w) \/ WriteOutcome(w)
    BY <2>1, <2>5 DEF PauseRoutine, Rearm, WriteOutcome
  <2> QED BY <1>5, <2>2, <2>3, <2>4, <2>5 DEF Lands
<1>6. ASSUME NEW w \in Workers,
             AnyTurnEnds(w) \/ RenewLease(w) \/ JobsGetLate(w) \/ StartSweep(w)
               \/ \E t \in Tasks : StartRetry(w, t)
      PROVE  KeyCurrent'
  <2>1. UNCHANGED <<gen, key, cur>>
    BY <1>6 DEF AnyTurnEnds, TurnEnds, RenewLease, JobsGetLate, StartSweep, StartRetry
  <2> QED BY <2>1, CurrentKept
<1>7. ASSUME NEW w \in Workers, ContinuationBlocked(w) PROVE KeyCurrent'
  <2>1. key[w] = 0
    BY <1>7 DEF ContinuationBlocked, Keys, KeyInLanding, Landing
  <2> QED BY <1>7, <2>1, CurrentKept DEF ContinuationBlocked
<1>8. ASSUME NEW k \in Hosts, Ticks(k) \/ Starts(k) PROVE KeyCurrent'
  <2>1. UNCHANGED <<gen, key, cur>>
    BY <1>8 DEF Ticks, Starts, StartPass, StartHost
  <2> QED BY <2>1, CurrentKept
<1>9. ASSUME NEW k \in Hosts, Crash(k) PROVE KeyCurrent'
  BY <1>9, CurrentKept DEF Crash
<1>10. ASSUME NEW t \in Tasks, SlotComes(t) \/ LeaseLapses(t) PROVE KeyCurrent'
  BY <1>10, CurrentKept DEF SlotComes, LeaseLapses
<1>11. CASE Owner
  <2>1. UNCHANGED <<gen, key, cur>>
    BY <1>11
    DEF Owner, Interrupt, RunNow, ContinueRoutine, TabContinues, HoldHost, ReleaseHost
  <2> QED BY <2>1, CurrentKept
<1>12. CASE UNCHANGED vars
  BY <1>12, CurrentKept DEF vars
<1>13. CASE Next
  BY <1>13, <1>1, <1>2, <1>3, <1>4, <1>5, <1>6, <1>7, <1>8, <1>9, <1>10, <1>11
  DEF Next, Advance
<1> QED BY <1>12, <1>13

\* On a workspace served by one host, a run's outcome is never written over
\* the outcome of a later claim, for any number of tasks and coroutines on it,
\* whatever the owner presses, and wherever the host dies.
THEOREM OneHostSettlesInOrder ==
  ASSUME NEW h, Hosts = {h}
  PROVE  Spec => []SettledInOrder
<1>1. Init => Loop /\ KeyCurrent
  BY DEF Init, Loop, RunnerHolds, DownIsFree, KeyCurrent
<1>2. IInv /\ (Loop /\ KeyCurrent) /\ [Next]_vars => (Loop /\ KeyCurrent)'
  BY StepLoop, StepCurrent DEF IInv
<1>3. IInv /\ (Loop /\ KeyCurrent) => SettledInOrder
  <2> SUFFICES ASSUME IInv, KeyCurrent, NEW w \in Workers, key[w] # 0,
                      NEW k \in landed[cur[w].task]
               PROVE  k < key[w]
    BY DEF SettledInOrder
  <2>1. cur[w].task \in Tasks /\ key[w] \in Nat
    BY DEF IInv, TypeOK, Job
  <2>2. k \in Nat /\ k <= key[w]
    BY <2>1 DEF IInv, TypeOK, Keys, LandedBelow, KeyCurrent
  <2>3. k # key[w]
    BY DEF IInv, Keys, KeyFresh
  <2> QED BY <2>1, <2>2, <2>3
<1> QED BY <1>1, <1>2, <1>3, Invariance, PTL DEF Spec
=============================================================================
