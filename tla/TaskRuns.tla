------------------------------ MODULE TaskRuns ------------------------------
(***************************************************************************)
(* The scheduler's runs: how a due task is claimed, worked on, and settled *)
(* (raiker/tasks/scheduler.py over the tasks table of                      *)
(* raiker/storage/stores/tasks.py, driven by the host loop of              *)
(* raiker/api/instance_runtime.py).                                        *)
(*                                                                         *)
(* A host is one asyncio event loop.  Everything a coroutine does between  *)
(* two awaits is atomic for the other coroutines of the same host, but not *)
(* for another host on the same workspace, and not for a crash: so each    *)
(* store call is a step of its own, and loop[h] names the coroutine that   *)
(* holds host h's loop until it awaits.  The passes (tick and nudge) and   *)
(* the continuation worker are the coroutines; each is a program counter   *)
(* over the statements of run_due, _run_claimed_task, _land_outcome,       *)
(* _rearm, settle_lapsed_runs and settle_interrupted_runs.                 *)
(*                                                                         *)
(* Time is abstract: a slot is still to come, due, or missed (more than    *)
(* fifteen minutes late), and a lease is fresh or stale (older than        *)
(* RUN_LEASE_SECONDS).                                                     *)
(***************************************************************************)
EXTENDS Naturals, FiniteSets

CONSTANTS
    Tasks,                \* rows of the tasks table
    Routines,             \* tasks with a repeating recurrence
    Skipping,             \* routines whose missed_run_policy is "skip"
    Ending,               \* routines with a schedule_until
    Orphans,              \* tasks whose session names no valid owner
    GoalSteps,            \* tasks a goal filed, whose goal may refuse the run
    Hosts,                \* processes serving this workspace
    Passes,               \* run_due coroutines: the tick's and the nudge's
    Resumers,             \* resume_approved and resume_task coroutines
    HostOf,               \* the host each coroutine belongs to
    BatchLimit,           \* claim_due_tasks' limit (10)
    FailureLimit,         \* ROUTINE_FAILURE_LIMIT (3)
    OwnerActions,         \* what the owner may press
    RenewalsMayMiss,      \* may a working run miss ten renewals in a row?
    ContinuationsMayBlock,\* may aresume_after_approval raise?
    MaxGen,               \* bound: no claim is taken at this generation
    MaxCrashes            \* bound: crashes of hosts

Workers == Passes \union Resumers

\* What the owner can press: the three interrupts, the host's own pause, and a
\* browser tab's continuation of a parked turn.
OwnerActionNames == {"pause", "cancel", "resume", "hold", "tab"}

ASSUME TaskSets ==
    /\ Routines \subseteq Tasks /\ Skipping \subseteq Routines
    /\ Ending \subseteq Routines
    /\ Orphans \subseteq Tasks /\ GoalSteps \subseteq Tasks
ASSUME WorkerSets ==
    /\ HostOf \in [Workers -> Hosts]
    /\ Passes \cap Resumers = {}
ASSUME Bounds ==
    /\ BatchLimit \in Nat \ {0} /\ FailureLimit \in Nat \ {0}
    /\ MaxGen \in Nat /\ MaxCrashes \in Nat
ASSUME Switches ==
    /\ RenewalsMayMiss \in BOOLEAN /\ ContinuationsMayBlock \in BOOLEAN
    /\ OwnerActions \subseteq OwnerActionNames

ASSUME SomeTask == Tasks # {}

NoOne == "none"
ASSUME NoOneIsNoWorker == NoOne \notin Workers

Statuses == {"queued", "running", "continuing", "waiting_for_approval",
             "paused", "cancelled", "completed", "failed"}
Terminal == {"completed", "failed", "cancelled"}
Slots == {"none", "future", "due", "missed"}
Leases == {"none", "fresh", "stale"}
Outcomes == {"completed", "failed", "waiting_for_approval", "skipped"}

\* A row as a coroutine read it: the task, its claim_generation at the read,
\* and whether its slot is missed by now.  A parked turn is a job too: it is
\* named by the claim of the run that parked it.
Job == [task : Tasks, claim : Nat, late : BOOLEAN]
NoJob == [task |-> CHOOSE t \in Tasks : TRUE, claim |-> 0, late |-> FALSE]

\* Where a coroutine is.  "settle": walking a list of rows to settle;
\* "batch": walking the claimed batch; "sweep": walking the parked runs;
\* "turn": awaiting a governed turn; the others are the statements of
\* _land_outcome and _rearm.
Locations == {"idle", "settle", "batch", "sweep", "turn", "load", "fence", "count",
              "pause", "rearm", "write"}
\* Which list the coroutine is walking, and so where a landing returns to.
Stages == {"lapsed", "running", "continuing", "batch", "resume"}
\* Locations between a successful fence and the write it licensed.
Landing == {"count", "pause", "rearm", "write"}

VARIABLES
    status, gen, beat, slot, fails,       \* the tasks table
    parked,                               \* the suspended_turns table
    up, loop, held, crashes,              \* the hosts, and the pause file
    pc, stage, jobs, cur, out, key,       \* the coroutines
    stopping,                             \* coroutine's turn was asked to stop
    landed, cycles                        \* history

taskVars == <<status, gen, beat, slot, fails, parked>>
hostVars == <<up, loop, held, crashes>>
workVars == <<pc, stage, jobs, cur, out, key, stopping>>
history  == <<landed, cycles>>
vars == <<taskVars, hostVars, workVars, history>>

TypeOK ==
    /\ status \in [Tasks -> Statuses]
    /\ gen \in [Tasks -> Nat]
    /\ beat \in [Tasks -> Leases]
    /\ slot \in [Tasks -> Slots]
    /\ fails \in [Tasks -> Nat]
    /\ parked \in [Tasks -> SUBSET Nat]
    /\ up \in [Hosts -> BOOLEAN]
    /\ loop \in [Hosts -> Workers \union {NoOne}]
    /\ held \in BOOLEAN
    /\ crashes \in Nat
    /\ pc \in [Workers -> Locations]
    /\ stage \in [Workers -> Stages]
    /\ jobs \in [Workers -> SUBSET Job]
    /\ cur \in [Workers -> Job]
    /\ out \in [Workers -> Outcomes]
    /\ key \in [Workers -> Nat]
    /\ stopping \in [Workers -> BOOLEAN]
    /\ landed \in [Tasks -> SUBSET Nat]
    /\ cycles \in [Tasks -> Nat]

----------------------------------------------------------------------------

Init ==
    /\ status = [t \in Tasks |-> "queued"]
    /\ gen = [t \in Tasks |-> 0]
    /\ beat = [t \in Tasks |-> "none"]
    /\ slot \in [Tasks -> {"none", "future"}]
    /\ fails = [t \in Tasks |-> 0]
    /\ parked = [t \in Tasks |-> {}]
    /\ up = [h \in Hosts |-> FALSE]
    /\ loop = [h \in Hosts |-> NoOne]
    /\ held = FALSE
    /\ crashes = 0
    /\ pc = [w \in Workers |-> "idle"]
    /\ stage = [w \in Workers |-> "batch"]
    /\ jobs = [w \in Workers |-> {}]
    /\ cur = [w \in Workers |-> NoJob]
    /\ out = [w \in Workers |-> "failed"]
    /\ key = [w \in Workers |-> 0]
    /\ stopping = [w \in Workers |-> FALSE]
    /\ landed = [t \in Tasks |-> {}]
    /\ cycles = [t \in Tasks |-> 0]

Free(h) == up[h] /\ loop[h] = NoOne
Holds(w) == loop[HostOf[w]] = w
Take(w) == loop' = [loop EXCEPT ![HostOf[w]] = w]
Release(w) == loop' = [loop EXCEPT ![HostOf[w]] = NoOne]
Goto(w, l) == pc' = [pc EXCEPT ![w] = l]

\* The rows of a SELECT, as the coroutine that read them holds them.
Read(S) == {[task |-> t, claim |-> gen[t], late |-> FALSE] : t \in S}

InStatus(s) == {t \in Tasks : status[t] = s}

LapsedAnyLease == InStatus("running")        \* fault: the heartbeat is not read
\* lapsed_task_runs: running rows whose heartbeat is older than the lease.  A
\* row with no heartbeat at all is left alone.
Lapsed == {t \in Tasks : status[t] = "running" /\ beat[t] = "stale"}

DueOnlyMissed ==                             \* fault: a slot just due is not due
    {t \in Tasks : status[t] = "queued" /\ slot[t] = "missed" /\ gen[t] < MaxGen}
\* What claim_due_tasks selects.  Which rows its LIMIT leaves for the next pass
\* depends on the instants, which the model does not have.
Due == {t \in Tasks : status[t] = "queued" /\ slot[t] \in {"due", "missed"}
                      /\ gen[t] < MaxGen}

\* is_repeating(task.recurrence) and task.scheduled_at
Repeating(t) == t \in Routines /\ slot[t] # "none"

\* fence_task_claim: one compare-and-swap of claim_generation.
AnyClaim(t, g) == TRUE                       \* fault: the WHERE is dropped
ClaimBefore(t, g) == gen[t] + 1 = g          \* fault: compared off by one
HoldsClaim(t, g) == gen[t] = g
Fence(t, g) == HoldsClaim(t, g) /\ gen' = [gen EXCEPT ![t] = g + 1]
FenceLost(t, g) == ~HoldsClaim(t, g) /\ UNCHANGED gen

----------------------------------------------------------------------------
(***************************************************************************)
(* Settling what has no worker: settle_lapsed_runs at the top of every     *)
(* pass, settle_interrupted_runs once when a host starts.                  *)
(***************************************************************************)

StartPass(w) ==
    /\ w \in Passes /\ pc[w] = "idle" /\ Free(HostOf[w])
    /\ Take(w) /\ Goto(w, "settle")
    /\ stage' = [stage EXCEPT ![w] = "lapsed"]
    /\ jobs' = [jobs EXCEPT ![w] = Read(Lapsed)]
    /\ UNCHANGED <<taskVars, history, up, held, crashes, cur, out, key, stopping>>

StartHost(h, w) ==
    /\ ~up[h] /\ w \in Passes /\ HostOf[w] = h /\ pc[w] = "idle"
    /\ up' = [up EXCEPT ![h] = TRUE]
    /\ Take(w) /\ Goto(w, "settle")
    /\ stage' = [stage EXCEPT ![w] = "running"]
    /\ jobs' = [jobs EXCEPT ![w] = Read(InStatus("running"))]
    /\ UNCHANGED <<taskVars, history, held, crashes, cur, out, key, stopping>>

\* Settling takes the claim first.  The fence that succeeds licenses a landing
\* as "failed"; one that does not leaves the row to whoever moved it.
SettleNext(w, j) ==
    /\ pc[w] = "settle" /\ Holds(w) /\ j \in jobs[w]
    /\ jobs' = [jobs EXCEPT ![w] = @ \ {j}]
    /\ \/ /\ Fence(j.task, j.claim)
          /\ Goto(w, "load")
          /\ cur' = [cur EXCEPT ![w] = j]
          /\ out' = [out EXCEPT ![w] = "failed"]
          /\ key' = [key EXCEPT ![w] = j.claim + 1]
       \/ FenceLost(j.task, j.claim) /\ UNCHANGED <<pc, cur, out, key>>
    /\ UNCHANGED <<hostVars, history, status, beat, slot, fails, parked, stage, stopping>>

\* settle_interrupted_runs lists one status after the other.
NextList(w) ==
    /\ pc[w] = "settle" /\ Holds(w) /\ jobs[w] = {} /\ stage[w] = "running"
    /\ stage' = [stage EXCEPT ![w] = "continuing"]
    /\ jobs' = [jobs EXCEPT ![w] = Read(InStatus("continuing"))]
    /\ UNCHANGED <<taskVars, hostVars, history, pc, cur, out, key, stopping>>

HostStarted(w) ==
    /\ pc[w] = "settle" /\ Holds(w) /\ jobs[w] = {} /\ stage[w] = "continuing"
    /\ Goto(w, "idle") /\ Release(w)
    /\ UNCHANGED <<taskVars, history, up, held, crashes, stage, jobs, cur, out, key, stopping>>

----------------------------------------------------------------------------
(***************************************************************************)
(* run_due: claim a batch, then take its members one at a time.            *)
(***************************************************************************)

\* A paused host settles lapsed runs and claims nothing.
PassHeld(w) ==
    /\ pc[w] = "settle" /\ Holds(w) /\ jobs[w] = {} /\ stage[w] = "lapsed"
    /\ held
    /\ Goto(w, "idle") /\ Release(w)
    /\ UNCHANGED <<taskVars, history, up, held, crashes, stage, jobs, cur, out, key, stopping>>

\* claim_due_tasks: up to BatchLimit due rows become running, each at the next
\* generation and with a fresh heartbeat, in one transaction.
ClaimDue(w, S) ==
    /\ pc[w] = "settle" /\ Holds(w) /\ jobs[w] = {} /\ stage[w] = "lapsed"
    /\ ~held
    /\ S \subseteq Due
    /\ S # Due => Cardinality(S) = BatchLimit
    /\ Cardinality(S) <= BatchLimit
    /\ status' = [t \in Tasks |-> IF t \in S THEN "running" ELSE status[t]]
    /\ gen' = [t \in Tasks |-> IF t \in S THEN gen[t] + 1 ELSE gen[t]]
    /\ beat' = [t \in Tasks |-> IF t \in S THEN "fresh" ELSE beat[t]]
    /\ cycles' = [t \in Tasks |-> IF t \in S THEN cycles[t] + 1 ELSE cycles[t]]
    /\ stage' = [stage EXCEPT ![w] = "batch"]
    /\ jobs' = [jobs EXCEPT ![w] =
                  {[task |-> t, claim |-> gen[t] + 1, late |-> slot[t] = "missed"] : t \in S}]
    /\ Goto(w, "batch")
    /\ UNCHANGED <<hostVars, slot, fails, parked, landed, cur, out, key, stopping>>

BatchDone(w) ==
    /\ pc[w] = "batch" /\ Holds(w) /\ jobs[w] = {}
    /\ Goto(w, "idle") /\ Release(w)
    /\ UNCHANGED <<taskVars, history, up, held, crashes, stage, jobs, cur, out, key, stopping>>

\* _skip_missed
Skips(j) == j.task \in Skipping /\ j.late

SkipMissed(w, j) ==
    /\ pc[w] = "batch" /\ Holds(w) /\ j \in jobs[w] /\ Skips(j)
    /\ jobs' = [jobs EXCEPT ![w] = @ \ {j}]
    /\ \/ /\ Fence(j.task, j.claim)
          /\ Goto(w, "rearm")
          /\ cur' = [cur EXCEPT ![w] = j]
          /\ out' = [out EXCEPT ![w] = "skipped"]
          /\ key' = [key EXCEPT ![w] = j.claim + 1]
       \/ FenceLost(j.task, j.claim) /\ UNCHANGED <<pc, cur, out, key>>
    /\ UNCHANGED <<hostVars, history, status, beat, slot, fails, parked, stage, stopping>>

\* The two refusals at the top of _run_claimed_task write without a fence.
RefuseOrphan(w, j) ==
    /\ pc[w] = "batch" /\ Holds(w) /\ j \in jobs[w] /\ ~Skips(j)
    /\ j.task \in Orphans
    /\ jobs' = [jobs EXCEPT ![w] = @ \ {j}]
    /\ status' = [status EXCEPT ![j.task] = "failed"]
    /\ UNCHANGED <<hostVars, history, gen, beat, slot, fails, parked, pc, stage, cur, out, key, stopping>>

RefuseGoalStep(w, j) ==
    /\ pc[w] = "batch" /\ Holds(w) /\ j \in jobs[w] /\ ~Skips(j)
    /\ j.task \in GoalSteps \ Orphans
    /\ jobs' = [jobs EXCEPT ![w] = @ \ {j}]
    /\ status' = [status EXCEPT ![j.task] = "cancelled"]
    /\ UNCHANGED <<hostVars, history, gen, beat, slot, fails, parked, pc, stage, cur, out, key, stopping>>

\* The turn is submitted without reading the row again.
StartTurn(w, j) ==
    /\ pc[w] = "batch" /\ Holds(w) /\ j \in jobs[w] /\ ~Skips(j)
    /\ j.task \notin Orphans
    /\ jobs' = [jobs EXCEPT ![w] = @ \ {j}]
    /\ cur' = [cur EXCEPT ![w] = j]
    /\ Goto(w, "turn") /\ Release(w)
    /\ UNCHANGED <<taskVars, history, up, held, crashes, stage, out, key, stopping>>

----------------------------------------------------------------------------
(***************************************************************************)
(* While a turn is awaited.                                                *)
(***************************************************************************)

\* _renew_lease: one beat.  A beat that is refused asks the turn to stop and
\* ends the renewals.
RenewLease(w) ==
    LET t == cur[w].task IN
    /\ pc[w] = "turn" /\ stage[w] = "batch" /\ ~stopping[w] /\ Free(HostOf[w])
    /\ \/ /\ gen[t] = cur[w].claim /\ status[t] = "running"
          /\ beat' = [beat EXCEPT ![t] = "fresh"]
          /\ UNCHANGED stopping
       \/ /\ gen[t] # cur[w].claim \/ status[t] # "running"
          /\ stopping' = [stopping EXCEPT ![w] = TRUE]
          /\ UNCHANGED beat
    /\ UNCHANGED <<hostVars, history, status, gen, slot, fails, parked, pc, stage, jobs, cur, out, key>>

\* What a governed turn returns, and the task status run_outcome maps it to.
TurnStatuses == {"completed", "needs_approval", "denied", "failed"}
RawOutcome(s) == s                           \* fault: RUN_OUTCOMES is not applied
RunOutcome(s) == CASE s = "completed"      -> "completed"
                   [] s = "needs_approval" -> "waiting_for_approval"
                   [] OTHER                -> "failed"

\* The turn returned, overran its limit, or raised: _within_limit ends every
\* turn.  A limit that stopped the turn and an exception both land "failed".  A
\* turn that needs an approval has parked itself.
TurnEnds(w, s) ==
    /\ pc[w] = "turn" /\ Free(HostOf[w])
    /\ out' = [out EXCEPT ![w] = RunOutcome(s)]
    /\ stopping' = [stopping EXCEPT ![w] = FALSE]
    /\ parked' = IF s = "needs_approval"
                   THEN [parked EXCEPT ![cur[w].task] = @ \union {cur[w].claim}]
                   ELSE parked
    /\ Take(w) /\ Goto(w, "load")
    /\ UNCHANGED <<history, status, gen, beat, slot, fails, up, held, crashes, stage, jobs, cur, key>>

\* Fifteen minutes pass while the members behind a long run wait.
JobsGetLate(w) ==
    /\ pc[w] = "turn" /\ \E j \in jobs[w] : j.task \in Skipping /\ ~j.late
    /\ jobs' = [jobs EXCEPT ![w] =
                  {[task |-> j.task, claim |-> j.claim, late |-> TRUE] : j \in @}]
    /\ UNCHANGED <<taskVars, hostVars, history, pc, stage, cur, out, key, stopping>>

----------------------------------------------------------------------------
(***************************************************************************)
(* _land_outcome and _rearm.                                               *)
(***************************************************************************)

\* Where the coroutine goes when the landing is over.
Return(w) ==
    /\ cur' = [cur EXCEPT ![w] = NoJob]
    /\ out' = [out EXCEPT ![w] = "failed"]
    /\ key' = [key EXCEPT ![w] = 0]
    /\ Goto(w, CASE stage[w] = "batch"  -> "batch"
                 [] stage[w] = "resume" -> "sweep"
                 [] OTHER               -> "settle")
    /\ UNCHANGED <<hostVars, stage, jobs, stopping>>

\* The first statement after the outcome is known to land on this task.
Landed(w) ==
    IF ~Repeating(cur[w].task) THEN "write"
    ELSE IF out[w] \in {"completed", "failed"} THEN "count" ELSE "rearm"

LoadUnchecked(w) ==                          \* fault: the cancellation is not read
    /\ pc[w] = "load" /\ Holds(w)
    /\ Goto(w, IF stage[w] = "batch" THEN "fence" ELSE Landed(w))
    /\ UNCHANGED <<hostVars, stage, jobs, cur, out, key, stopping, taskVars, history>>

\* The row is read back; a cancelled one is left as it is.  Only a run of the
\* batch carries a claim to fence: a settlement fenced already, and a
\* continuation has none.
Load(w) ==
    /\ pc[w] = "load" /\ Holds(w)
    /\ \/ status[cur[w].task] = "cancelled" /\ Return(w)
       \/ /\ status[cur[w].task] # "cancelled"
          /\ Goto(w, IF stage[w] = "batch" THEN "fence" ELSE Landed(w))
          /\ UNCHANGED <<hostVars, stage, jobs, cur, out, key, stopping>>
    /\ UNCHANGED <<taskVars, history>>

FenceClaim(w) ==
    /\ pc[w] = "fence" /\ Holds(w)
    /\ \/ /\ Fence(cur[w].task, cur[w].claim)
          /\ key' = [key EXCEPT ![w] = cur[w].claim + 1]
          /\ Goto(w, Landed(w))
          /\ UNCHANGED <<hostVars, stage, jobs, cur, out, stopping>>
       \/ FenceLost(cur[w].task, cur[w].claim) /\ Return(w)
    /\ UNCHANGED <<history, status, beat, slot, fails, parked>>

StreakNeverCleared(w) == fails[cur[w].task] + 1  \* fault: completed is counted
\* count_routine_cycle: the streak after this cycle.
Streak(w) == IF out[w] = "failed" THEN fails[cur[w].task] + 1 ELSE 0

CountCycle(w) ==
    LET t == cur[w].task
        streak == Streak(w)
    IN
    /\ pc[w] = "count" /\ Holds(w)
    /\ fails' = [fails EXCEPT ![t] = streak]
    /\ cycles' = [cycles EXCEPT ![t] = IF out[w] = "failed" THEN @ ELSE 0]
    /\ Goto(w, IF streak >= FailureLimit THEN "pause" ELSE "rearm")
    /\ UNCHANGED <<hostVars, landed, status, gen, beat, slot, parked, stage, jobs, cur, out, key, stopping>>

\* The write the fence licensed.
Record(w) ==
    landed' = IF key[w] = 0 THEN landed
              ELSE [landed EXCEPT ![cur[w].task] = @ \union {key[w]}]

PauseRoutine(w) ==
    /\ pc[w] = "pause" /\ Holds(w)
    /\ status' = [status EXCEPT ![cur[w].task] = "paused"]
    /\ Record(w) /\ Return(w)
    /\ UNCHANGED <<gen, beat, slot, fails, parked, cycles>>

\* The next slot, or the end of a routine whose next slot is after its end.
Rearm(w) ==
    LET t == cur[w].task IN
    /\ pc[w] = "rearm" /\ Holds(w)
    /\ \/ /\ status' = [status EXCEPT ![t] = "queued"]
          /\ slot' = [slot EXCEPT ![t] = "future"]
       \/ /\ t \in Ending
          /\ status' = [status EXCEPT ![t] = "completed"]
          /\ UNCHANGED slot
    /\ Record(w) /\ Return(w)
    /\ UNCHANGED <<gen, beat, fails, parked, cycles>>

\* complete_task, block_task_on_approval or fail_task, unconditionally.
WriteOutcome(w) ==
    /\ pc[w] = "write" /\ Holds(w)
    /\ status' = [status EXCEPT ![cur[w].task] = out[w]]
    /\ Record(w) /\ Return(w)
    /\ UNCHANGED <<gen, beat, slot, fails, parked, cycles>>

----------------------------------------------------------------------------
(***************************************************************************)
(* Continuing runs whose approval was decided: resume_approved sweeps the  *)
(* parked turns of every task that waits, resume_task is the owner's retry *)
(* of one task.  Whether an approval is decided by now is nondeterministic.*)
(***************************************************************************)

\* list_resumable_suspended_turns, for the tasks in S.
ParkedTurns(S) ==
    UNION {{[task |-> t, claim |-> g, late |-> FALSE] : g \in parked[t]} : t \in S}

StartSweep(w) ==
    /\ w \in Resumers /\ pc[w] = "idle" /\ Free(HostOf[w])
    /\ jobs' = [jobs EXCEPT ![w] = ParkedTurns(InStatus("waiting_for_approval"))]
    /\ jobs'[w] # {}
    /\ stage' = [stage EXCEPT ![w] = "resume"]
    /\ Take(w) /\ Goto(w, "sweep")
    /\ UNCHANGED <<taskVars, history, up, held, crashes, cur, out, key, stopping>>

\* A routine its failures paused is continued by ContinueRoutine instead.
StartRetry(w, t) ==
    /\ w \in Resumers /\ pc[w] = "idle" /\ Free(HostOf[w])
    /\ \/ status[t] = "waiting_for_approval"
       \/ status[t] = "paused" /\ fails[t] < FailureLimit
    /\ jobs' = [jobs EXCEPT ![w] = ParkedTurns({t})]
    /\ jobs'[w] # {}
    /\ stage' = [stage EXCEPT ![w] = "resume"]
    /\ Take(w) /\ Goto(w, "sweep")
    /\ UNCHANGED <<taskVars, history, up, held, crashes, cur, out, key, stopping>>

\* A turn not decided yet, or of a task that has ended since the list was read.
LeaveParked(w, j) ==
    /\ pc[w] = "sweep" /\ Holds(w) /\ j \in jobs[w]
    /\ jobs' = [jobs EXCEPT ![w] = @ \ {j}]
    /\ UNCHANGED <<taskVars, hostVars, history, pc, stage, cur, out, key, stopping>>

\* mark_task_continuing moves only a row that still waits; the turn is claimed
\* and replayed either way.
ContinueParked(w, j) ==
    /\ pc[w] = "sweep" /\ Holds(w) /\ j \in jobs[w]
    /\ status[j.task] \notin Terminal /\ j.claim \in parked[j.task]
    /\ parked' = [parked EXCEPT ![j.task] = @ \ {j.claim}]
    /\ status' = [status EXCEPT ![j.task] =
                    IF @ = "waiting_for_approval" THEN "continuing" ELSE @]
    /\ jobs' = [jobs EXCEPT ![w] = @ \ {j}]
    /\ cur' = [cur EXCEPT ![w] = j]
    /\ Goto(w, "turn") /\ Release(w)
    /\ UNCHANGED <<history, up, held, crashes, gen, beat, slot, fails, stage, out, key, stopping>>

\* claim_suspended_turn refused: a tab, or another sweep, has the turn.
\* report_resume_blocked puts the card back to waiting, whatever it says now.
TurnTaken(w, j) ==
    /\ pc[w] = "sweep" /\ Holds(w) /\ j \in jobs[w]
    /\ status[j.task] \notin Terminal /\ j.claim \notin parked[j.task]
    /\ status' = [status EXCEPT ![j.task] = "waiting_for_approval"]
    /\ jobs' = [jobs EXCEPT ![w] = @ \ {j}]
    /\ UNCHANGED <<hostVars, history, gen, beat, slot, fails, parked, pc, stage, cur, out, key, stopping>>

\* The replayed turn raised: reported the same way.
ContinuationBlocked(w) ==
    /\ ContinuationsMayBlock
    /\ pc[w] = "turn" /\ stage[w] = "resume" /\ Free(HostOf[w])
    /\ status' = [status EXCEPT ![cur[w].task] = "waiting_for_approval"]
    /\ cur' = [cur EXCEPT ![w] = NoJob]
    /\ Take(w) /\ Goto(w, "sweep")
    /\ UNCHANGED <<history, up, held, crashes, gen, beat, slot, fails, parked, stage, jobs, out, key, stopping>>

SweepDone(w) ==
    /\ pc[w] = "sweep" /\ Holds(w) /\ jobs[w] = {}
    /\ Goto(w, "idle") /\ Release(w)
    /\ UNCHANGED <<taskVars, history, up, held, crashes, stage, jobs, cur, out, key, stopping>>

----------------------------------------------------------------------------
(***************************************************************************)
(* The owner, the clock and the machine.                                   *)
(***************************************************************************)

SomeHostServes == \E h \in Hosts : Free(h)

\* InterruptController._apply_one: unconditional, whatever the row says.
InterruptResult(a) == CASE a = "pause"  -> "paused"
                        [] a = "cancel" -> "cancelled"
                        [] a = "resume" -> "running"

Interrupt(t, a) ==
    /\ a \in OwnerActions \ {"hold", "tab"} /\ SomeHostServes
    /\ a = "resume" => gen[t] < MaxGen
    /\ status' = [status EXCEPT ![t] = InterruptResult(a)]
    /\ UNCHANGED <<hostVars, workVars, history, gen, beat, slot, fails, parked>>

\* schedule_task_now
RunNow(t) ==
    /\ SomeHostServes /\ status[t] = "queued" /\ slot[t] = "none"
    /\ slot' = [slot EXCEPT ![t] = "due"]
    /\ UNCHANGED <<hostVars, workVars, history, status, gen, beat, fails, parked>>

\* resume_task on a routine its failures paused: resume_paused_routine.
ContinueRoutine(t) ==
    /\ SomeHostServes /\ status[t] = "paused" /\ fails[t] >= FailureLimit
    /\ status' = [status EXCEPT ![t] = "queued"]
    /\ slot' = [slot EXCEPT ![t] = "due"]
    /\ fails' = [fails EXCEPT ![t] = 0]
    /\ cycles' = [cycles EXCEPT ![t] = 0]
    /\ UNCHANGED <<hostVars, workVars, landed, gen, beat, parked>>

\* A browser tab claims a parked turn and continues it in the conversation; the
\* task's row is not its business.
TabContinues(t, g) ==
    /\ "tab" \in OwnerActions /\ SomeHostServes
    /\ parked' = [parked EXCEPT ![t] = @ \ {g}]
    /\ UNCHANGED <<hostVars, workVars, history, status, gen, beat, slot, fails>>

HoldHost ==
    /\ "hold" \in OwnerActions /\ ~held /\ held' = TRUE
    /\ UNCHANGED <<taskVars, workVars, history, up, loop, crashes>>

ReleaseHost ==
    /\ held /\ held' = FALSE
    /\ UNCHANGED <<taskVars, workVars, history, up, loop, crashes>>

SlotComes(t) ==
    /\ status[t] = "queued"
    /\ \/ slot[t] = "future" /\ slot' = [slot EXCEPT ![t] = "due"]
       \/ slot[t] = "due" /\ t \in Skipping /\ slot' = [slot EXCEPT ![t] = "missed"]
    /\ UNCHANGED <<hostVars, workVars, history, status, gen, beat, fails, parked>>

\* A coroutine is renewing the lease of the run it claimed.
Renewing(t) ==
    \E w \in Passes : /\ pc[w] = "turn" /\ stage[w] = "batch" /\ ~stopping[w]
                      /\ cur[w].task = t /\ cur[w].claim = gen[t]

\* RUN_LEASE_SECONDS pass without a renewal.  A stretch of code between two
\* awaits is far shorter than that, so no coroutine holds its loop meanwhile.
LeaseLapses(t) ==
    /\ status[t] = "running" /\ beat[t] = "fresh"
    /\ \A h \in Hosts : loop[h] = NoOne
    /\ RenewalsMayMiss \/ ~Renewing(t)
    /\ beat' = [beat EXCEPT ![t] = "stale"]
    /\ UNCHANGED <<hostVars, workVars, history, status, gen, slot, fails, parked>>

\* The process dies, or is closed, between two store calls: its coroutines are
\* gone, and the rows stay as the last call left them.
Crash(h) ==
    /\ up[h] /\ crashes < MaxCrashes
    /\ crashes' = crashes + 1
    /\ up' = [up EXCEPT ![h] = FALSE]
    /\ loop' = [loop EXCEPT ![h] = NoOne]
    /\ pc' = [w \in Workers |-> IF HostOf[w] = h THEN "idle" ELSE pc[w]]
    /\ stage' = [w \in Workers |-> IF HostOf[w] = h THEN "batch" ELSE stage[w]]
    /\ jobs' = [w \in Workers |-> IF HostOf[w] = h THEN {} ELSE jobs[w]]
    /\ cur' = [w \in Workers |-> IF HostOf[w] = h THEN NoJob ELSE cur[w]]
    /\ out' = [w \in Workers |-> IF HostOf[w] = h THEN "failed" ELSE out[w]]
    /\ key' = [w \in Workers |-> IF HostOf[w] = h THEN 0 ELSE key[w]]
    /\ stopping' = [w \in Workers |-> IF HostOf[w] = h THEN FALSE ELSE stopping[w]]
    /\ UNCHANGED <<taskVars, history, held>>

----------------------------------------------------------------------------
Settles(w) == (\E j \in jobs[w] : SettleNext(w, j)) \/ NextList(w) \/ HostStarted(w)
Claims(w) == PassHeld(w) \/ \E S \in SUBSET Due : ClaimDue(w, S)
Walks(w) ==
    \/ BatchDone(w)
    \/ \E j \in jobs[w] : \/ SkipMissed(w, j) \/ RefuseOrphan(w, j)
                          \/ RefuseGoalStep(w, j) \/ StartTurn(w, j)
Sweeps(w) ==
    \/ SweepDone(w)
    \/ \E j \in jobs[w] : LeaveParked(w, j) \/ ContinueParked(w, j) \/ TurnTaken(w, j)
Lands(w) == \/ Load(w) \/ FenceClaim(w) \/ CountCycle(w)
            \/ PauseRoutine(w) \/ Rearm(w) \/ WriteOutcome(w)

\* The steps a coroutine takes without awaiting.
Advance(w) == Settles(w) \/ Claims(w) \/ Walks(w) \/ Sweeps(w) \/ Lands(w)

AnyTurnEnds(w) == \E s \in TurnStatuses : TurnEnds(w, s)

Starts(h) == \E w \in Passes : StartHost(h, w)
Ticks(h) == \E w \in Passes : HostOf[w] = h /\ StartPass(w)

Owner == \/ \E t \in Tasks : \/ \E a \in OwnerActions : Interrupt(t, a)
                             \/ RunNow(t) \/ ContinueRoutine(t)
                             \/ \E g \in parked[t] : TabContinues(t, g)
         \/ HoldHost \/ ReleaseHost

Next ==
    \/ \E w \in Workers : \/ Advance(w) \/ AnyTurnEnds(w)
                          \/ RenewLease(w) \/ JobsGetLate(w)
                          \/ ContinuationBlocked(w) \/ StartSweep(w)
                          \/ \E t \in Tasks : StartRetry(w, t)
    \/ \E h \in Hosts : Starts(h) \/ Ticks(h) \/ Crash(h)
    \/ \E t \in Tasks : SlotComes(t) \/ LeaseLapses(t)
    \/ Owner

(***************************************************************************)
(* A coroutine that holds the loop goes on; the event loop serves its      *)
(* ready callbacks in turn, so one that waits for it is not starved; the   *)
(* run limit ends every turn; a host that is down is started again; and    *)
(* the clock moves.                                                        *)
(***************************************************************************)
Fairness ==
    /\ \A w \in Workers : WF_vars(Advance(w)) /\ SF_vars(AnyTurnEnds(w))
    /\ \A h \in Hosts : WF_vars(Starts(h)) /\ SF_vars(Ticks(h))
    /\ \A t \in Tasks : WF_vars(SlotComes(t)) /\ WF_vars(LeaseLapses(t))

Spec == Init /\ [][Next]_vars /\ Fairness

----------------------------------------------------------------------------
(***************************************************************************)
(* Properties.                                                             *)
(***************************************************************************)

\* Between its fence and its write, a coroutine holds a generation nobody else
\* has settled or is settling (fence_task_claim: "the caller now settles the
\* run and anyone else holding that claim does not").
SettledOnce ==
    \A w \in Workers : pc[w] \in Landing /\ key[w] # 0 =>
        /\ key[w] \notin landed[cur[w].task]
        /\ \A v \in Workers \ {w} :
             pc[v] \in Landing /\ key[v] = key[w] => cur[v].task # cur[w].task

\* Outcomes are recorded in the order of the claims they settle: a run never
\* writes over the outcome of a later one (_land_outcome: its outcome "would
\* overwrite the state somebody else decided").
SettledInOrder ==
    \A w \in Workers : pc[w] \in Landing /\ key[w] # 0 =>
        \A k \in landed[cur[w].task] : k < key[w]

\* Two passes never have a turn of the same task in flight (claim_due_tasks:
\* "so two host ticks cannot run it twice").
OneLiveTurn ==
    \A v, w \in Passes :
        v # w /\ pc[v] = "turn" /\ pc[w] = "turn" => cur[v].task # cur[w].task

\* Only the owner moves a task that has ended: no pass, settlement or
\* continuation reopens or rewrites one (lifecycle: "a terminal task is never
\* re-run in place").
TerminalStays ==
    [][\A t \in Tasks : status[t] \in Terminal /\ status'[t] # status[t] => Owner]_vars

\* A routine's streak never exceeds the cycles it was claimed for since the
\* streak was last cleared ("three cycles in a row that did not complete"), but
\* for a cycle that a crash after the count let the restart count again.
StreakCountsCycles == \A t \in Tasks : fails[t] <= cycles[t] + crashes

\* Every run the board shows as running is settled: it ends, or its lease
\* lapses and the next pass takes it.
EveryRunSettles ==
    \A t \in Tasks : (status[t] = "running") ~> (status[t] # "running")

\* Work that is due is claimed, however long the batch ahead of it runs.
DueIsClaimed ==
    \A t \in Tasks : (status[t] = "queued" /\ slot[t] = "due" /\ gen[t] < MaxGen)
                        ~> (status[t] # "queued")

=============================================================================
