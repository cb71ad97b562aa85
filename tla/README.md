# Raiker: a TLA+ model of the work it does on its own

Raiker is a personal agent host: one process per workspace that answers prompts,
asks for approvals, and runs tasks, goals, routines and commands with nobody
watching. This project models five parts of it: how scheduled work is claimed, run,
parked, continued, settled and recovered; how an approval is decided, executed and
handed back to the turn that waits for it; how a command is started, watched,
reclaimed and receipted; how a goal files its steps and is settled; and when a
routine runs next. There, interleavings, crashes, stale reads and clock changes
decide whether the owner's record is true.

## 1. Inventory

| Component | State | Operations | Interacts with |
|---|---|---|---|
| Task scheduler (`tasks/scheduler.py`, `api/instance_runtime.py`, `tasks/wakeup.py`) | coroutines of the host loop: the tick's pass, the nudge's pass, the continuation sweep, one renewer per run | `run_due`, `settle_lapsed_runs`, `settle_interrupted_runs`, `resume_approved`, `resume_task`, `_renew_lease`, `_land_outcome`, `_rearm`, `_skip_missed` | tasks table, gateway, goals, host pause |
| Tasks table (`storage/stores/tasks.py`) | `status`, `claim_generation`, `run_heartbeat_at`, `scheduled_at`, `failed_cycles` | `claim_due_tasks`, `fence_task_claim`, `beat_task_run`, `lapsed_task_runs`, `schedule_task_now`, `reschedule_task`, `count_routine_cycle`, `pause_routine`, `resume_paused_routine`, and unconditional status writes | everything that touches a task |
| Interrupts and the stop switch (`runtime/interrupts.py`, `api/routes_prompts.py`) | none of their own | pause, resume, cancel, steer; cascade to delegated work | tasks table, turn controls |
| Task tree (`tasks/manager.py`) | parent links, `waiting_for_children` | `complete_task`, `fail_task`, `cancel_task`, `_settle_parent` | tasks table |
| Host pause (`app/host.py`) | a pause file | pause, resume | scheduler |
| Suspended turns (`storage/stores/conversations.py`, `gateway/agent_gateway.py`) | `suspended_turns` rows: suspended, resuming, final | park, record the outcome, claim, finalize | approvals, scheduler, browser tabs |
| Approvals (`approvals/`, `api/routes_approvals.py`, `runtime/executors/tier1_approval.py`, `storage/stores/approvals.py`) | pending, decided, executing, settled, expired | raise, decide, replace, answer, execute, settle, hand back, expire | suspended turns, held sends, channels |
| Held sends (`runtime/held_sends.py`) | connector write intents | file, hold, undo, release, end | approvals |
| Channel approval relay (`api/routes_channels.py`) | single-use relay records | announce, answer | approvals |
| Command runs (`execution/commands/`) | `command_runs` rows, chunks and receipts; handles, watchers and lease threads in memory; a detached supervisor per background run | start, watch, finalize, poll, stop, recover, reattach, reclaim, shut down | the owner's listing, the stop switch |
| Goals (`goals/coordinator.py`, `goals/store.py`) | goal and step rows, evidence, reserved runs, pinned profile | accept, start, pause, resume, stop, archive, confirm, profile change, advance, guard | tasks, scheduler, Settings |
| Schedule (`tasks/schedule.py`) | none (pure); the slot, end and status of a routine | `next_occurrence`, `first_slot`, `schedule_terms`, `_rearm` | scheduler |
| Telemetry, channel deliveries, model operations | durable rows driven by in-process workers | deliver, settle after a restart | host tick |
| Events, memory, knowledge, policy, tools, front ends | — | — | not part of the scheduling core |

What is hard: two passes overlap on one loop (the tick's and the nudge's); a
batch is a list of rows read once and walked for hours; the fence of a claim and
the write it licenses are two transactions; a host dies between any two store
calls; a lease lapses under a worker that is only slow; the owner pauses, stops,
resumes and retries at any instant; a parked turn can be continued by a sweep, by
a retry or by a browser tab; two tabs and a channel decide one approval while its
action runs on a worker thread and the expiry sweep on another; a send can be taken
back until the moment it leaves; a command's watcher, starter, lease thread and
callers share its row with no lock around their compare-and-sets, and its supervisor
outlives them; a goal's task is created and linked in two transactions; a wall clock
repeats an hour, skips one, or skips a day. `PROJECT.json` lists each of these at
its line.

What makes each component correct:

* scheduler and tasks table: a claim is settled once, and outcomes land in the
  order of the claims; a task has one turn in flight; every run is settled; due
  work is claimed; an ended task stays ended; a routine's failure streak counts
  its cycles;
* suspended turns and approvals: an approved action is executed once and its turn
  is continued once, told what really happened; a decision is never lost;
* command runs: a process is launched at most once, its run is settled once, with a
  receipt that names what the process did, and with all of its output;
* goals: a step's work is begun at most once and paid for; a goal completes on
  evidence of work that was done; pausing lets begun work finish; stopping leaves
  nothing behind;
* schedule: the next slot is the first after now and after the slot before it, at
  the owner's wall time, and not after the end;
* task tree: a parent that waits for its children ends when the last one does.

## 2. Plan

Built: **TaskRuns**, **Approvals**, **CommandRuns** with the abstract specification
**CommandReceipts** it implements, **Goals**, **Schedule**.

Left, in order of importance:

1. **Continuations** — TaskRuns and Approvals composed: a task's parked turn is
   continued when its approval is decided, by the sweep, a retry or a tab.
2. **TaskTree** — delegation, `waiting_for_children`, `_settle_parent`, the
   interrupt cascade; property: no parent waits for children that have all ended.
3. **ExactlyOnce** — an abstract specification of TaskRuns (a claim is open or
   settled), implemented on one host under a refinement mapping.
4. Channel receipts, model operations, telemetry cadence.

## 3. The modules

| Module | What it is |
|---|---|
| `TaskRuns` | runs, claims, leases, settlements, continuations, restarts |
| `MCTaskRuns` | which coroutines each host runs in TLC's instances |
| `TaskRunsProofs` | type correctness and settlement at most once, for all constants; settlement in order on one host |
| `TaskRunsStreakProofs` | the failure streak on one host |
| `TaskRunsTurnProofs` | one turn of a task at a time, on one host |
| `TaskRunsEndProofs` | a task that has ended stays as it is, on one host |
| `Approvals` | decisions, executions, held sends and the turns that wait for them |
| `MCApprovals` | the approvals TLC's instances are made of |
| `ApprovalsProofs` | type correctness, execution at most once, undo, stale grants, results that stand, and what a continued turn was told |
| `CommandReceipts` | what the command service promises: one launch, one end, one true receipt |
| `CommandRuns` | starter, watcher, lease, callers, supervisor and host, step by step |
| `MCCommandRuns` | the module TLC checks |
| `CommandRunsProofs` | type correctness, the refinement of `CommandReceipts`, complete output |
| `Goals` | the owner's actions, the coordinator's pass, the guard, the scheduler as a goal sees it |
| `MCGoals` | a small plan for TLC |
| `GoalsProofs` | type correctness, evidence, one run per step, the budget, pausing, and that a goal that is over leaves nothing behind |
| `Schedule` | zones, `next_occurrence`, and the life of one routine's slot |
| `MCSchedule` | four zones around their clock changes |
| `ScheduleProofs` | the search for the next slot, the end, re-arming and the wall clock |

### 3.1 TaskRuns: state

| Variable | Code |
|---|---|
| `status`, `gen`, `beat`, `slot`, `fails` | columns `status`, `claim_generation`, `run_heartbeat_at` (none, fresh, or older than the lease), `scheduled_at` (none, to come, due, or missed by more than the grace), `failed_cycles` |
| `parked` | `suspended_turns` rows still `suspended`, named by the claim of the run that parked them |
| `up`, `loop`, `held`, `crashes` | host processes; the coroutine holding each event loop; the pause file; the crash bound |
| `pc`, `stage`, `jobs`, `cur`, `out`, `key`, `stopping` | each coroutine's place, the list it walks, the rows left in it, the row in hand, the outcome in hand, the generation its fence moved to (0: none), and whether its turn was asked to stop |
| `landed`, `cycles` | history: generations whose settlement was written; claims since the streak was cleared |

A host is one asyncio loop: between two awaits nothing else on that host runs, so
`loop[h]` is held by one coroutine from wake-up to await. Each store call is still
a step of its own, because a crash, or a second host on the same workspace, can
come between two of them.

### 3.2 TaskRuns: actions

| Code | Actions |
|---|---|
| `settle_lapsed_runs`, `settle_interrupted_runs` | `StartPass`, `StartHost`, `SettleNext`, `NextList`, `HostStarted` |
| `run_due` | `PassHeld`, `ClaimDue`, `BatchDone`, `SkipMissed` |
| `_run_claimed_task` | `RefuseOrphan`, `RefuseGoalStep`, `StartTurn`, `TurnEnds` |
| `_renew_lease` | `RenewLease` |
| `_land_outcome`, `_rearm` | `Load`, `FenceClaim`, `CountCycle`, `PauseRoutine`, `Rearm`, `WriteOutcome` |
| `resume_approved`, `resume_task`, `_resume_task` | `StartSweep`, `StartRetry`, `LeaveParked`, `ContinueParked`, `TurnTaken`, `ContinuationBlocked`, `SweepDone` |
| the owner | `Interrupt`, `RunNow`, `ContinueRoutine`, `TabContinues`, `HoldHost`, `ReleaseHost` |
| clock and machine | `SlotComes`, `JobsGetLate`, `LeaseLapses`, `Crash` |

Abstractions, all of them deliberate:

* an instant is a slot or a lease class; which due rows fall under the batch limit
  is therefore any choice of that many;
* what a turn does is its final status; whether an approval is decided when a
  sweep looks is nondeterministic (`LeaveParked` or `ContinueParked`);
* each task has its own conversation, so a sweep finds its own turns only;
* a task delegates nothing, so a completed one does not wait for children;
* an exception in a landing is contained by the code and is not a step;
* marking a row as continuing and claiming its turn are one step: there is no
  await between them, and a crash between them leaves a `continuing` row, which
  the restart settles as it settles one whose turn had been claimed;
* a run that was never settled because it was cancelled keeps its row as the owner
  left it: `Load` returns.

### 3.3 Approvals: state

| Variable | Code |
|---|---|
| `status`, `overdue` | `approvals.status` (`absent`: not filed), and whether `expires_at` has passed |
| `intent` | `connector_write_intents.status` (`none`: no intent) |
| `answerable` | a pending `approval_relay_records` row for the approval |
| `turn`, `outcome` | `suspended_turns.status` and what `outcome_json` says |
| `gates` | the relay's and the tool's capability gates, as one switch |
| `pc`, `req`, `res` | each request's place, the decision it carries and how its execution ended |
| `loop`, `crashes` | the request that holds the event loop; the crash bound |
| `attempts` | history: executions begun |

The routes are coroutines: `loop` is held from one `await` to the next. Two things
run beside the loop on threads: a relayed execution (`asyncio.to_thread`) and the
tick's expiry sweep. So every store call of a route is a step.

### 3.4 Approvals: actions

| Code | Actions |
|---|---|
| the broker and `_suspend_turn` | `Propose`, `FileIntent`, `Park` |
| `insert_approval_relay`, `expire_due_approvals` | `Announce`, `TimeLimit`, `ExpireDue` |
| `POST resolve`, `replace`, `resolve-critical`, `answer`, the channel's answer | `Resolve`, `Replace`, `ResolveCritical`, `AnswerQuestion`, `ChannelAnswer` |
| `ApprovalInbox.resolve`, `_record_resume_outcome` | `Check`, `Write`, `Record` |
| `held_sends` and the route around it | `RefuseIntent`, `Hold`, `Undo`, `HoldOver`, `SendEnds` |
| `ApprovalExecutionRelay.execute`, `ApprovalExecutionBridge.execute` | `RelayCheck`, `RelayClaim`, `TargetRuns`, `TargetRaises`, `RelaySettle`, `RelayReport`, `Reply` |
| `_restore_suspended_turn`, `claim_suspended_turn`, `finalize_suspended_turn` | `ResumeTurn`, `ResumeEnds` |
| the owner's switches, the machine | `FlipGates`, `Crash` |

Abstractions:

* an approval's tool is the kind it belongs to (relayable, send, question,
  critical, a reviewer's edit, or one that is only recorded);
* the payload hash, posture, step-up and a hunk selection are reasons for which a
  check may refuse: nondeterministic refusals;
* an execution is `blocked` before it ran, `failed` or `executed`, or it raises,
  before or after it ran, and nobody catches it (`Raising` names the approvals whose
  executor may): the request ends and the row stays `executing`. A send may end in
  a transport error that nobody catches, which leaves its intent `executing`. An
  error of the store or the event log at any other step is not modelled;
* tool-action rows, notices and events, which follow each status change and which
  no control reads, are left out;
* a read and the conditional update that directly follows it on the expiry path are
  one step: the update re-checks what was read;
* a turn parks on one approval; a queue of parked calls is one call at a time.

### 3.5 CommandRuns: state and actions

| Variable | Code |
|---|---|
| `row` | the `command_runs` row: state, receipt, launch kind, recorded supervisor handle, lease, and how many output chunks are stored |
| `proc` | the child, the outcome its watcher or supervisor decided, whether that is final, the supervisor, whether it was released, and its journal |
| `active` | `CommandService._active`: the handle this host holds, named by its watcher |
| `pump` | the watcher threads of `RunningProcess` and `SupervisedProcess`, and `_finalize` after them |
| `renewing` | the lease thread of a run |
| `starter`, `call` | where `start` stands for each run, and what each request thread is doing |
| `crashes`, `faults` | the bounds on host crashes and supervisor deaths |

| Code | Actions |
|---|---|
| `start`, `_contain_start_failure` | `Create`, `MarkStarting`, `Launch`, `LaunchFails`, `Contain`, `Refuse`, `MarkRunning`, `RecordHandle`, `Activate`, `StartLease` |
| `_pump`, `_drain` | `PumpExit`, `PumpRead`, `PumpPage`, `PumpLosesSupervisor` |
| `_finalize` | `PumpLoad`, `PumpMark`, `ClearHandle`, `PumpReceipt`, `PumpPop` |
| the lease thread | `Renew`, `StopRenewing`, `Lapse` |
| `recover_owner`, `reconcile_leases`, `stop`, `poll` | `Call`, `CheckActive`, `LoadHandle`, `Attach`, `SetActive`, `AttachLease`, `PopActive`, `Reload`, `RecoverQueued`, `RecoverMark`, `RecoverReceipt`, `Terminate` |
| the child and its supervisor | `ChildWrites`, `ChildExits`, `Finish`, `Deadline`, `SupervisorLeaves`, `SupervisorDies` |
| the host | `Crash`, `Shutdown` |

Abstractions: a record of output is a count; what admission, the sandbox and
credentials refuse is `LaunchFails`; a page of the journal is `PageSize` records
(the code bounds it by 500 records and 256 KiB); the supervisor's socket answers
while it is up and not released. `CommandReceipts` knows only the outcome of each
process and the receipt of each run.

### 3.6 Goals: state and actions

| Variable | Code |
|---|---|
| `goal`, `step`, `evid` | the rows of `goals/store.py`: status, pinned profile version and reserved runs; state and linked task; what each criterion was met by |
| `task` | the tasks filed for the steps, and the step each was filed for |
| `batch`, `turns`, `started` | what a scheduler pass has claimed and not reached, what is inside a turn, and (history) what was ever begun |
| `profile`, `refused`, `spent` | the profile version Settings binds, whether a model lies outside it, and whether the cost cap is reached |
| `loop`, `aged` | the coordinator's handler and where it stands, and whether a step claimed for dispatch is two minutes old |
| `changes`, `crashes` | bounds |

| Code | Actions |
|---|---|
| `accept`, `start`, `pause`, `resume`, `stop`, `archive`, `confirm` | `Accept`, `Start`, `Pause`, `Resume`, `Stop`, `Archive`, `Confirm` |
| `_interrupt` | `Interrupt`, one linked task a step |
| Settings, `profile_changed` | `SaveProfile`, `ProfileChanged`, `ChangeModels` |
| `advance` and what it calls | `Tick`, `PassBegin`, `Scan`, `Dispatch`, `FileTask`, `FileRefused`, `LinkTask`, `Reread`, `Settle` |
| `guard_task` and the scheduler around it | `Claim`, `GuardStops`, `GuardRefunds`, `RunTask`, `TurnEnds`, `Continue`, `StopTask` |
| clock and machine | `SpendReached`, `TimePasses`, `Crash` |

The coordinator never awaits, so `loop` is held from the start of a handler to its
end and only a crash comes in between, after any transaction. Abstractions: the
scheduler is what a goal sees of it (`TaskRuns` has the rest); a crash settles
running tasks at once, as a restart does; the plan and the criteria are accepted
before the first step of the model.

### 3.7 Schedule: state and actions

An instant is a number of seconds; a zone is the table `zoneinfo` reads, its changes
and its offsets. `NextOccurrence`, `FirstSlot`, `CalendarSlot` and `IntervalSlot`
are `next_occurrence` and what it calls, with the search for a slot as a `CHOOSE`
of the least step below `MaxSteps = 800`, and `LocalSlot` what `datetime` does with
a wall time (`fold = 0`). The variables are one routine's terms, the host's clock,
its status and slot, and whether the slot is one the owner's Continue asked for.
`ScheduleNow`, `Claim`, `Settle` (`_rearm`), `Pause` and `Continue` move them, and
`ClockMoves` moves the clock, back too. A slot is also "missed" when it waited in a
long batch: `_skip_missed` re-arms as a settled cycle does, so `Settle` is both.
Continue runs one cycle even after the routine's end: `EndKept` says so.

## 4. What the runs check

| Run | Instance | Properties |
|---|---|---|
| `TaskRunsOneHost` | one-off task and routine; tick, nudge, sweep; Stop, host pause and tabs; 1 crash; `MaxGen` 3 | `TypeOK`, `SettledOnce`, `SettledInOrder`, `TerminalStays` |
| `TaskRunsOneRoutine` | a task with no valid owner and a routine with an end; tick and nudge; Stop; 1 crash; `MaxGen` 4 | `OneLiveTurn`, `StreakCountsCycles`, `EveryRunSettles`, `DueIsClaimed` |
| `TaskRunsRefusals` | a one-off task, a goal step, a skipping and ending routine; continuations that raise; tabs; `MaxGen` 2 | `EveryRunSettles` |
| `ApprovalsSends` | a send and a question, both also answerable on a channel; two requests; 1 crash | `TruthfulResume`, `UndoneNeverSent` |
| `ApprovalsActions` | a write, its reviewer's edit, a critical action; two requests; executors that raise | `ApprovalsTypeOK`, `RunsOnce`, `OnlyApprovedRuns` |
| `ApprovalsLive` | one write, decided in the inbox after it parked; two requests; no crash, no executor that raises | `ResultStands`, `DecisionReachesTurn`, `ExecutionSettles` |
| `CommandRunsReceipts` | one run, detached or supervised; recovery, reclaim and Stop; a journal of one record; 1 crash, 1 supervisor death | `CommandsTypeOK`, `OutputComplete`, `ReceiptsHold` |
| `CommandRunsSettle` | one run, foreground or supervised; recovery, reclaim and poll; 1 crash | `UnattendedSettles` |
| `GoalsSteps` | three steps, two that can go at once and one that needs the first; two profile versions; 1 crash | `GoalsTypeOK`, `EvidenceIsWork`, `StepWorksOnce`, `RunsPaid`, `OverIsOver`, `PauseKeepsWork`, `GoalMoves` |
| `ScheduleSlots` | every cadence, with and without an end, in UTC, London, Toronto and Apia around their clock changes; a clock that may be set back | `ScheduleTypeOK`, `OnTheWall`, `EndKept`, `NextIsNext` |

`SettledOnce` and `SettledInOrder` are about the fence: between a fence and its
write a coroutine holds a generation nobody else settles, and everything recorded
before is older. `TerminalStays` says only the owner moves an ended task.
`OneLiveTurn` is the promise of `claim_due_tasks`. `StreakCountsCycles` relates
the streak to the claims since it was cleared. `EveryRunSettles` and
`DueIsClaimed` are the liveness of the board: nothing runs for ever, and nothing
due waits for ever.

`RunsOnce` is the promise of the two claims, `pending` to `executing` and `held` to
`executing`. `OnlyApprovedRuns` relates what ran to what the row says,
`TruthfulResume` what the model was told to what happened. `ResultStands` says that
a result, once told, is not replaced by what another tab or channel makes of the same
approval: the write of an outcome asks whether the turn is parked, not what it was
told, so it is the claims and the order of the routes that see to it.
`DecisionReachesTurn` and `ExecutionSettles` say that nothing is left hanging.

`ReceiptsHold` is the refinement of `CommandReceipts`; `OutputComplete` relates the
stored chunks to the supervisor's journal; `UnattendedSettles` is about a run that
this host neither watches nor starts.

`EvidenceIsWork`, `StepWorksOnce` and `RunsPaid` relate a goal's rows to the history
of turns that were begun. `OverIsOver` is about what Stop leaves, `PauseKeepsWork`
about what Pause may not take, `GoalMoves` about a goal that would stay running with
nothing under way.

`NextIsNext` compares each re-arming with every slot of the schedule, `OnTheWall`
each slot with what a clock on the owner's wall shows.

Runs that show where the code and its own words differ (each finds a violation):

| Run | What happens |
|---|---|
| `FindingDoubleRun` | a batch member waits behind a long run without renewals, lapses, is settled, re-armed and claimed by the other pass, and runs twice at once |
| `FindingNeverSettles` | the watcher of a command that ends at once loads its run as starting; `start` moves it to running; the watcher's compare-and-set is lost, and nobody gives the run a receipt |

Some instances were left out of the passing runs because the property fails there,
for a reason that is in the code.

| Property | Fails when | Because |
|---|---|---|
| `TerminalStays` | a routine skips missed slots (`TaskRunsOneHost` with `Skipping`) | a slot is skipped from a record read at claim time, and the re-arm is unconditional (`scheduler.py:532`) |
| `TerminalStays` | continuations may raise (`TaskRunsOneHost` with `ContinuationsMayBlock`) | `report_resume_blocked` writes `waiting_for_approval` over a cancelled row (`scheduler.py:335`) |
| `TerminalStays` | a batch has a goal step or a task with no valid owner | the two refusals of `_run_claimed_task` write without reading the row |
| `TerminalStays` | the owner may pause or resume | an interrupt writes a row whose run or continuation goes on, and is written over when that lands |
| `SettledInOrder`, `TerminalStays` | two hosts serve | the fence moves the generation but not the status, so a second fence succeeds before the first write |
| `OneLiveTurn` | a member waits behind a turn (`FindingDoubleRun`) | its lease is not renewed while it waits |
| `OneLiveTurn` | the owner may pause and a sweep runs | a retry of an old parked turn re-arms the routine under its working run |
| `StreakCountsCycles` | the owner may pause or resume | an interrupt writes a status with no claim. It allows one extra count per crash, because the count commits before the row leaves `running` (`scheduler.py:483`) |
| `EveryRunSettles` | the owner may resume | resuming a task nobody claimed writes `running` without a heartbeat (`interrupts.py:109`), which no lapse covers |
| `TruthfulResume` | a write is decided by two requests | the update of a deny lost to a running execution changes nothing and its count is not read (`approvals/__init__.py:63`), yet the turn is told it was rejected |
| `OnlyApprovedRuns` | there is a send | the update lost to the expiry sweep is not noticed and the intent is held and sent (`routes_approvals.py:746`) |
| `DecisionReachesTurn` | there is a channel, a send or a crash, or a decision arrives before the turn has parked | a run that fails over a channel (`routes_channels.py:1158`) and a send its service refuses (`routes_approvals.py:783`) raise before the outcome is recorded; decision and outcome are two transactions |
| `ExecutionSettles`, `DecisionReachesTurn` | an executor may raise (`Raising`), or the host may die while it runs | nothing but the request that claimed a row settles it, and the relay calls `route_action` without a `try` (`tier1_approval.py:325`, `router.py:1812`; `tier2_shell.py:58` converts arguments outside one): the claim is neither finalized nor released, though `docs/threat-models/approval-execution-relay.md:47` promises a target that ran and failed a terminal row |
| `OutputComplete` | a journal is longer than a page (`CommandRunsReceipts` with `MaxJournal = 2`) | the watcher drains one page more after the exit and then releases the supervisor (`supervisor_client.py:243`) |
| `UnattendedSettles` | the supervisor may die (`MaxFaults = 1`) | a reattached run may be attended by a watcher that has ended (`supervisor_client.py:258`) |
| `OverIsOver` | a host dies inside Stop, or between a task and its link | Stop reaches the tasks one by one, after the goal is stopped (`coordinator.py:462`), and a task without a link is reached by nobody (`coordinator.py:634`) |

Behaviours of the code that are in the model with no property stated: a claimed task
the owner stops while another member of its batch runs is started all the same, and
only its outcome is dropped (`StartTurn` does not read the row); a question
announced on a channel is resolved there as approved (`ChannelAnswer`), though
`routes_approvals.py:578` says a question cannot be approved; a run found `starting`
by the owner's listing is declared lost while its process is being launched
(`RecoverMark`).

### Bounds

`MaxGen` bounds claims, not settlements: with 3, a task is claimed twice (each
settlement moves the generation too), so a late worker of the first claim meets the
second one; with 4, also after a settlement that lapsed. Two failed cycles reach
`FailureLimit = 2`. `BatchLimit = 10` exceeds the tasks, so batches hold all that is
due. One crash is enough to leave any row at any step to a restart.

Two requests are enough for every race of Approvals: each race is between a request
and one other actor (a request, the sweep, the owner's undo, a crash), and a request
that has answered is sent again.

Command runs touch no row but their own, so one run shows every race; two watchers
are the one that is there and the one a reattachment starts; one caller at a time
meets the starter and the watchers. With one record and pages of one, a watcher
reads a full page before or after the exit, and the second one finds it stored.

Three steps and three tasks let a step be refused, refunded and filed again while
another waits; the two profile versions pay for one run and for two. In Schedule the
instants surround each clock change, on both sides of midnight, and slots are compared
up to two weeks past the last of them (`LastDay`).

### Fairness

* TaskRuns — `WF(Advance)`: a coroutine that holds its loop goes on.
  `SF(AnyTurnEnds)`, `SF(Ticks)`: asyncio serves ready callbacks in turn, so one
  that is ready again and again is served; `_within_limit` ends every turn; the
  tick returns every 15 seconds. `WF(Starts)`: a host that stopped is started
  again. `WF(SlotComes)`, `WF(LeaseLapses)`: the clock moves.
* Approvals — `SF(Serves(r))`, since a request that waits for the loop is served and
  an executor or a connector call has a time limit; `SF(ResumeTurn)`, since tabs and
  the scheduler's sweep come round; `WF(Continues)`, since a continuation is finalized
  in a `finally`.
* CommandRuns — threads run (`WF` of the starter, the watchers, the callers and the
  lease thread), a process reaches its deadline, an unrenewed lease lapses, and the
  owner keeps listing the runs and asking after the background ones (`SF` of the two
  calls), the only places from which recovery is called: that a run settles is
  promised to an owner who looks.
* Goals — the loop runs its handlers and a turn ends (`WF`), the host ticks, claims
  and reaches what it claimed (`SF`), and two minutes pass.

Nothing is assumed of the owner otherwise, of renewals, of approvals being decided,
or of crashes.

## 5. What is proved

Every theorem is for all values of the constants under the named assumptions of its
module, which say what kind of value each constant is, or what the code that builds
it checks (a plan's dependencies go backwards, a mandatory criterion exists). One is
about data that nothing in the code checks: the offsets of a zone's table differ by at
most a day (`ZonesAssumption`). Neither `schedule.py` nor `zoneinfo` looks. It holds
of every zone's table cut to the years a routine can live in; some full historical
tables exceed it (Apia's runs from -11:30 to +14, Anchorage's oldest local mean time is
more than a day from its later offsets). What a theorem assumes beyond these is in its
statement.

### TaskRuns

* `TypeCorrect` — `Spec => []TypeOK`. The type invariant alone is not inductive:
  `WriteOutcome` writes `out[w]` into the status column, and `skipped` is not a
  status. `SkippedRearms` (a skipped slot is at the re-arm) is the strengthening.
* `FencingSettlesOnce` — `Spec => []SettledOnce`, for any number of hosts. The
  invariant `Keys` says why: a key is held only during a landing, is at most its
  task's generation, was not landed before, and differs from every other key of the
  task; what was landed is at most the generation. A fence moves the generation, so
  its key is new (`FenceStep`); the end of a landing gives the key up
  (`ReturnStep`); every other step leaves keys alone (`QuietStep`).
* `OneHostSettlesInOrder` — `Spec => []SettledInOrder` when `Hosts` is a singleton.
  `Loop` is the discipline of the event loop (whoever is neither idle nor awaiting
  holds it, proved for any number of hosts); on one host nobody else holds a key
  meanwhile, so a key stays equal to its task's generation (`KeyCurrent`).
* `StreakIsPaidFor` — `Spec => []StreakCountsCycles` on one host where the owner
  neither pauses nor resumes by an interrupt (`NoOwnerWrites`; with them it is
  false, see the table above). Each claim is a credit of one count, and `StreakInv`
  says who has it: a coroutine with the current claim, one that has just fenced it,
  or a `running` row nobody has counted yet. The fence makes every copy of the claim
  stale (`FencedKeeps`), the count spends the credit (`CountKeeps`), a crash may
  lend one more (`CrashKeeps`), and every other step leaves credits alone
  (`AsideKeeps`).
* `OneTurnAtATime` — `Spec /\ WaitersKeepTheirLease => []OneLiveTurn` on one host
  with `NoOwnerWrites` and without `RenewalsMayMiss`. The hypothesis is a property of
  the behaviour: no lease passes for a claimed member that still waits in its batch,
  which is what `FindingDoubleRun` shows the code does not see to; TLC finds it
  broken there, and true of every behaviour of `TaskRunsOneRoutine`. `TurnInv` says
  that a claimed row belongs to its pass (`Owns`): nobody else has it in a list or in
  hand, its generation is the pass's claim, and it says `running` with a fresh lease,
  or `cancelled`. A stranger's step leaves such a row alone (`StrangerKeeps`), the
  pass's own keeps it (`OwnerKeeps`), and a claim is of a row nobody has
  (`ClaimOwns`): a one-time task whose turn was parked is never queued again
  (`PastInv`), and no continuation holds a routine.
* `EndedStays` — `Spec => TerminalStays` on one host under `PlainTasks`: no skipped
  slots, no refusals, no raising continuations, no pause or resume by an interrupt.
  Each of these breaks it (section 4). Few writes look at the row, so `EndInv` says
  who can be about to write. A one-time task is claimed once (`OnceInv`): one pass has
  it until its run lands, at most one turn of it is parked, whoever continues that
  has it alone, and a settlement lists, fences and writes without awaiting, after
  which the run it settled has lost its claim. A routine is written by whoever fenced
  its claim, and a licence is of a row that runs (`LicenseInv`). A landing that read
  the row holds the loop until it writes, so nobody cancels it in between
  (`NotCancelled`), and a host's start works alone (`StartingAlone`).

### Approvals

* `TypeCorrect` — `Spec => []ApprovalsTypeOK`.
* `ExecutesOnce` — `Spec => []RunsOnce`; `StaleGrantNeverRuns` —
  `Spec => []OnlyApprovedRuns` when nothing is a send. Both follow from `SafetyInv`.
  Counting attempts is not inductive: one must know
  that an intent belongs to a send and that the relay never works on one, so each
  approval is guarded by one row; that from claim to settlement one request owns the
  row (`ClaimHeld`, `ClaimExclusive`); that the target has not run before it does, nor
  when it was blocked (`NotYetRun`); and that what has run can be read off the row or
  the intent (`RanIsOnTheRow`, `SentIsOnTheIntent`). Six actions begin, end, settle or
  abandon an execution and have a lemma each or a case; all others are quiet
  (`QuietStep`).
* `UndoHolds` — `Spec => UndoneNeverSent`. The end of a send writes its intent without
  a condition, so it must be known that whoever is sending owns an `executing` intent,
  alone (`SendInv`, proved on its own); that nothing was sent then follows from
  `SafetyInv`.
* `ResultsStand` — `Spec => ResultStands`, for every kind of approval and any number
  of concurrent requests. A told result is on the row or on the intent (`ResultOnRow`),
  so the approval is not pending and nobody starts to decide it. Who decided it before
  has spoken before: a decision, its write and its record hold the loop in one stretch,
  a held send is in one request's hands (`SendingApart`), and no row is both a send's
  and the relay's (`SendRow`). `Stands` says this of each place a request can be at;
  rows that move without a result being told are calm and disturb nobody (`CalmStep`),
  and the three steps that do (a told result, a release, the end of a send) meet no
  other speaker (`TellingStands`, `StandStep`).
* `ToldTheTruth` — `Spec => []TruthfulResume` under `OneAtATime`: no two requests at
  once, or nothing relayable. `TruthInv` follows a decision from the check of the
  row to the recorded outcome: what a request carries is still what the row and the
  intent say, since nobody else can move them meanwhile. Where a relay races a second
  request of a write it is false.

### CommandRuns

* `CommandsTypeCorrect` — `Spec => []CommandsTypeOK`; `ReceiptsRefined` —
  `Spec => ReceiptsHold`. Both rest on `CommandsInv`: an outcome is decided once and a
  finished process has one (`ProcInv`); nothing is launched before `backend.start`,
  and nothing after a contained receipt (`StarterInv`); a watcher on its way to the
  receipt carries the outcome of its run (`PumpInv`). A step then maps to the launch,
  the ends or the settlement of `CommandReceipts`, or to a stutter.
* `OutputIsComplete` — `Spec => []OutputComplete` when a journal fits a page
  (`MaxJournal <= PageSize`; false beyond). `OutputInv` follows each watcher's
  position: it is at most what is stored, a watcher behind the store cannot store,
  and one that drained after the exit has read the whole journal.

### Goals

* `GoalsTypeCorrect`, `StepsWorkOnce` (`[]StepWorksOnce`), `RunsArePaid`
  (`[]RunsPaid`), `EvidenceIsTrue` (`[]EvidenceIsWork`) and `PauseKeeps`
  (`PauseKeepsWork`) follow from `GoalsInv`. Its heart is what can still do a step's
  work: a task is potent when it is filed, claimed or was begun; a step has at most
  one potent task, a pending step has none, and the potent tasks are counted by the
  reserved runs. Only `FileTask` makes a task potent, for a step that has none, after
  a reservation; the guard's refund takes one away with the task.
* `NothingLeftBehind` — `Spec => []OverIsOver`, from `OverInv`: as long as no crash
  came, a live task is linked from its step or about to be, a settled step has no
  live task, and Stop still has to visit the step of every live one.

### Schedule

* `NextOccurrenceIsNext` — for every anchor, cadence and zone whose offsets differ by
  at most a day, `next_occurrence` finds a slot within its 800 steps, after the given
  instant, with none between. From the offsets: the slot of a day two before an
  instant's is not after it, that of two days later is, and the slots of successive
  days do not go back; so the jump to a step short of the day skips nothing.
* `ScheduleTypeCorrect`, `EndIsKept` (`[]EndKept`) and `RearmsForTheNext`
  (`NextIsNext`) follow from it and `ScheduleInv`, whose strengthening is that a
  proposed routine has no end (`ProposedHasNoEnd`).
* `OnTheOwnersClock` — `Spec => []OnTheWall` in zones whose changes are further apart
  than they are long (`Spaced`; every real zone's are). `WallInv` adds that a queued
  slot is the slot of a day of the cadence; that such a slot is what the wall clock
  shows is arithmetic about two neighbouring changes.

### Model-checked only

The liveness properties (`DueIsClaimed`, `EveryRunSettles`, `DecisionReachesTurn`,
`ExecutionSettles`, `UnattendedSettles`, `GoalMoves`): liveness under fairness is out
of the prover's reach. Every invariant and action property of the runs is a theorem,
for the configurations its statement names.

## 6. Not modelled

Standing grants and hunk selections, delegation and the interrupt cascade, the
drafting of a goal's plan, the admission and sandbox of commands, parsing and
formatting of instants, channel deliveries, model operations and telemetry. The
event log, memory and knowledge, policy and tools, and the front ends are left out:
they keep no state that a run's control depends on.
