------------------------------- MODULE Goals -------------------------------
(***************************************************************************)
(* A durable goal (raiker/goals): the owner's actions, the coordinator's   *)
(* pass that files its steps as tasks and assesses the evidence, the guard *)
(* the scheduler asks before it runs a step, and a host that dies between  *)
(* two writes.  Routes and scheduler share one event loop and never await  *)
(* inside the coordinator, so a handler runs alone: loop says how far it   *)
(* has come, one step per transaction, and only a crash comes in between.  *)
(***************************************************************************)
EXTENDS Integers, FiniteSets

CONSTANTS
    Steps,        \* the steps of the plan, numbered in its order
    Deps,         \* the steps each one depends on
    Criteria,     \* what the goal is assessed by
    Mandatory,    \* the criteria it cannot complete without
    StepsFinish,  \* those with the validator steps_finish
    Links,        \* the steps linked to each criterion
    Profiles,     \* versions of the execution profile, 1 .. some bound
    Limit,        \* max_step_runs of each version
    Tasks,        \* tasks that can be filed
    MaxTurns,     \* passes of the scheduler that can be inside a turn at once
    MaxChanges,   \* changes of the owner's models
    MaxCrashes    \* crashes of the host

NoTask == 0

ASSUME StepsAssumption == Steps \subseteq Nat \ {0} /\ Steps # {}
\* clean_plan: a step depends only on steps before it, so there is no cycle.
ASSUME DepsAssumption ==
    Deps \in [Steps -> SUBSET Steps] /\ \A s \in Steps : \A d \in Deps[s] : d < s
\* accept: a mandatory criterion, and a step for every criterion that steps meet.
ASSUME CriteriaAssumption ==
    /\ Mandatory \subseteq Criteria /\ Mandatory # {}
    /\ StepsFinish \subseteq Criteria
    /\ Links \in [Criteria -> SUBSET Steps]
    /\ \A c \in StepsFinish : Links[c] # {}
ASSUME ProfilesAssumption ==
    /\ Profiles \subseteq Nat /\ 1 \in Profiles /\ Limit \in [Profiles -> Nat]
ASSUME TasksAssumption == Tasks \subseteq Nat \ {NoTask} /\ IsFiniteSet(Tasks)
ASSUME BoundsAssumption == MaxTurns \in Nat /\ MaxChanges \in Nat /\ MaxCrashes \in Nat

Active == {"running", "waiting"}
Settled == {"completed", "partial", "failed", "stopped"}
GoalStates == {"draft", "ready", "paused", "archived"} \cup Active \cup Settled
StepSettled == {"done", "failed", "stopped", "blocked"}
StepStates == {"pending", "running", "waiting"} \cup StepSettled
ActiveTask == {"queued", "running", "waiting", "paused"}
TaskStates == {"none", "completed", "failed", "cancelled"} \cup ActiveTask

VARIABLES
    goal,      \* the goals row: status, pinned profile, step runs reserved
    step,      \* the goal_steps rows: state and linked task
    task,      \* the tasks filed for the steps, and the step each was filed for
    batch,     \* tasks a scheduler pass has claimed and not come to yet
    turns,     \* tasks whose turn is under way
    started,   \* tasks whose turn was ever started
    evid,      \* the evidence recorded for each criterion
    profile,   \* the profile version Settings binds now
    refused,   \* a model the turn could fall back to is outside the profile
    spent,     \* the cost cap is reached
    aged,      \* two minutes have passed since the last crash
    loop,      \* the handler that is running
    changes,   \* changes of the owner's models so far
    crashes    \* crashes so far

vars == <<goal, step, task, batch, turns, started, evid, profile, refused, spent, aged, loop,
          changes, crashes>>

\* A handler: where it stands, the steps still to visit, what it carries to them.
Loop(at, todo, act, t) == [at |-> at, todo |-> todo, act |-> act, task |-> t]
Idle == Loop("idle", {}, "none", NoTask)
Pass == Loop("pass", {}, "none", NoTask)
Interrupts(act) == Loop("interrupt", Steps, act, NoTask)

LoopType == [at : {"idle", "changed", "pass", "scan", "dispatch", "file", "link", "reread",
                   "settle", "interrupt"},
             todo : SUBSET Steps,
             act : {"none", "pause", "resume", "cancel"},
             task : Tasks \cup {NoTask}]

\* Every variable holds values of its kind (the rows of goals/store.py).
GoalsTypeOK ==
    /\ goal \in [status : GoalStates, pin : Profiles, runs : Nat]
    /\ step \in [Steps -> [state : StepStates, task : Tasks \cup {NoTask}]]
    /\ task \in [Tasks -> [status : TaskStates, of : Steps \cup {0}]]
    /\ batch \subseteq Tasks /\ turns \subseteq Tasks /\ started \subseteq Tasks
    /\ evid \in [Criteria -> {"none", "steps", "owner"}]
    /\ profile \in Profiles
    /\ refused \in BOOLEAN /\ spent \in BOOLEAN /\ aged \in BOOLEAN
    /\ loop \in LoopType
    /\ changes \in 0 .. MaxChanges
    /\ crashes \in 0 .. MaxCrashes

Init ==
    /\ goal = [status |-> "draft", pin |-> 1, runs |-> 0]
    /\ step = [s \in Steps |-> [state |-> "pending", task |-> NoTask]]
    /\ task = [t \in Tasks |-> [status |-> "none", of |-> 0]]
    /\ batch = {} /\ turns = {} /\ started = {}
    /\ evid = [c \in Criteria |-> "none"]
    /\ profile = 1
    /\ refused = FALSE /\ spent = FALSE /\ aged = TRUE
    /\ loop = Idle
    /\ changes = 0 /\ crashes = 0

First(S, s) == s \in S /\ \A q \in S : s <= q
SetStatus(status) == goal' = [goal EXCEPT !.status = status]
SetTask(t, status) == task' = [task EXCEPT ![t].status = status]

(***************************************************************************)
(* The owner                                                               *)
(***************************************************************************)
Accept ==
    /\ loop = Idle
    /\ goal.status = "draft"
    /\ goal' = [goal EXCEPT !.status = "ready", !.pin = profile]
    /\ UNCHANGED <<step, task, batch, turns, started, evid, profile, refused, spent, aged, loop,
                   changes, crashes>>

\* _budget_exhausted, under the limit of profile v.
Exhausted(v) == spent \/ (goal.runs >= Limit[v] /\ \E s \in Steps : step[s].state = "pending")

\* Start and Resume: _revalidate adopts the profile of now if it admits the models, and the
\* goal runs if the budget lets it.
Begin(from, next) ==
    /\ loop = Idle
    /\ goal.status = from
    /\ ~refused
    /\ \/ /\ ~Exhausted(profile)
          /\ goal' = [goal EXCEPT !.status = "running", !.pin = profile]
          /\ loop' = next
       \/ /\ Exhausted(profile)
          /\ goal' = [goal EXCEPT !.pin = profile]
          /\ UNCHANGED loop
    /\ UNCHANGED <<step, task, batch, turns, started, evid, profile, refused, spent, aged,
                   changes, crashes>>

Start == Begin("ready", Pass)
Resume == Begin("paused", Interrupts("resume"))

\* The owner's Pause; the coordinator pauses in the same way.
PauseGoal == SetStatus("paused") /\ loop' = Interrupts("pause")

Pause ==
    /\ loop = Idle
    /\ goal.status \in Active
    /\ PauseGoal
    /\ UNCHANGED <<step, task, batch, turns, started, evid, profile, refused, spent, aged,
                   changes, crashes>>

Stop ==
    /\ loop = Idle
    /\ goal.status \in {"ready", "paused"} \cup Active
    /\ SetStatus("stopped")
    /\ step' = [s \in Steps |->
                  [state |-> IF step[s].state \in StepSettled THEN step[s].state ELSE "stopped",
                   task |-> step[s].task]]
    /\ loop' = Interrupts("cancel")
    /\ UNCHANGED <<task, batch, turns, started, evid, profile, refused, spent, aged, changes,
                   crashes>>

Archive ==
    /\ loop = Idle
    /\ goal.status \in {"draft"} \cup Settled
    /\ SetStatus("archived")
    /\ UNCHANGED <<step, task, batch, turns, started, evid, profile, refused, spent, aged, loop,
                   changes, crashes>>

\* Mutant: a step that ended without finishing counts as evidence too.
AutoEvidenceOnSettled(ev) ==
    [c \in Criteria |->
        IF c \in StepsFinish /\ ev[c] = "none" /\ \A s \in Links[c] : step[s].state \in StepSettled
        THEN "steps" ELSE ev[c]]

\* _auto_evidence: a criterion that steps meet is met when all its steps are done.
AutoEvidence(ev) ==
    [c \in Criteria |->
        IF c \in StepsFinish /\ ev[c] = "none" /\ \A s \in Links[c] : step[s].state = "done"
        THEN "steps" ELSE ev[c]]

Outcome(ev) ==
    IF \A c \in Mandatory : ev[c] # "none" THEN "completed"
    ELSE IF \E c \in Criteria : ev[c] # "none" THEN "partial" ELSE "failed"

Confirm(c) ==
    LET ev == [evid EXCEPT ![c] = "owner"] IN
    /\ loop = Idle
    /\ goal.status \in {"ready", "paused", "partial"} \cup Active
    /\ evid' = IF goal.status = "partial" THEN AutoEvidence(ev) ELSE ev
    /\ IF goal.status = "partial" THEN SetStatus(Outcome(AutoEvidence(ev))) ELSE UNCHANGED goal
    /\ loop' = IF goal.status \in Active THEN Pass ELSE loop
    /\ UNCHANGED <<step, task, batch, turns, started, profile, refused, spent, aged, changes,
                   crashes>>

\* Settings saves a new version, then calls profile_changed.
SaveProfile ==
    /\ loop = Idle
    /\ profile + 1 \in Profiles
    /\ profile' = profile + 1
    /\ loop' = Loop("changed", {}, "none", NoTask)
    /\ UNCHANGED <<goal, step, task, batch, turns, started, evid, refused, spent, aged, changes,
                   crashes>>

ProfileChanged ==
    /\ loop.at = "changed"
    /\ IF goal.status \in Active /\ goal.pin # profile
       THEN PauseGoal ELSE loop' = Idle /\ UNCHANGED goal
    /\ UNCHANGED <<step, task, batch, turns, started, evid, profile, refused, spent, aged,
                   changes, crashes>>

\* The owner changes a default model or a fallback.
ChangeModels ==
    /\ loop = Idle
    /\ changes < MaxChanges
    /\ refused' = ~refused
    /\ changes' = changes + 1
    /\ UNCHANGED <<goal, step, task, batch, turns, started, evid, profile, spent, aged, loop,
                   crashes>>

(***************************************************************************)
(* _interrupt: Pause, Resume or Stop carried to the linked tasks, in order *)
(***************************************************************************)
\* Mutant: Pause cancels what Stop cancels.
InterruptedByPause(status) ==
    IF loop.act \in {"cancel", "pause"} /\ status \in ActiveTask THEN "cancelled"
    ELSE IF loop.act = "resume" /\ status = "paused" THEN "queued" ELSE status

\* Mutant: Stop leaves a parked run to whoever answers it.
InterruptedUnlessParked(status) ==
    IF loop.act = "cancel" /\ status \in ActiveTask \ {"waiting"} THEN "cancelled"
    ELSE IF loop.act = "pause" /\ status = "queued" THEN "paused"
    ELSE IF loop.act = "resume" /\ status = "paused" THEN "queued" ELSE status

Interrupted(status) ==
    IF loop.act = "cancel" /\ status \in ActiveTask THEN "cancelled"
    ELSE IF loop.act = "pause" /\ status = "queued" THEN "paused"
    ELSE IF loop.act = "resume" /\ status = "paused" THEN "queued" ELSE status

Interrupt ==
    /\ loop.at = "interrupt"
    /\ \E s \in Steps :
          /\ First(loop.todo, s)
          /\ IF step[s].task = NoTask THEN UNCHANGED task
             ELSE SetTask(step[s].task, Interrupted(task[step[s].task].status))
          /\ loop' = IF loop.todo # {s} THEN Loop("interrupt", loop.todo \ {s}, loop.act, NoTask)
                     ELSE IF loop.act = "resume" THEN Pass ELSE Idle
    /\ UNCHANGED <<goal, step, batch, turns, started, evid, profile, refused, spent, aged,
                   changes, crashes>>

(***************************************************************************)
(* advance, the coordinator's pass                                         *)
(***************************************************************************)
\* reconcile_all, on every tick of the host.
Tick ==
    /\ loop = Idle
    /\ goal.status \in Active
    /\ loop' = Pass
    /\ UNCHANGED <<goal, step, task, batch, turns, started, evid, profile, refused, spent, aged,
                   changes, crashes>>

\* Mutant: the task's own word for a cancellation reaches the step's row.
StepFromTaskVerbatim(status) ==
    CASE status \in {"queued", "running"} -> "running"
      [] status \in {"waiting", "paused"} -> "waiting"
      [] status = "completed" -> "done"
      [] OTHER -> status

\* step_from_task
StepFromTask(status) ==
    CASE status \in {"queued", "running"} -> "running"
      [] status \in {"waiting", "paused"} -> "waiting"
      [] status = "completed" -> "done"
      [] status = "cancelled" -> "stopped"
      [] OTHER -> "failed"

\* Mutant: a step whose dispatch was interrupted is filed again.
RefreshedRefiles(s) ==
    IF step[s].state \in StepSettled THEN step[s].state
    ELSE IF step[s].task # NoTask THEN StepFromTask(task[step[s].task].status)
    ELSE IF step[s].state = "running" /\ aged THEN "pending" ELSE step[s].state

\* Mutant: a step whose dispatch was interrupted is waited for.
RefreshedWaits(s) ==
    IF step[s].state \in StepSettled \/ step[s].task = NoTask THEN step[s].state
    ELSE StepFromTask(task[step[s].task].status)

\* _refresh_steps.  A step claimed for dispatch and never given a task fails, once it is old.
Refreshed(s) ==
    IF step[s].state \in StepSettled THEN step[s].state
    ELSE IF step[s].task # NoTask THEN StepFromTask(task[step[s].task].status)
    ELSE IF step[s].state = "running" /\ aged THEN "failed" ELSE step[s].state

Refresh == step' = [s \in Steps |-> [state |-> Refreshed(s), task |-> step[s].task]]

PassBegin ==
    /\ loop.at = "pass"
    /\ IF goal.pin # profile THEN PauseGoal /\ UNCHANGED step
       ELSE Refresh /\ loop' = Loop("scan", {}, "none", NoTask) /\ UNCHANGED goal
    /\ UNCHANGED <<task, batch, turns, started, evid, profile, refused, spent, aged, changes,
                   crashes>>

Unfinished == {s \in Steps : step[s].state \in StepSettled \ {"done"}}

\* The pending steps with a dependency that settled unfinished, or is blocked itself.
Blocked(B) ==
    B = {s \in Steps : step[s].state = "pending" /\ Deps[s] \cap (B \cup Unfinished) # {}}

Scan ==
    /\ loop.at = "scan"
    /\ \E B \in SUBSET Steps :
          LET due == {s \in Steps : /\ step[s].state = "pending"
                                   /\ \A d \in Deps[s] : step[d].state = "done"} IN
          /\ Blocked(B)
          /\ step' = [s \in Steps |-> [state |-> IF s \in B THEN "blocked" ELSE step[s].state,
                                       task |-> step[s].task]]
          /\ \/ /\ due = {}
                /\ loop' = Loop("settle", {}, "none", NoTask)
                /\ UNCHANGED goal
             \/ /\ due # {} /\ refused
                /\ SetStatus("waiting")
                /\ loop' = Idle
             \/ due # {} /\ ~refused /\ Exhausted(goal.pin) /\ PauseGoal
             \/ /\ due # {} /\ ~refused /\ ~Exhausted(goal.pin)
                /\ loop' = Loop("dispatch", due, "none", NoTask)
                /\ UNCHANGED goal
    /\ UNCHANGED <<task, batch, turns, started, evid, profile, refused, spent, aged, changes,
                   crashes>>

\* Mutant: the reservation is checked and not written.
DispatchUnpaid ==
    /\ loop.at = "dispatch"
    /\ \E s \in Steps :
          /\ First(loop.todo, s)
          /\ goal.runs < Limit[goal.pin]
          /\ step' = [step EXCEPT ![s] = [state |-> "running", task |-> NoTask]]
          /\ loop' = Loop("file", loop.todo, "none", NoTask)
    /\ UNCHANGED <<goal, task, batch, turns, started, evid, profile, refused, spent, aged, changes,
                   crashes>>

\* _dispatch: the reservation and the claim of the step in one transaction.  Without a run
\* left, the batch ends.
Dispatch ==
    /\ loop.at = "dispatch"
    /\ \E s \in Steps :
          /\ First(loop.todo, s)
          /\ \/ /\ goal.runs < Limit[goal.pin]
                /\ goal' = [goal EXCEPT !.runs = @ + 1]
                /\ step' = [step EXCEPT ![s] = [state |-> "running", task |-> NoTask]]
                /\ loop' = Loop("file", loop.todo, "none", NoTask)
             \/ /\ goal.runs >= Limit[goal.pin]
                /\ loop' = Loop("reread", {}, "none", NoTask)
                /\ UNCHANGED <<goal, step>>
    /\ UNCHANGED <<task, batch, turns, started, evid, profile, refused, spent, aged, changes,
                   crashes>>

NextStep(todo) == Loop(IF todo = {} THEN "reread" ELSE "dispatch", todo, "none", NoTask)

\* The task is created ...
FileTask ==
    /\ loop.at = "file"
    /\ \E s \in Steps, t \in Tasks :
          /\ First(loop.todo, s)
          /\ First({u \in Tasks : task[u].status = "none"}, t)
          /\ task' = [task EXCEPT ![t] = [status |-> "queued", of |-> s]]
          /\ loop' = Loop("link", loop.todo, "none", t)
    /\ UNCHANGED <<goal, step, batch, turns, started, evid, profile, refused, spent, aged,
                   changes, crashes>>

\* ... or refused, which is the step's outcome.
FileRefused ==
    /\ loop.at = "file"
    /\ \E s \in Steps :
          /\ First(loop.todo, s)
          /\ step' = [step EXCEPT ![s] = [state |-> "failed", task |-> step[s].task]]
          /\ loop' = NextStep(loop.todo \ {s})
    /\ UNCHANGED <<goal, task, batch, turns, started, evid, profile, refused, spent, aged,
                   changes, crashes>>

\* ... and linked, in a transaction of its own.
LinkTask ==
    /\ loop.at = "link"
    /\ \E s \in Steps :
          /\ First(loop.todo, s)
          /\ step' = [step EXCEPT ![s] = [state |-> step[s].state, task |-> loop.task]]
          /\ loop' = NextStep(loop.todo \ {s})
    /\ UNCHANGED <<goal, task, batch, turns, started, evid, profile, refused, spent, aged,
                   changes, crashes>>

Reread ==
    /\ loop.at = "reread"
    /\ Refresh
    /\ loop' = Loop("settle", {}, "none", NoTask)
    /\ UNCHANGED <<goal, task, batch, turns, started, evid, profile, refused, spent, aged,
                   changes, crashes>>

\* _settle_or_report and _assess
Settle ==
    LET In(state) == \E s \in Steps : step[s].state = state IN
    /\ loop.at = "settle"
    /\ evid' = AutoEvidence(evid)
    /\ \/ In("running") /\ SetStatus("running")
       \/ ~In("running") /\ In("waiting") /\ SetStatus("waiting")
       \/ ~In("running") /\ ~In("waiting") /\ In("pending") /\ UNCHANGED goal
       \/ /\ \A s \in Steps : step[s].state \in StepSettled
          /\ SetStatus(Outcome(AutoEvidence(evid)))
    /\ loop' = Idle
    /\ UNCHANGED <<step, task, batch, turns, started, profile, refused, spent, aged, changes,
                   crashes>>

(***************************************************************************)
(* The scheduler, as far as a goal's steps see it                          *)
(***************************************************************************)
\* claim_due_tasks: everything that is due, at once.
Claim ==
    LET due == {t \in Tasks : task[t].status = "queued"} IN
    /\ loop = Idle
    /\ due # {}
    /\ task' = [t \in Tasks |-> [status |-> IF t \in due THEN "running" ELSE task[t].status,
                                 of |-> task[t].of]]
    /\ batch' = batch \cup due
    /\ UNCHANGED <<goal, step, turns, started, evid, profile, refused, spent, aged, loop,
                   changes, crashes>>

\* The pass comes to a task it claimed, whatever has become of it since.
Reached(t) ==
    /\ loop = Idle
    /\ t \in batch
    /\ Cardinality(turns) < MaxTurns
    /\ batch' = batch \ {t}

Linked(s, t) == step[s].task = t

\* guard_task: the goal is no longer running.
GuardStops(t) ==
    /\ Reached(t)
    /\ goal.status \notin Active
    /\ \E s \in Steps : Linked(s, t)
    /\ SetTask(t, "cancelled")
    /\ UNCHANGED <<goal, step, turns, started, evid, profile, refused, spent, aged, loop,
                   changes, crashes>>

\* guard_task: the model chain is outside the profile.  The step is pending again and its
\* run is refunded.
GuardRefunds(t) ==
    /\ Reached(t)
    /\ goal.status \in Active
    /\ refused
    /\ \E s \in Steps :
          /\ Linked(s, t)
          /\ step' = [step EXCEPT ![s] = [state |-> "pending", task |-> NoTask]]
    /\ goal' = [goal EXCEPT !.status = "waiting", !.runs = IF @ = 0 THEN 0 ELSE @ - 1]
    /\ SetTask(t, "cancelled")
    /\ UNCHANGED <<turns, started, evid, profile, refused, spent, aged, loop, changes, crashes>>

RunTask(t) ==
    /\ Reached(t)
    /\ \A s \in Steps : Linked(s, t) => goal.status \in Active /\ ~refused
    /\ turns' = turns \cup {t}
    /\ started' = started \cup {t}
    /\ UNCHANGED <<goal, step, task, evid, profile, refused, spent, aged, loop, changes, crashes>>

\* The turn is over; a cancellation that came first stays.
TurnEnds(t, o) ==
    /\ t \in turns
    /\ turns' = turns \ {t}
    /\ SetTask(t, IF task[t].status = "running" THEN o ELSE task[t].status)
    /\ UNCHANGED <<goal, step, batch, started, evid, profile, refused, spent, aged, loop, changes,
                   crashes>>

\* What a parked run waited for has come.
Continue(t) ==
    /\ task[t].status = "waiting"
    /\ SetTask(t, "running")
    /\ turns' = turns \cup {t}
    /\ UNCHANGED <<goal, step, batch, started, evid, profile, refused, spent, aged, loop, changes,
                   crashes>>

\* The owner stops one task.
StopTask(t) ==
    /\ loop = Idle
    /\ task[t].status \in ActiveTask
    /\ SetTask(t, "cancelled")
    /\ UNCHANGED <<goal, step, batch, turns, started, evid, profile, refused, spent, aged, loop,
                   changes, crashes>>

SpendReached ==
    /\ ~spent /\ turns # {}
    /\ spent' = TRUE
    /\ UNCHANGED <<goal, step, task, batch, turns, started, evid, profile, refused, aged, loop,
                   changes, crashes>>

(***************************************************************************)
(* The host dies, and settles at boot the runs that were under way.        *)
(***************************************************************************)
Crash ==
    /\ crashes < MaxCrashes
    /\ crashes' = crashes + 1
    /\ loop' = Idle
    /\ batch' = {} /\ turns' = {}
    /\ task' = [t \in Tasks |->
                  [status |-> IF task[t].status = "running" THEN "failed" ELSE task[t].status,
                   of |-> task[t].of]]
    /\ aged' = FALSE
    /\ UNCHANGED <<goal, step, started, evid, profile, refused, spent, changes>>

TimePasses ==
    /\ ~aged
    /\ aged' = TRUE
    /\ UNCHANGED <<goal, step, task, batch, turns, started, evid, profile, refused, spent, loop,
                   changes, crashes>>

Owner ==
    \/ Accept \/ Start \/ Resume \/ Pause \/ Stop \/ Archive
    \/ \E c \in Criteria : Confirm(c)
    \/ SaveProfile \/ ChangeModels

Handler ==
    \/ ProfileChanged \/ Interrupt \/ PassBegin \/ Scan \/ Dispatch \/ FileTask \/ FileRefused
    \/ LinkTask \/ Reread \/ Settle

Run(t) == GuardStops(t) \/ GuardRefunds(t) \/ RunTask(t)
Ends(t) == \E o \in {"completed", "failed", "waiting"} : TurnEnds(t, o)

Next ==
    \/ Owner \/ Handler \/ Tick \/ Claim \/ SpendReached \/ Crash \/ TimePasses
    \/ \E t \in Tasks : Run(t) \/ Ends(t) \/ Continue(t) \/ StopTask(t)

Spec == Init /\ [][Next]_vars

\* The loop runs its handlers, the host ticks and claims what is due, and a turn ends: it
\* has a time limit.
Fairness ==
    /\ WF_vars(Handler) /\ SF_vars(Tick) /\ SF_vars(Claim) /\ WF_vars(TimePasses)
    /\ SF_vars(\E t \in Tasks : Run(t)) /\ WF_vars(\E t \in Tasks : Ends(t))

FairSpec == Spec /\ Fairness

(***************************************************************************)
(* Properties                                                              *)
(***************************************************************************)
\* A goal completes on evidence: each mandatory criterion has some, and where it says the
\* steps finished, the task of every linked step did complete (_auto_evidence, _assess).
EvidenceIsWork ==
    /\ goal.status = "completed" => \A c \in Mandatory : evid[c] # "none"
    /\ \A c \in Criteria : evid[c] = "steps" =>
          \A s \in Links[c] : \E t \in started : /\ task[t].of = s
                                                 /\ task[t].status = "completed"

\* A step's work is begun at most once, through refusals, refunds and crashes: two tasks of
\* one step never both run (_dispatch, guard_task, _refresh_steps).
StepWorksOnce == \A t, u \in started : task[t].of = task[u].of => t = u

\* Every run that was begun is paid for in step_runs, although the guard refunds
\* (_dispatch, guard_task).
RunsPaid == Cardinality(started) <= goal.runs

\* A goal that is over leaves nothing behind: once it is stopped or settled and the handler
\* that did it is through, no task of it is queued, running, parked or paused, unless a crash
\* came in between (stop, _interrupt, _refresh_steps, _settle_or_report).
OverIsOver ==
    goal.status \in Settled \cup {"archived"} /\ loop.at # "interrupt" /\ crashes = 0
        => \A t \in Tasks : task[t].status \notin ActiveTask

\* Pausing abandons no turn half way: while the goal is paused, a task whose work has begun
\* is cancelled only by the owner (_interrupt, guard_task).
PauseKeepsWork ==
    [][\A t \in started :
          goal.status = "paused" /\ task[t].status \in ActiveTask /\ task'[t].status = "cancelled"
              => StopTask(t)]_vars

\* A running goal does not stay so for ever: it settles, it pauses, or a run of it waits for
\* the owner (advance, _refresh_steps, _settle_or_report).
GoalMoves ==
    goal.status = "running" ~>
        goal.status # "running" \/ \E t \in Tasks : task[t].status = "waiting"
=============================================================================
