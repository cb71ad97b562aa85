---------------------------- MODULE GoalsProofs ----------------------------
(***************************************************************************)
(* Proofs about Goals, for every plan, profile and number of tasks: types, *)
(* that a step's work begins at most once and is paid for, that evidence   *)
(* is work that was done, and that a pause abandons nothing.               *)
(*                                                                         *)
(* The argument is about the tasks that can still do a step's work: those  *)
(* filed and not claimed, claimed and not reached, or begun.  A step has   *)
(* at most one, a pending step has none, and only FileTask adds one, for a *)
(* step that has none.  Every other step of the system is Tame.            *)
(***************************************************************************)
EXTENDS Goals, FiniteSetTheorems, TLAPS

Potent(t) == t \in started \/ t \in batch \/ task[t].status \in {"queued", "paused"}
NoPotent(s) == \A t \in Tasks : Potent(t) => task[t].of # s
Worked(s) == \E t \in started : task[t].of = s /\ task[t].status = "completed"
PotentTasks == {t \in Tasks : Potent(t)}

TaskInv ==
    \A t \in Tasks :
        /\ task[t].status = "none" => task[t].of = 0
        /\ task[t].status \in {"none", "queued", "paused"} => t \notin started /\ t \notin batch
        /\ t \in batch => t \notin started
        /\ t \in turns \/ task[t].status \in {"waiting", "completed"} => t \in started

OnePotent ==
    \A t, u \in Tasks : Potent(t) /\ Potent(u) /\ task[t].of = task[u].of => t = u

StepInv ==
    \A s \in Steps :
        /\ step[s].task # NoTask => task[step[s].task].of = s
        /\ step[s].state = "pending" => step[s].task = NoTask /\ NoPotent(s)
        /\ step[s].state = "done" => Worked(s)

LoopInv ==
    /\ loop.at = "dispatch" => \A s \in loop.todo : step[s].state = "pending"
    /\ loop.at \in {"file", "link"} =>
          \A s \in loop.todo : First(loop.todo, s) <=> step[s].state # "pending"
    /\ loop.at = "file" => \A s \in loop.todo : NoPotent(s)
    /\ loop.at = "link" =>
          /\ loop.task # NoTask
          /\ \A s \in loop.todo : First(loop.todo, s) => task[loop.task].of = s
    /\ loop.at = "interrupt" /\ loop.act = "cancel" => goal.status = "stopped"

EvidenceInv ==
    /\ goal.status = "completed" => \A c \in Mandatory : evid[c] # "none"
    /\ \A c \in Criteria : evid[c] = "steps" => \A s \in Links[c] : Worked(s)

PaidInv ==
    Cardinality(PotentTasks) + (IF loop.at = "file" THEN 1 ELSE 0) <= goal.runs

GoalsInv ==
    GoalsTypeOK /\ TaskInv /\ OnePotent /\ StepInv /\ LoopInv /\ EvidenceInv /\ PaidInv

----------------------------------------------------------------------------
(***************************************************************************)
(* Types                                                                   *)
(***************************************************************************)
USE StepsAssumption, DepsAssumption, CriteriaAssumption, ProfilesAssumption, TasksAssumption,
    BoundsAssumption

GoalType == [status : GoalStates, pin : Profiles, runs : Nat]
StepType == [Steps -> [state : StepStates, task : Tasks \cup {NoTask}]]
TaskType == [Tasks -> [status : TaskStates, of : Steps \cup {0}]]
EvidType == [Criteria -> {"none", "steps", "owner"}]

\* What writing one task's status does (SetTask).
LEMMA SetTaskFacts ==
    ASSUME task \in TaskType, NEW t \in Tasks, NEW x \in TaskStates, SetTask(t, x)
    PROVE  /\ task' \in TaskType
           /\ task'[t].status = x
           /\ \A u \in Tasks : task'[u].of = task[u].of
           /\ \A u \in Tasks : u # t => task'[u].status = task[u].status
BY DEF SetTask, TaskType

\* Every handler position that the code builds is one (Loop).
LEMMA LoopFacts ==
    ASSUME NEW at \in {"idle", "changed", "pass", "scan", "dispatch", "file", "link", "reread",
                       "settle", "interrupt"},
           NEW todo \in SUBSET Steps, NEW act \in {"none", "pause", "resume", "cancel"},
           NEW t \in Tasks \cup {NoTask}
    PROVE  /\ Loop(at, todo, act, t) \in LoopType
           /\ Loop(at, todo, act, t).at = at /\ Loop(at, todo, act, t).todo = todo
           /\ Loop(at, todo, act, t).act = act /\ Loop(at, todo, act, t).task = t
BY DEF Loop, LoopType

LEMMA SetStatusType ==
    ASSUME goal \in GoalType, NEW x \in GoalStates, SetStatus(x)
    PROVE  goal' \in GoalType /\ goal'.status = x /\ goal'.runs = goal.runs
BY DEF SetStatus, GoalType

LEMMA AutoEvidenceType ==
    ASSUME NEW ev \in EvidType PROVE AutoEvidence(ev) \in EvidType
BY DEF AutoEvidence, EvidType

LEMMA RefreshType ==
    ASSUME step \in StepType, task \in TaskType, Refresh
    PROVE  step' \in StepType
<1>1. \A s \in Steps : Refreshed(s) \in StepStates
  BY DEF Refreshed, StepFromTask, StepType, StepStates, StepSettled
<1> QED BY <1>1 DEF Refresh, StepType

LEMMA TypeInit == Init => GoalsTypeOK
<1> SUFFICES ASSUME Init PROVE GoalsTypeOK
  OBVIOUS
<1>1. goal \in [status : GoalStates, pin : Profiles, runs : Nat]
  BY DEF Init, GoalStates
<1>2. step \in [Steps -> [state : StepStates, task : Tasks \cup {NoTask}]]
  <2>1. [state |-> "pending", task |-> NoTask] \in [state : StepStates, task : Tasks \cup {NoTask}]
    BY DEF StepStates
  <2>2. step = [s \in Steps |-> [state |-> "pending", task |-> NoTask]]
    BY DEF Init
  <2> QED BY <2>1, <2>2
<1>3. task \in [Tasks -> [status : TaskStates, of : Steps \cup {0}]]
  <2>1. "none" \in TaskStates
    BY DEF TaskStates
  <2> QED BY <2>1 DEF Init
<1>4. loop \in LoopType
  BY DEF Init, Idle, Loop, LoopType
<1>5. changes \in 0 .. MaxChanges /\ crashes \in 0 .. MaxCrashes
  BY DEF Init
<1>6. /\ batch \subseteq Tasks /\ turns \subseteq Tasks /\ started \subseteq Tasks
      /\ evid \in [Criteria -> {"none", "steps", "owner"}] /\ profile \in Profiles
  BY DEF Init
<1>7. refused \in BOOLEAN /\ spent \in BOOLEAN /\ aged \in BOOLEAN
  BY Zenon DEF Init
<1> QED BY <1>1, <1>2, <1>3, <1>4, <1>5, <1>6, <1>7 DEF GoalsTypeOK

LEMMA TypeStep == GoalsTypeOK /\ [Next]_vars => GoalsTypeOK'
<1> SUFFICES ASSUME GoalsTypeOK, [Next]_vars PROVE GoalsTypeOK'
  OBVIOUS
<1>0. /\ goal \in GoalType /\ step \in StepType /\ task \in TaskType /\ evid \in EvidType
      /\ batch \subseteq Tasks /\ turns \subseteq Tasks /\ started \subseteq Tasks
      /\ profile \in Profiles /\ refused \in BOOLEAN /\ spent \in BOOLEAN /\ aged \in BOOLEAN
      /\ loop \in LoopType /\ changes \in 0 .. MaxChanges /\ crashes \in 0 .. MaxCrashes
  BY DEF GoalsTypeOK, GoalType, StepType, TaskType, EvidType
<1> SUFFICES /\ goal' \in GoalType /\ step' \in StepType /\ task' \in TaskType
             /\ evid' \in EvidType
             /\ batch' \subseteq Tasks /\ turns' \subseteq Tasks /\ started' \subseteq Tasks
             /\ profile' \in Profiles /\ refused' \in BOOLEAN /\ spent' \in BOOLEAN
             /\ aged' \in BOOLEAN
             /\ loop' \in LoopType /\ changes' \in 0 .. MaxChanges /\ crashes' \in 0 .. MaxCrashes
  BY DEF GoalsTypeOK, GoalType, StepType, TaskType, EvidType
<1>l. /\ Idle \in LoopType /\ Pass \in LoopType
      /\ \A a \in {"pause", "resume", "cancel"} : Interrupts(a) \in LoopType
      /\ \A at \in {"changed", "scan", "settle", "reread"} :
            Loop(at, {}, "none", NoTask) \in LoopType
      /\ \A todo \in SUBSET Steps : NextStep(todo) \in LoopType
  BY DEF Idle, Pass, Interrupts, Loop, LoopType, NextStep
<1>p. ASSUME PauseGoal PROVE goal' \in GoalType /\ loop' \in LoopType
  BY <1>0, <1>l, <1>p, SetStatusType DEF PauseGoal, GoalStates
<1>1. CASE Accept
  BY <1>0, <1>1 DEF Accept, GoalType, GoalStates
<1>2. CASE Start \/ Resume
  BY <1>0, <1>2, <1>l DEF Start, Resume, Begin, GoalType, GoalStates, Active
<1>3. CASE Pause
  BY <1>0, <1>3, <1>p DEF Pause
<1>4. CASE Stop
  <2>1. step' \in StepType
    <3>1. \A s \in Steps :
            (IF step[s].state \in StepSettled THEN step[s].state ELSE "stopped") \in StepStates
      BY DEF StepStates, StepSettled
    <3>2. \A s \in Steps : step[s].task \in Tasks \cup {NoTask}
      BY <1>0 DEF StepType
    <3> QED BY <1>4, <3>1, <3>2 DEF Stop, StepType
  <2>2. goal' \in GoalType
    BY <1>0, <1>4, SetStatusType DEF Stop, GoalStates, Settled
  <2> QED BY <1>0, <1>4, <1>l, <2>1, <2>2 DEF Stop
<1>5. CASE Archive
  BY <1>0, <1>5, SetStatusType DEF Archive, GoalStates
<1>6. ASSUME NEW c \in Criteria, Confirm(c) PROVE GoalsTypeOK'
  <2> DEFINE ev == [evid EXCEPT ![c] = "owner"]
  <2>1. ev \in EvidType /\ AutoEvidence(ev) \in EvidType
    BY <1>0, AutoEvidenceType DEF EvidType
  <2>2. Outcome(AutoEvidence(ev)) \in GoalStates
    BY DEF Outcome, GoalStates, Settled
  <2>3. evid' \in EvidType
    BY <1>6, <2>1 DEF Confirm
  <2>4. goal' \in GoalType
    BY <1>0, <1>6, <2>2, SetStatusType DEF Confirm
  <2> QED BY <1>0, <1>6, <1>l, <2>3, <2>4 DEF Confirm, GoalsTypeOK, GoalType, StepType, TaskType, EvidType
<1>7. CASE SaveProfile \/ ChangeModels
  <2>1. CASE SaveProfile
    BY <1>0, <2>1, <1>l DEF SaveProfile
  <2>2. CASE ChangeModels
    <3>1. refused' \in BOOLEAN /\ changes' \in 0 .. MaxChanges
      BY <1>0, <2>2 DEF ChangeModels
    <3> QED BY <1>0, <2>2, <3>1 DEF ChangeModels
  <2> QED BY <1>7, <2>1, <2>2
<1>8. CASE ProfileChanged
  BY <1>0, <1>8, <1>l, <1>p DEF ProfileChanged
<1>9. CASE Interrupt
  <2>1. PICK s \in Steps :
          /\ First(loop.todo, s)
          /\ IF step[s].task = NoTask THEN UNCHANGED task
             ELSE SetTask(step[s].task, Interrupted(task[step[s].task].status))
          /\ loop' = IF loop.todo # {s} THEN Loop("interrupt", loop.todo \ {s}, loop.act, NoTask)
                     ELSE IF loop.act = "resume" THEN Pass ELSE Idle
    BY <1>9 DEF Interrupt
  <2>2. task' \in TaskType
    <3>1. step[s].task # NoTask => step[s].task \in Tasks
      BY <1>0 DEF StepType
    <3>2. ASSUME step[s].task \in Tasks
          PROVE  Interrupted(task[step[s].task].status) \in TaskStates
      BY <1>0, <3>2 DEF Interrupted, TaskType, TaskStates, ActiveTask
    <3> QED BY <1>0, <2>1, <3>1, <3>2, SetTaskFacts
  <2>3. loop' \in LoopType
    BY <1>0, <1>l, <2>1 DEF Loop, LoopType
  <2> QED BY <1>0, <1>9, <2>2, <2>3 DEF Interrupt
<1>10. CASE Tick
  BY <1>0, <1>10, <1>l DEF Tick
<1>11. CASE PassBegin
  BY <1>0, <1>11, <1>l, <1>p, RefreshType DEF PassBegin
<1>12. CASE Scan
  <2>1. PICK B \in SUBSET Steps :
          LET due == {s \in Steps : /\ step[s].state = "pending"
                                   /\ \A d \in Deps[s] : step[d].state = "done"} IN
          /\ step' = [s \in Steps |-> [state |-> IF s \in B THEN "blocked" ELSE step[s].state,
                                       task |-> step[s].task]]
          /\ \/ /\ due = {}
                /\ loop' = Loop("settle", {}, "none", NoTask)
                /\ UNCHANGED goal
             \/ /\ due # {} /\ refused
                /\ SetStatus("waiting")
                /\ loop' = Idle
             \/ due # {} /\ ~refused /\ Exhausted(goal.pin) /\ PauseGoal
             \/ /\ due # {} /\ ~refused /\ ~Exhausted(goal.pin)
                /\ loop' = Loop("dispatch", due, "none", NoTask)
                /\ UNCHANGED goal
    BY <1>12 DEF Scan
  <2> DEFINE due == {s \in Steps : /\ step[s].state = "pending"
                                   /\ \A d \in Deps[s] : step[d].state = "done"}
  <2>2. step' \in StepType
    <3>1. \A s \in Steps :
            (IF s \in B THEN "blocked" ELSE step[s].state) \in StepStates
      BY <1>0 DEF StepType, StepStates, StepSettled
    <3>2. \A s \in Steps : step[s].task \in Tasks \cup {NoTask}
      BY <1>0 DEF StepType
    <3> QED BY <2>1, <3>1, <3>2 DEF StepType
  <2>3. goal' \in GoalType
    BY <1>0, <2>1, <1>p, SetStatusType DEF GoalStates, Active
  <2>4. Loop("dispatch", due, "none", NoTask) \in LoopType
    <3>1. due \in SUBSET Steps
      OBVIOUS
    <3> HIDE DEF due
    <3> QED BY <3>1 DEF Loop, LoopType
  <2>5. loop' \in LoopType
    <3> HIDE DEF due
    <3> QED BY <2>1, <2>4, <1>l, <1>p DEF due
  <2> QED BY <1>0, <1>12, <2>2, <2>3, <2>5 DEF Scan
<1>13. CASE Dispatch
  <2>1. PICK s \in Steps :
          \/ /\ goal' = [goal EXCEPT !.runs = @ + 1]
             /\ step' = [step EXCEPT ![s] = [state |-> "running", task |-> NoTask]]
             /\ loop' = Loop("file", loop.todo, "none", NoTask)
          \/ /\ loop' = Loop("reread", {}, "none", NoTask)
             /\ UNCHANGED <<goal, step>>
    BY <1>13 DEF Dispatch
  <2>2. goal' \in GoalType
    BY <1>0, <2>1 DEF GoalType
  <2>3. step' \in StepType
    BY <1>0, <2>1 DEF StepType, StepStates
  <2>4. loop' \in LoopType
    BY <1>0, <1>l, <2>1 DEF Loop, LoopType
  <2> QED BY <1>0, <1>13, <2>2, <2>3, <2>4 DEF Dispatch
<1>14. CASE FileTask
  <2>1. PICK s \in Steps, t \in Tasks :
          /\ task' = [task EXCEPT ![t] = [status |-> "queued", of |-> s]]
          /\ loop' = Loop("link", loop.todo, "none", t)
    BY <1>14 DEF FileTask
  <2>2. task' \in TaskType
    BY <1>0, <2>1 DEF TaskType, TaskStates, ActiveTask
  <2>3. loop' \in LoopType
    BY <1>0, <2>1 DEF Loop, LoopType
  <2> QED BY <1>0, <1>14, <2>2, <2>3 DEF FileTask
<1>15. CASE FileRefused
  <2>1. PICK s \in Steps :
          /\ step' = [step EXCEPT ![s] = [state |-> "failed", task |-> step[s].task]]
          /\ loop' = NextStep(loop.todo \ {s})
    BY <1>15 DEF FileRefused
  <2>2. step' \in StepType
    BY <1>0, <2>1 DEF StepType, StepStates, StepSettled
  <2>3. loop' \in LoopType
    BY <1>0, <1>l, <2>1 DEF LoopType
  <2> QED BY <1>0, <1>15, <2>2, <2>3 DEF FileRefused
<1>16. CASE LinkTask
  <2>1. PICK s \in Steps :
          /\ step' = [step EXCEPT ![s] = [state |-> step[s].state, task |-> loop.task]]
          /\ loop' = NextStep(loop.todo \ {s})
    BY <1>16 DEF LinkTask
  <2>2. step' \in StepType
    BY <1>0, <2>1 DEF StepType, LoopType
  <2>3. loop' \in LoopType
    BY <1>0, <1>l, <2>1 DEF LoopType
  <2> QED BY <1>0, <1>16, <2>2, <2>3 DEF LinkTask
<1>17. CASE Reread
  BY <1>0, <1>17, <1>l, RefreshType DEF Reread
<1>18. CASE Settle
  <2>1. evid' \in EvidType
    BY <1>0, <1>18, AutoEvidenceType DEF Settle
  <2>2. Outcome(AutoEvidence(evid)) \in GoalStates
    BY DEF Outcome, GoalStates, Settled
  <2>3. goal' \in GoalType
    BY <1>0, <1>18, <2>2, SetStatusType DEF Settle, GoalStates, Active
  <2> QED BY <1>0, <1>18, <1>l, <2>1, <2>3 DEF Settle
<1>19. CASE Claim
  <2>1. task' \in TaskType
    BY <1>0, <1>19 DEF Claim, TaskType, TaskStates, ActiveTask
  <2>2. batch' \subseteq Tasks
    BY <1>0, <1>19 DEF Claim
  <2> QED BY <1>0, <1>19, <2>1, <2>2 DEF Claim
<1>20. ASSUME NEW t \in Tasks, GuardStops(t) PROVE GoalsTypeOK'
  <2>1. task' \in TaskType
    BY <1>0, <1>20, SetTaskFacts DEF GuardStops, TaskStates
  <2> QED BY <1>0, <1>20, <2>1 DEF GuardStops, Reached, GoalsTypeOK, GoalType, StepType, TaskType, EvidType
<1>21. ASSUME NEW t \in Tasks, GuardRefunds(t) PROVE GoalsTypeOK'
  <2>1. task' \in TaskType
    BY <1>0, <1>21, SetTaskFacts DEF GuardRefunds, TaskStates
  <2>2. step' \in StepType
    <3>1. PICK s \in Steps : step' = [step EXCEPT ![s] = [state |-> "pending", task |-> NoTask]]
      BY <1>21 DEF GuardRefunds
    <3>2. "pending" \in StepStates
      BY DEF StepStates
    <3> QED BY <1>0, <3>1, <3>2 DEF StepType
  <2>3. goal' \in GoalType
    <3> DEFINE left == IF goal.runs = 0 THEN 0 ELSE goal.runs - 1
    <3>1. left \in Nat /\ "waiting" \in GoalStates
      BY <1>0 DEF GoalType, GoalStates, Active
    <3>2. goal' = [goal EXCEPT !.status = "waiting", !.runs = left]
      BY <1>0, <1>21 DEF GuardRefunds, GoalType
    <3> HIDE DEF left
    <3> QED BY <1>0, <3>1, <3>2 DEF GoalType
  <2> QED BY <1>0, <1>21, <2>1, <2>2, <2>3 DEF GuardRefunds, Reached, GoalsTypeOK, GoalType, StepType, TaskType, EvidType
<1>22. ASSUME NEW t \in Tasks, RunTask(t) PROVE GoalsTypeOK'
  BY <1>0, <1>22 DEF RunTask, Reached, GoalsTypeOK, GoalType, StepType, TaskType, EvidType
<1>23. ASSUME NEW t \in Tasks, NEW o \in {"completed", "failed", "waiting"}, TurnEnds(t, o)
       PROVE  GoalsTypeOK'
  <2>1. task' \in TaskType
    <3>1. (IF task[t].status = "running" THEN o ELSE task[t].status) \in TaskStates
      BY <1>0 DEF TaskType, TaskStates, ActiveTask
    <3> QED BY <1>0, <1>23, <3>1, SetTaskFacts DEF TurnEnds
  <2> QED BY <1>0, <1>23, <2>1 DEF TurnEnds, GoalsTypeOK, GoalType, StepType, TaskType, EvidType
<1>24. ASSUME NEW t \in Tasks, Continue(t) \/ StopTask(t) PROVE GoalsTypeOK'
  <2>1. task' \in TaskType
    BY <1>0, <1>24, SetTaskFacts DEF Continue, StopTask, TaskStates, ActiveTask
  <2> QED BY <1>0, <1>24, <2>1 DEF Continue, StopTask, GoalsTypeOK, GoalType, StepType, TaskType, EvidType
<1>25. CASE SpendReached \/ TimePasses
  BY <1>0, <1>25 DEF SpendReached, TimePasses
<1>26. CASE Crash
  <2>1. task' \in TaskType
    BY <1>0, <1>26 DEF Crash, TaskType, TaskStates
  <2>2. crashes' \in 0 .. MaxCrashes
    BY <1>0, <1>26 DEF Crash
  <2>3. aged' \in BOOLEAN /\ batch' \subseteq Tasks /\ turns' \subseteq Tasks
    BY <1>26, Zenon DEF Crash
  <2> QED BY <1>0, <1>26, <2>1, <2>2, <2>3, <1>l DEF Crash
<1>27. CASE UNCHANGED vars
  BY <1>0, <1>27 DEF vars
<1> QED
  BY <1>1, <1>2, <1>3, <1>4, <1>5, <1>6, <1>7, <1>8, <1>9, <1>10, <1>11, <1>12, <1>13, <1>14,
     <1>15, <1>16, <1>17, <1>18, <1>19, <1>20, <1>21, <1>22, <1>23, <1>24, <1>25, <1>26, <1>27
  DEF Next, Owner, Handler, Run, Ends, GoalsTypeOK, GoalType, StepType, TaskType, EvidType

\* The rows of a goal, its steps and their tasks keep the values their columns know, for any
\* plan, profile and number of tasks (goals/lifecycle.py, goals/store.py).
THEOREM GoalsTypeCorrect == Spec => []GoalsTypeOK
BY TypeInit, TypeStep, PTL DEF Spec

----------------------------------------------------------------------------
(***************************************************************************)
(* Tasks                                                                   *)
(***************************************************************************)
\* A step that adds no task that can do a step's work, and loses no finished one.
Tame ==
    /\ started \subseteq started'
    /\ \A t \in Tasks :
          /\ task'[t].of = task[t].of
          /\ Potent(t)' => Potent(t)
          /\ task[t].status = "completed" => task'[t].status = "completed"

\* The steps that leave the tasks and the scheduler alone.
Quiet == UNCHANGED <<task, batch, turns, started>>

LEMMA NextCases ==
    ASSUME [Next]_vars
    PROVE  \/ Quiet \/ Interrupt \/ Claim \/ Crash \/ FileTask
           \/ \E t \in Tasks : \/ GuardStops(t) \/ GuardRefunds(t) \/ RunTask(t)
                               \/ Ends(t) \/ Continue(t) \/ StopTask(t)
BY DEF Quiet, Next, Owner, Handler, Run, vars, Accept, Start, Resume, Begin, Pause, Stop, Archive,
       Confirm, SaveProfile, ChangeModels, ProfileChanged, PassBegin, Scan, Dispatch, FileRefused,
       LinkTask, Reread, Settle, Tick, SpendReached, TimePasses

\* Every action but FileTask is tame (guard_task, claim_due_tasks, _interrupt).
LEMMA TaskStep ==
    ASSUME GoalsTypeOK, TaskInv, [Next]_vars
    PROVE  TaskInv' /\ (FileTask \/ Tame)
<1>0. /\ task \in TaskType /\ step \in StepType /\ loop \in LoopType
      /\ batch \subseteq Tasks /\ turns \subseteq Tasks /\ started \subseteq Tasks
  BY DEF GoalsTypeOK, TaskType, StepType
<1>1. CASE Quiet
  BY <1>1 DEF Quiet, TaskInv, Tame, Potent
<1>2. CASE Interrupt
  <2>1. PICK s \in Steps :
          IF step[s].task = NoTask THEN UNCHANGED task
          ELSE SetTask(step[s].task, Interrupted(task[step[s].task].status))
    BY <1>2 DEF Interrupt
  <2>2. UNCHANGED <<batch, turns, started>>
    BY <1>2 DEF Interrupt
  <2>3. CASE step[s].task = NoTask
    BY <2>1, <2>2, <2>3 DEF TaskInv, Tame, Potent
  <2>4. CASE step[s].task # NoTask
    <3> DEFINE u == step[s].task
               x == Interrupted(task[u].status)
    <3>1. u \in Tasks
      BY <1>0, <2>4 DEF StepType
    <3>2. /\ task[u].status \in TaskStates
          /\ x \in TaskStates
          /\ x # task[u].status =>
                \/ x = "cancelled" /\ task[u].status \in ActiveTask
                \/ x \in {"queued", "paused"} /\ task[u].status \in {"queued", "paused"}
      BY <1>0, <3>1 DEF Interrupted, TaskType, TaskStates, ActiveTask
    <3>3. SetTask(u, x)
      BY <2>1, <2>4
    <3> HIDE DEF u, x
    <3>4. /\ task'[u].status = x
          /\ \A v \in Tasks : task'[v].of = task[v].of
          /\ \A v \in Tasks : v # u => task'[v].status = task[v].status
      BY <1>0, <3>1, <3>2, <3>3, SetTaskFacts
    <3> QED BY <2>2, <3>1, <3>2, <3>4 DEF TaskInv, Tame, Potent, ActiveTask
  <2> QED BY <2>3, <2>4
<1>3. CASE Claim
  <2>1. \A t \in Tasks :
           /\ task'[t].of = task[t].of
           /\ task'[t].status = IF task[t].status = "queued" THEN "running" ELSE task[t].status
    BY <1>3 DEF Claim
  <2>2. batch' = batch \cup {t \in Tasks : task[t].status = "queued"}
    BY <1>3 DEF Claim
  <2>3. UNCHANGED <<turns, started>>
    BY <1>3 DEF Claim
  <2> QED BY <2>1, <2>2, <2>3 DEF TaskInv, Tame, Potent
<1>4. CASE Crash
  <2>1. \A t \in Tasks :
           /\ task'[t].of = task[t].of
           /\ task'[t].status = IF task[t].status = "running" THEN "failed" ELSE task[t].status
    BY <1>4 DEF Crash
  <2>2. batch' = {} /\ turns' = {} /\ started' = started
    BY <1>4 DEF Crash
  <2> QED BY <2>1, <2>2 DEF TaskInv, Tame, Potent
<1>5. CASE FileTask
  <2>1. PICK s \in Steps, t \in Tasks :
          /\ task[t].status = "none"
          /\ task' = [task EXCEPT ![t] = [status |-> "queued", of |-> s]]
    BY <1>5 DEF FileTask, First
  <2>2. /\ task'[t].status = "queued"
        /\ \A u \in Tasks : u # t => task'[u] = task[u]
    BY <1>0, <2>1 DEF TaskType
  <2>3. UNCHANGED <<batch, turns, started>>
    BY <1>5 DEF FileTask
  <2> QED BY <1>5, <2>1, <2>2, <2>3 DEF TaskInv
<1>6. ASSUME NEW t \in Tasks, GuardStops(t) \/ GuardRefunds(t) PROVE TaskInv' /\ Tame
  <2>1. /\ t \in batch /\ batch' = batch \ {t} /\ SetTask(t, "cancelled")
        /\ UNCHANGED <<turns, started>>
    BY <1>6 DEF GuardStops, GuardRefunds, Reached
  <2>2. /\ task'[t].status = "cancelled"
        /\ \A v \in Tasks : task'[v].of = task[v].of
        /\ \A v \in Tasks : v # t => task'[v].status = task[v].status
    BY <1>0, <2>1, SetTaskFacts DEF TaskStates
  <2> QED BY <2>1, <2>2 DEF TaskInv, Tame, Potent
<1>7. ASSUME NEW t \in Tasks, RunTask(t) PROVE TaskInv' /\ Tame
  <2>1. /\ t \in batch /\ batch' = batch \ {t} /\ turns' = turns \cup {t}
        /\ started' = started \cup {t} /\ UNCHANGED task
    BY <1>7 DEF RunTask, Reached
  <2> QED BY <2>1 DEF TaskInv, Tame, Potent
<1>8. ASSUME NEW t \in Tasks, Ends(t) PROVE TaskInv' /\ Tame
  <2>1. PICK o \in {"completed", "failed", "waiting"} : TurnEnds(t, o)
    BY <1>8 DEF Ends
  <2> DEFINE x == IF task[t].status = "running" THEN o ELSE task[t].status
  <2>2. /\ t \in turns /\ turns' = turns \ {t} /\ SetTask(t, x)
        /\ UNCHANGED <<batch, started>>
    BY <2>1 DEF TurnEnds
  <2>3. /\ x \in TaskStates
        /\ x # task[t].status => /\ task[t].status = "running"
                                 /\ x \in {"completed", "failed", "waiting"}
    BY <1>0 DEF TaskType, TaskStates, ActiveTask
  <2> HIDE DEF x
  <2>4. /\ task'[t].status = x
        /\ \A v \in Tasks : task'[v].of = task[v].of
        /\ \A v \in Tasks : v # t => task'[v].status = task[v].status
    BY <1>0, <2>2, <2>3, SetTaskFacts
  <2> QED BY <2>2, <2>3, <2>4 DEF TaskInv, Tame, Potent
<1>9. ASSUME NEW t \in Tasks, Continue(t) PROVE TaskInv' /\ Tame
  <2>1. /\ task[t].status = "waiting" /\ SetTask(t, "running") /\ turns' = turns \cup {t}
        /\ UNCHANGED <<batch, started>>
    BY <1>9 DEF Continue
  <2>2. /\ task'[t].status = "running"
        /\ \A v \in Tasks : task'[v].of = task[v].of
        /\ \A v \in Tasks : v # t => task'[v].status = task[v].status
    BY <1>0, <2>1, SetTaskFacts DEF TaskStates, ActiveTask
  <2> QED BY <2>1, <2>2 DEF TaskInv, Tame, Potent
<1>10. ASSUME NEW t \in Tasks, StopTask(t) PROVE TaskInv' /\ Tame
  <2>1. /\ task[t].status \in ActiveTask /\ SetTask(t, "cancelled")
        /\ UNCHANGED <<batch, turns, started>>
    BY <1>10 DEF StopTask
  <2>2. /\ task'[t].status = "cancelled"
        /\ \A v \in Tasks : task'[v].of = task[v].of
        /\ \A v \in Tasks : v # t => task'[v].status = task[v].status
    BY <1>0, <2>1, SetTaskFacts DEF TaskStates
  <2> QED BY <2>1, <2>2 DEF TaskInv, Tame, Potent, ActiveTask
<1> QED BY <1>1, <1>2, <1>3, <1>4, <1>5, <1>6, <1>7, <1>8, <1>9, <1>10, NextCases

\* What a tame step cannot do.
LEMMA TameKeeps ==
    ASSUME GoalsTypeOK, Tame
    PROVE  /\ \A s \in Steps : NoPotent(s) => NoPotent(s)'
           /\ \A s \in Steps : Worked(s) => Worked(s)'
           /\ OnePotent => OnePotent'
           /\ PotentTasks' \subseteq PotentTasks
<1>1. started \subseteq Tasks
  BY DEF GoalsTypeOK
<1>2. \A s \in Steps : NoPotent(s) => NoPotent(s)'
  BY DEF NoPotent, Tame
<1>3. \A s \in Steps : Worked(s) => Worked(s)'
  BY <1>1 DEF Worked, Tame
<1>4. OnePotent => OnePotent'
  BY DEF OnePotent, Tame
<1>5. PotentTasks' \subseteq PotentTasks
  BY DEF PotentTasks, Tame
<1> QED BY <1>2, <1>3, <1>4, <1>5

\* FileTask adds one task, for the step it was called for.
LEMMA FileTaskFacts ==
    ASSUME GoalsTypeOK, TaskInv, FileTask
    PROVE  \E s \in Steps, t \in Tasks :
              /\ First(loop.todo, s)
              /\ loop.at = "file" /\ loop' = Loop("link", loop.todo, "none", t)
              /\ task[t].status = "none" /\ task[t].of = 0
              /\ task'[t].of = s /\ t \notin started
              /\ \A u \in Tasks : u # t => task'[u] = task[u] /\ Potent(u)' = Potent(u)
              /\ UNCHANGED <<goal, step, batch, turns, started, evid>>
<1>1. task \in TaskType
  BY DEF GoalsTypeOK, TaskType
<1>2. PICK s \in Steps, t \in Tasks :
        /\ First(loop.todo, s) /\ task[t].status = "none"
        /\ task' = [task EXCEPT ![t] = [status |-> "queued", of |-> s]]
        /\ loop' = Loop("link", loop.todo, "none", t)
  BY DEF FileTask, First
<1>3. task'[t].of = s /\ \A u \in Tasks : u # t => task'[u] = task[u]
  BY <1>1, <1>2 DEF TaskType
<1>4. loop.at = "file" /\ UNCHANGED <<goal, step, batch, turns, started, evid>>
  BY DEF FileTask
<1>5. \A u \in Tasks : u # t => Potent(u)' = Potent(u)
  BY <1>3, <1>4 DEF Potent
<1> QED BY <1>2, <1>3, <1>4, <1>5 DEF TaskInv

----------------------------------------------------------------------------
(***************************************************************************)
(* The invariant                                                           *)
(***************************************************************************)
LEMMA FirstUnique ==
    ASSUME NEW S \in SUBSET Steps, NEW s \in Steps, NEW q \in Steps, First(S, s), First(S, q)
    PROVE  s = q
BY DEF First

LEMMA OnePotentStep ==
    ASSUME GoalsInv, [Next]_vars PROVE OnePotent'
<1>1. CASE Tame
  BY <1>1, TameKeeps DEF GoalsInv
<1>2. CASE FileTask
  <2>1. PICK s \in Steps, t \in Tasks :
          /\ First(loop.todo, s) /\ loop.at = "file" /\ task'[t].of = s
          /\ \A u \in Tasks : u # t => task'[u] = task[u] /\ Potent(u)' = Potent(u)
    BY <1>2, FileTaskFacts DEF GoalsInv
  <2>2. \A u \in Tasks : Potent(u) => task[u].of # s
    BY <2>1 DEF GoalsInv, LoopInv, NoPotent, First
  <2>3. ASSUME NEW u \in Tasks, NEW v \in Tasks,
               Potent(u)', Potent(v)', task'[u].of = task'[v].of
        PROVE  u = v
    BY <2>1, <2>2, <2>3 DEF GoalsInv, OnePotent
  <2> QED BY <2>3 DEF OnePotent
<1> QED BY <1>1, <1>2, TaskStep DEF GoalsInv

\* A finished run stays finished, whatever happens.
LEMMA WorkedStep ==
    ASSUME GoalsInv, [Next]_vars, NEW s \in Steps, Worked(s) PROVE Worked(s)'
<1>1. CASE Tame
  BY <1>1, TameKeeps DEF GoalsInv
<1>2. CASE FileTask
  <2>1. started \subseteq Tasks
    BY DEF GoalsInv, GoalsTypeOK
  <2>2. PICK t \in Tasks : /\ t \notin started /\ started' = started
                           /\ \A u \in Tasks : u # t => task'[u] = task[u]
    BY <1>2, FileTaskFacts DEF GoalsInv
  <2> QED BY <2>1, <2>2 DEF Worked
<1> QED BY <1>1, <1>2, TaskStep DEF GoalsInv

\* The steps of the system that leave the steps of the plan alone, or say what they do to them.
LEMMA StepCases ==
    ASSUME [Next]_vars
    PROVE  \/ UNCHANGED step
           \/ Quiet /\ (Stop \/ PassBegin \/ Scan \/ Dispatch \/ FileRefused \/ LinkTask \/ Reread)
           \/ \E t \in Tasks : GuardRefunds(t)
BY DEF Quiet, Next, Owner, Handler, Run, Ends, vars, Accept, Start, Resume, Begin, Pause, Stop,
       Archive, Confirm, SaveProfile, ChangeModels, ProfileChanged, PassBegin, Scan, Dispatch,
       FileTask, FileRefused, LinkTask, Reread, Settle, Tick, SpendReached, TimePasses, Interrupt,
       Claim, Crash, GuardStops, RunTask, TurnEnds, Continue, StopTask

\* Reading the tasks back makes no step pending and no step done that is not.
LEMMA RefreshFacts ==
    ASSUME GoalsInv, Refresh, NEW s \in Steps
    PROVE  /\ step'[s].task = step[s].task
           /\ step'[s].state = "pending" => step[s].state = "pending"
           /\ step'[s].state = "done" => Worked(s)
<1>0. step \in StepType /\ task \in TaskType
  BY DEF GoalsInv, GoalsTypeOK, StepType, TaskType
<1>1. step'[s].task = step[s].task /\ step'[s].state = Refreshed(s)
  BY DEF Refresh
<1>2. CASE step[s].state \in StepSettled
  BY <1>1, <1>2 DEF Refreshed, StepSettled, GoalsInv, StepInv
<1>3. CASE step[s].state \notin StepSettled /\ step[s].task # NoTask
  <2> DEFINE t == step[s].task
  <2>1. t \in Tasks /\ task[t].of = s
    BY <1>0, <1>3 DEF StepType, GoalsInv, StepInv
  <2>2. step'[s].state = StepFromTask(task[t].status)
    BY <1>1, <1>3 DEF Refreshed
  <2>3. /\ StepFromTask(task[t].status) # "pending"
        /\ StepFromTask(task[t].status) = "done" => task[t].status = "completed"
    BY <1>0, <2>1 DEF StepFromTask
  <2>4. task[t].status = "completed" => t \in started
    BY <2>1 DEF GoalsInv, TaskInv
  <2> HIDE DEF t
  <2> QED BY <1>1, <2>1, <2>2, <2>3, <2>4 DEF Worked
<1>4. CASE step[s].state \notin StepSettled /\ step[s].task = NoTask
  BY <1>1, <1>4 DEF Refreshed, StepSettled
<1> QED BY <1>2, <1>3, <1>4

LEMMA StepInvStep ==
    ASSUME GoalsInv, [Next]_vars PROVE StepInv'
<1>0. /\ step \in StepType /\ task \in TaskType /\ loop \in LoopType /\ started \subseteq Tasks
  BY DEF GoalsInv, GoalsTypeOK, StepType, TaskType
<1>q. ASSUME Quiet
      PROVE  /\ task' = task
             /\ \A s \in Steps : NoPotent(s)' = NoPotent(s) /\ Worked(s)' = Worked(s)
  BY <1>q DEF Quiet, NoPotent, Potent, Worked
<1>1. CASE UNCHANGED step /\ Tame
  <2>1. \A s \in Steps : step[s].task # NoTask => step[s].task \in Tasks
    BY <1>0 DEF StepType
  <2>2. \A s \in Steps : (NoPotent(s) => NoPotent(s)') /\ (Worked(s) => Worked(s)')
    BY <1>1, TameKeeps DEF GoalsInv
  <2> QED BY <1>1, <2>1, <2>2 DEF GoalsInv, StepInv, Tame
<1>2. CASE FileTask
  <2>1. PICK s \in Steps, t \in Tasks :
          /\ First(loop.todo, s) /\ loop.at = "file"
          /\ task[t].of = 0 /\ task'[t].of = s
          /\ \A u \in Tasks : u # t => task'[u] = task[u] /\ Potent(u)' = Potent(u)
          /\ UNCHANGED <<step, started>>
    BY <1>2, FileTaskFacts DEF GoalsInv
  <2>2. step[s].state # "pending"
    BY <2>1 DEF GoalsInv, LoopInv, First
  <2>3. ASSUME NEW q \in Steps
        PROVE  /\ step[q].task # NoTask => task'[step[q].task].of = q
               /\ step[q].state = "pending" => step[q].task = NoTask /\ NoPotent(q)'
               /\ step[q].state = "done" => Worked(q)'
    <3>1. step[q].task # NoTask => step[q].task \in Tasks /\ task[step[q].task].of = q
      BY <1>0 DEF StepType, GoalsInv, StepInv
    <3>2. step[q].task # t
      BY <2>1, <3>1
    <3>3. step[q].state = "pending" => step[q].task = NoTask /\ NoPotent(q)'
      BY <2>1, <2>2 DEF GoalsInv, StepInv, NoPotent
    <3>4. step[q].state = "done" => Worked(q)'
      BY WorkedStep DEF GoalsInv, StepInv
    <3> QED BY <2>1, <3>1, <3>2, <3>3, <3>4
  <2> QED BY <2>1, <2>3 DEF StepInv
<1>3. CASE Quiet /\ Stop
  <2>1. \A s \in Steps :
          /\ step'[s].task = step[s].task
          /\ step'[s].state = IF step[s].state \in StepSettled THEN step[s].state ELSE "stopped"
    BY <1>3 DEF Stop
  <2> QED BY <1>3, <1>q, <2>1 DEF GoalsInv, StepInv, StepSettled
<1>4. CASE Quiet /\ (PassBegin \/ Reread)
  <2>1. CASE Refresh
    BY <1>4, <1>q, <2>1, RefreshFacts DEF GoalsInv, StepInv
  <2>2. CASE UNCHANGED step
    BY <1>4, <1>q, <2>2 DEF GoalsInv, StepInv
  <2> QED BY <1>4, <2>1, <2>2 DEF PassBegin, Reread
<1>5. CASE Quiet /\ Scan
  <2>1. PICK B \in SUBSET Steps :
          step' = [s \in Steps |-> [state |-> IF s \in B THEN "blocked" ELSE step[s].state,
                                    task |-> step[s].task]]
    BY <1>5, Zenon DEF Scan
  <2>2. \A s \in Steps :
          /\ step'[s].task = step[s].task
          /\ step'[s].state = IF s \in B THEN "blocked" ELSE step[s].state
    BY <2>1
  <2> QED BY <1>5, <1>q, <2>2 DEF GoalsInv, StepInv
<1>6. CASE Quiet /\ Dispatch
  <2>1. CASE UNCHANGED step
    BY <1>6, <1>q, <2>1 DEF GoalsInv, StepInv
  <2>2. CASE \E s \in Steps :
               step' = [step EXCEPT ![s] = [state |-> "running", task |-> NoTask]]
    <3>1. PICK s \in Steps :
            step' = [step EXCEPT ![s] = [state |-> "running", task |-> NoTask]]
      BY <2>2
    <3>2. /\ step'[s].state = "running" /\ step'[s].task = NoTask
          /\ \A q \in Steps : q # s => step'[q] = step[q]
      BY <1>0, <3>1 DEF StepType
    <3> QED BY <1>6, <1>q, <3>2 DEF GoalsInv, StepInv
  <2> QED BY <1>6, <2>1, <2>2 DEF Dispatch
<1>7. CASE Quiet /\ FileRefused
  <2>1. PICK s \in Steps :
          step' = [step EXCEPT ![s] = [state |-> "failed", task |-> step[s].task]]
    BY <1>7 DEF FileRefused
  <2> QED BY <1>0, <1>7, <1>q, <2>1 DEF GoalsInv, StepInv, StepType
<1>8. CASE Quiet /\ LinkTask
  <2>1. PICK s \in Steps :
          /\ First(loop.todo, s) /\ loop.at = "link"
          /\ step' = [step EXCEPT ![s] = [state |-> step[s].state, task |-> loop.task]]
    BY <1>8 DEF LinkTask
  <2>2. task[loop.task].of = s /\ step[s].state # "pending"
    BY <2>1 DEF GoalsInv, LoopInv, First
  <2> QED BY <1>0, <1>8, <1>q, <2>1, <2>2 DEF GoalsInv, StepInv, StepType
<1>9. ASSUME NEW t \in Tasks, GuardRefunds(t) PROVE StepInv'
  <2>1. PICK s \in Steps :
          /\ step[s].task = t
          /\ step' = [step EXCEPT ![s] = [state |-> "pending", task |-> NoTask]]
    BY <1>9 DEF GuardRefunds, Linked
  <2>2. ~FileTask
    BY <1>9 DEF GuardRefunds, Reached, FileTask, Idle, Loop
  <2>3. Tame
    BY <2>2, TaskStep DEF GoalsInv
  <2>4. /\ t \in batch /\ t \notin started /\ batch' = batch \ {t} /\ started' = started
        /\ SetTask(t, "cancelled")
    BY <1>9 DEF GuardRefunds, Reached, GoalsInv, TaskInv
  <2>5. ~Potent(t)'
    <3>1. task'[t].status = "cancelled"
      BY <1>0, <2>4, SetTaskFacts DEF TaskStates
    <3> QED BY <2>4, <3>1 DEF Potent
  <2>6. task[t].of = s /\ Potent(t)
    BY <2>1, <2>4 DEF GoalsInv, StepInv, Potent, NoTask
  <2>7. NoPotent(s)'
    BY <2>3, <2>5, <2>6 DEF NoPotent, Tame, GoalsInv, OnePotent
  <2>8. \A q \in Steps : (NoPotent(q) => NoPotent(q)') /\ (Worked(q) => Worked(q)')
    BY <2>3, TameKeeps DEF GoalsInv
  <2>9. \A q \in Steps : q # s => step'[q] = step[q]
    BY <1>0, <2>1 DEF StepType
  <2>10. step'[s].state = "pending" /\ step'[s].task = NoTask
    BY <1>0, <2>1 DEF StepType
  <2>11. \A q \in Steps : step[q].task # NoTask => step[q].task \in Tasks
    BY <1>0 DEF StepType
  <2>12. \A u \in Tasks : task'[u].of = task[u].of
    BY <2>3 DEF Tame
  <2>13. StepInv
    BY DEF GoalsInv
  <2> QED BY <2>7, <2>8, <2>9, <2>10, <2>11, <2>12, <2>13 DEF StepInv
<1>10. FileTask \/ Tame
  BY TaskStep DEF GoalsInv
<1> QED BY <1>1, <1>2, <1>3, <1>4, <1>5, <1>6, <1>7, <1>8, <1>9, <1>10, StepCases

\* A handler that is not walking the steps, or only pauses or resumes them, holds nothing.
LEMMA LoopAtRest ==
    ASSUME \/ loop'.at \notin {"dispatch", "file", "link", "interrupt"}
           \/ loop'.at = "interrupt" /\ loop'.act # "cancel"
    PROVE  LoopInv'
BY DEF LoopInv

\* The steps of the system after which the handler is at rest, or where it was.
LEMMA LoopCases ==
    ASSUME [Next]_vars
    PROVE  \/ loop' = Idle \/ loop' = Pass \/ UNCHANGED <<loop, goal, step>>
           \/ loop' = Interrupts("pause") \/ loop' = Interrupts("resume")
           \/ \E at \in {"changed", "scan", "settle", "reread"} :
                 loop' = Loop(at, {}, "none", NoTask)
           \/ Stop \/ Interrupt \/ Scan \/ Dispatch \/ FileTask \/ FileRefused \/ LinkTask
<1>1. ASSUME Owner PROVE loop' = Idle \/ loop' = Pass \/ loop' = Interrupts("pause")
                         \/ loop' = Interrupts("resume") \/ Stop
                         \/ loop' = Loop("changed", {}, "none", NoTask)
  BY <1>1 DEF Owner, Accept, Start, Resume, Begin, Pause, PauseGoal, Archive, Confirm, SaveProfile,
              ChangeModels
<1>2. ASSUME ProfileChanged \/ PassBegin \/ Reread \/ Settle
      PROVE  loop' = Idle \/ loop' = Interrupts("pause") \/ loop' = Loop("scan", {}, "none", NoTask)
             \/ loop' = Loop("settle", {}, "none", NoTask)
  BY <1>2 DEF ProfileChanged, PassBegin, Reread, Settle, PauseGoal
<1>3. ASSUME Tick \/ Claim \/ Crash PROVE loop' = Idle \/ loop' = Pass
  BY <1>3 DEF Tick, Claim, Crash
<1>4. ASSUME SpendReached \/ TimePasses \/ UNCHANGED vars PROVE UNCHANGED <<loop, goal, step>>
  BY <1>4 DEF SpendReached, TimePasses, vars
<1>5. ASSUME NEW t \in Tasks, Run(t) \/ Ends(t) \/ Continue(t) \/ StopTask(t)
      PROVE  loop' = Idle \/ UNCHANGED <<loop, goal, step>>
  BY <1>5 DEF Run, GuardStops, GuardRefunds, RunTask, Reached, Ends, TurnEnds, Continue, StopTask
<1> QED BY <1>1, <1>2, <1>3, <1>4, <1>5 DEF Next, Handler

LEMMA LoopInvStep ==
    ASSUME GoalsInv, [Next]_vars PROVE LoopInv'
<1>0. /\ step \in StepType /\ task \in TaskType /\ loop \in LoopType /\ loop.todo \subseteq Steps
  BY DEF GoalsInv, GoalsTypeOK, StepType, TaskType, LoopType
<1>q. ASSUME Quiet PROVE task' = task /\ \A s \in Steps : NoPotent(s)' = NoPotent(s)
  BY <1>q DEF Quiet, NoPotent, Potent
<1>n. ASSUME NEW s \in Steps, First(loop.todo, s), loop' = NextStep(loop.todo \ {s}),
             loop.at \in {"file", "link"}, \A q \in Steps : q # s => step'[q] = step[q]
      PROVE  LoopInv'
  <2>1. \A q \in loop.todo \ {s} : step[q].state = "pending"
    BY <1>0, <1>n, FirstUnique DEF GoalsInv, LoopInv
  <2>2. loop'.at = "dispatch" => loop'.todo = loop.todo \ {s}
    BY <1>n DEF NextStep, Loop
  <2>3. loop'.at \in {"dispatch", "reread"}
    BY <1>n DEF NextStep, Loop
  <2> QED BY <1>0, <1>n, <2>1, <2>2, <2>3 DEF LoopInv
<1>1. CASE loop' = Idle \/ loop' = Pass \/ loop' = Interrupts("pause")
           \/ loop' = Interrupts("resume")
           \/ \E at \in {"changed", "scan", "settle", "reread"} :
                 loop' = Loop(at, {}, "none", NoTask)
  BY <1>1, LoopAtRest DEF Idle, Pass, Interrupts, Loop
<1>2. CASE UNCHANGED <<loop, goal, step>> /\ Tame
  <2>1. \A s \in loop.todo : NoPotent(s) => NoPotent(s)'
    BY <1>0, <1>2, TameKeeps DEF GoalsInv
  <2>2. loop.at = "link" => \A s \in loop.todo :
           First(loop.todo, s) => task'[loop.task].of = s
    <3>1. ASSUME loop.at = "link", NEW s \in loop.todo, First(loop.todo, s)
          PROVE  task'[loop.task].of = s
      <4>1. loop.task # NoTask
        BY <3>1 DEF GoalsInv, LoopInv
      <4>2. loop.task \in Tasks
        BY <1>0, <4>1 DEF LoopType
      <4> QED BY <1>2, <3>1, <4>2 DEF Tame, GoalsInv, LoopInv
    <3> QED BY <3>1
  <2> QED BY <1>2, <2>1, <2>2 DEF GoalsInv, LoopInv
<1>3. CASE Stop
  <2>1. goal'.status = "stopped" /\ loop'.at = "interrupt"
    <3>1. goal \in GoalType
      BY DEF GoalsInv, GoalsTypeOK, GoalType
    <3> QED BY <1>3, <3>1 DEF Stop, SetStatus, GoalType, Interrupts, Loop
  <2> QED BY <2>1 DEF LoopInv
<1>4. CASE Interrupt
  <2>1. /\ goal' = goal /\ loop.at = "interrupt"
        /\ \/ loop'.at = "interrupt" /\ loop'.act = loop.act
           \/ loop'.at \in {"idle", "pass"}
    BY <1>4 DEF Interrupt, Loop, Pass, Idle
  <2> QED BY <2>1 DEF GoalsInv, LoopInv
<1>5. CASE Scan
  <2> DEFINE due == {s \in Steps : /\ step[s].state = "pending"
                                   /\ \A d \in Deps[s] : step[d].state = "done"}
  <2>1. PICK B \in SUBSET Steps :
          /\ Blocked(B)
          /\ step' = [s \in Steps |-> [state |-> IF s \in B THEN "blocked" ELSE step[s].state,
                                       task |-> step[s].task]]
          /\ \/ loop' = Loop("settle", {}, "none", NoTask) \/ loop' = Idle
             \/ loop' = Interrupts("pause") \/ loop' = Loop("dispatch", due, "none", NoTask)
    BY <1>5, Zenon DEF Scan, PauseGoal
  <2>2. \A s \in due : s \notin B
    <3>1. ASSUME NEW s \in due, s \in B PROVE FALSE
      <4>0. Deps[s] \cap (B \cup Unfinished) # {}
        <5> DEFINE S == {q \in Steps : step[q].state = "pending" /\ Deps[q] \cap (B \cup Unfinished) # {}}
        <5>1. Blocked(B)
          BY <2>1
        <5>2. B = S
          BY <5>1 DEF Blocked
        <5>3. s \in B
          BY <3>1
        <5> HIDE DEF due
        <5> QED BY <5>2, <5>3
      <4>1. PICK d \in Deps[s] : d \in B \/ d \in Unfinished
        BY <4>0, Zenon
      <4>2. step[d].state = "done"
        BY <3>1
      <4>3. d \in B => step[d].state = "pending"
        BY <2>1 DEF Blocked
      <4>4. d \in Unfinished => step[d].state # "done"
        BY DEF Unfinished
      <4> QED BY <4>1, <4>2, <4>3, <4>4
    <3> QED BY <3>1
  <2>3. \A s \in due : step'[s].state = "pending"
    BY <2>1, <2>2
  <2>4. CASE loop' = Loop("dispatch", due, "none", NoTask)
    <3>1. loop'.at = "dispatch" /\ loop'.todo = due
      BY <2>4 DEF Loop
    <3> HIDE DEF due
    <3> QED BY <2>3, <3>1 DEF LoopInv
  <2> HIDE DEF due
  <2> QED BY <2>1, <2>4, LoopAtRest DEF Idle, Interrupts, Loop
<1>6. CASE Dispatch
  <2>1. CASE loop' = Loop("reread", {}, "none", NoTask)
    BY <2>1, <1>1
  <2>2. CASE \E s \in Steps :
               /\ First(loop.todo, s)
               /\ step' = [step EXCEPT ![s] = [state |-> "running", task |-> NoTask]]
               /\ loop' = Loop("file", loop.todo, "none", NoTask)
    <3>1. PICK s \in Steps :
            /\ First(loop.todo, s)
            /\ step' = [step EXCEPT ![s] = [state |-> "running", task |-> NoTask]]
            /\ loop' = Loop("file", loop.todo, "none", NoTask)
      BY <2>2
    <3>2. /\ step'[s].state = "running"
          /\ \A q \in Steps : q # s => step'[q] = step[q]
      BY <1>0, <3>1 DEF StepType
    <3>3. loop'.at = "file" /\ loop'.todo = loop.todo
      BY <3>1 DEF Loop
    <3>4. \A q \in loop.todo : step[q].state = "pending"
      BY <1>6 DEF Dispatch, GoalsInv, LoopInv
    <3>5. \A q \in loop.todo : NoPotent(q)'
      BY <1>0, <1>6, <1>q, <3>4 DEF Dispatch, Quiet, GoalsInv, StepInv
    <3>6. \A q \in loop.todo : First(loop.todo, q) <=> q = s
      BY <1>0, <3>1, FirstUnique
    <3>7. \A q \in loop.todo : First(loop.todo, q) <=> step'[q].state # "pending"
      BY <1>0, <3>2, <3>4, <3>6
    <3> QED BY <3>3, <3>5, <3>7 DEF LoopInv
  <2> QED BY <1>6, <2>1, <2>2 DEF Dispatch
<1>7. CASE FileTask
  <2>1. PICK s \in Steps, t \in Tasks :
          /\ First(loop.todo, s) /\ loop.at = "file"
          /\ loop' = Loop("link", loop.todo, "none", t)
          /\ task'[t].of = s /\ step' = step
    BY <1>7, FileTaskFacts DEF GoalsInv
  <2>2. loop'.at = "link" /\ loop'.todo = loop.todo /\ loop'.task = t
    BY <2>1 DEF Loop
  <2>3. \A q \in loop.todo : First(loop.todo, q) => q = s
    BY <1>0, <2>1, FirstUnique
  <2> QED BY <2>1, <2>2, <2>3 DEF GoalsInv, LoopInv, NoTask
<1>8. CASE FileRefused
  <2>1. PICK s \in Steps :
          /\ First(loop.todo, s)
          /\ step' = [step EXCEPT ![s] = [state |-> "failed", task |-> step[s].task]]
          /\ loop' = NextStep(loop.todo \ {s})
    BY <1>8 DEF FileRefused
  <2>2. \A q \in Steps : q # s => step'[q] = step[q]
    BY <1>0, <2>1 DEF StepType
  <2> QED BY <1>8, <1>n, <2>1, <2>2 DEF FileRefused
<1>9. CASE LinkTask
  <2>1. PICK s \in Steps :
          /\ First(loop.todo, s)
          /\ step' = [step EXCEPT ![s] = [state |-> step[s].state, task |-> loop.task]]
          /\ loop' = NextStep(loop.todo \ {s})
    BY <1>9 DEF LinkTask
  <2>2. \A q \in Steps : q # s => step'[q] = step[q]
    BY <1>0, <2>1 DEF StepType
  <2> QED BY <1>9, <1>n, <2>1, <2>2 DEF LinkTask
<1>10. FileTask \/ Tame
  BY TaskStep DEF GoalsInv
<1> QED BY <1>1, <1>2, <1>3, <1>4, <1>5, <1>6, <1>7, <1>8, <1>9, <1>10, LoopCases

\* What a criterion's evidence says of its steps, when the steps of a state say it.
LEMMA AutoEvidenceFacts ==
    ASSUME GoalsInv, NEW ev \in EvidType, NEW c \in Criteria
    PROVE  /\ ev[c] # "none" => AutoEvidence(ev)[c] = ev[c]
           /\ AutoEvidence(ev)[c] = "steps" /\ ev[c] # "steps" => \A s \in Links[c] : Worked(s)
<1>1. AutoEvidence(ev)[c] = IF c \in StepsFinish /\ ev[c] = "none"
                               /\ \A s \in Links[c] : step[s].state = "done"
                            THEN "steps" ELSE ev[c]
  BY DEF AutoEvidence
<1>2. \A s \in Links[c] : s \in Steps /\ (step[s].state = "done" => Worked(s))
  BY DEF GoalsInv, StepInv
<1> QED BY <1>1, <1>2

LEMMA OutcomeFacts ==
    ASSUME NEW ev, Outcome(ev) = "completed" PROVE \A c \in Mandatory : ev[c] # "none"
BY DEF Outcome

\* Only _assess and confirm write evidence, or complete a goal.
LEMMA EvidenceCases ==
    ASSUME GoalsTypeOK, [Next]_vars
    PROVE  \/ UNCHANGED evid /\ (goal'.status = "completed" => goal.status = "completed")
           \/ Settle \/ \E c \in Criteria : Confirm(c)
<1>0. goal \in GoalType
  BY DEF GoalsTypeOK, GoalType
<1>s. ASSUME NEW x \in GoalStates, SetStatus(x) PROVE goal'.status = x
  BY <1>0, <1>s, SetStatusType
<1>p. ASSUME PauseGoal PROVE goal'.status = "paused"
  BY <1>p, <1>s DEF PauseGoal, GoalStates
<1>1. ASSUME Owner, \A c \in Criteria : ~Confirm(c)
      PROVE  UNCHANGED evid /\ (goal'.status = "completed" => goal.status = "completed")
  <2>1. CASE Accept \/ Start \/ Resume
    BY <1>0, <2>1 DEF Accept, Start, Resume, Begin, GoalType
  <2>2. CASE Pause \/ Stop \/ Archive
    BY <2>2, <1>p, <1>s DEF Pause, Stop, Archive, GoalStates, Settled
  <2>3. CASE SaveProfile \/ ChangeModels
    BY <2>3 DEF SaveProfile, ChangeModels
  <2> QED BY <1>1, <2>1, <2>2, <2>3 DEF Owner
<1>2. ASSUME Handler, ~Settle
      PROVE  UNCHANGED evid /\ (goal'.status = "completed" => goal.status = "completed")
  <2>1. CASE ProfileChanged \/ PassBegin
    BY <2>1, <1>p DEF ProfileChanged, PassBegin
  <2>2. CASE Scan
    <3>1. UNCHANGED evid
      BY <2>2 DEF Scan
    <3>2. UNCHANGED goal \/ SetStatus("waiting") \/ PauseGoal
      BY <2>2, Zenon DEF Scan
    <3> QED BY <3>1, <3>2, <1>p, <1>s DEF GoalStates, Active
  <2>3. CASE Dispatch
    BY <1>0, <2>3 DEF Dispatch, GoalType
  <2>4. CASE Interrupt \/ FileTask \/ FileRefused \/ LinkTask \/ Reread
    BY <2>4 DEF Interrupt, FileTask, FileRefused, LinkTask, Reread
  <2> QED BY <1>2, <2>1, <2>2, <2>3, <2>4 DEF Handler
<1>3. ASSUME NEW t \in Tasks, Run(t) \/ Ends(t) \/ Continue(t) \/ StopTask(t)
      PROVE  UNCHANGED evid /\ (goal'.status = "completed" => goal.status = "completed")
  <2>1. CASE GuardRefunds(t)
    <3> DEFINE left == IF goal.runs = 0 THEN 0 ELSE goal.runs - 1
    <3>1. goal' = [goal EXCEPT !.status = "waiting", !.runs = left] /\ UNCHANGED evid
      BY <1>0, <2>1 DEF GuardRefunds, GoalType
    <3> HIDE DEF left
    <3> QED BY <1>0, <3>1 DEF GoalType
  <2>2. CASE GuardStops(t) \/ RunTask(t) \/ Ends(t) \/ Continue(t) \/ StopTask(t)
    BY <2>2 DEF GuardStops, RunTask, Ends, TurnEnds, Continue, StopTask
  <2> QED BY <1>3, <2>1, <2>2 DEF Run
<1>4. ASSUME Tick \/ Claim \/ SpendReached \/ Crash \/ TimePasses \/ UNCHANGED vars
      PROVE  UNCHANGED <<evid, goal>>
  BY <1>4 DEF Tick, Claim, SpendReached, Crash, TimePasses, vars
<1> QED BY <1>1, <1>2, <1>3, <1>4 DEF Next

LEMMA EvidenceInvStep ==
    ASSUME GoalsInv, [Next]_vars PROVE EvidenceInv'
<1>0. goal \in GoalType /\ evid \in EvidType
  BY DEF GoalsInv, GoalsTypeOK, GoalType, EvidType
<1>w. \A c \in Criteria : \A s \in Links[c] : Worked(s) => Worked(s)'
  BY WorkedStep
<1>1. CASE UNCHANGED evid /\ (goal'.status = "completed" => goal.status = "completed")
  BY <1>1, <1>w DEF GoalsInv, EvidenceInv
<1>2. CASE Settle
  <2>1. evid' = AutoEvidence(evid)
    BY <1>2 DEF Settle
  <2>2. \/ SetStatus("running") \/ SetStatus("waiting") \/ UNCHANGED goal
        \/ SetStatus(Outcome(AutoEvidence(evid)))
    BY <1>2 DEF Settle
  <2>3. Outcome(AutoEvidence(evid)) \in GoalStates
    BY DEF Outcome, GoalStates, Settled
  <2>4. ASSUME goal'.status = "completed" PROVE \A c \in Mandatory : evid'[c] # "none"
    <3>1. goal' = goal \/ goal'.status = Outcome(AutoEvidence(evid))
      <4> DEFINE o == Outcome(AutoEvidence(evid))
      <4>1. o \in GoalStates /\ "running" \in GoalStates /\ "waiting" \in GoalStates
        BY <2>3 DEF GoalStates, Active
      <4>2. SetStatus("running") \/ SetStatus("waiting") \/ UNCHANGED goal \/ SetStatus(o)
        BY <2>2
      <4> HIDE DEF o
      <4>3. CASE SetStatus("running") \/ SetStatus("waiting")
        BY <1>0, <2>4, <4>1, <4>3, SetStatusType
      <4>4. CASE SetStatus(o)
        BY <1>0, <4>1, <4>4, SetStatusType DEF o
      <4> QED BY <4>2, <4>3, <4>4
    <3>2. CASE goal' = goal
      BY <1>0, <2>1, <2>4, <3>2, AutoEvidenceFacts DEF GoalsInv, EvidenceInv
    <3>3. CASE goal'.status = Outcome(AutoEvidence(evid))
      BY <2>1, <2>4, <3>3, OutcomeFacts
    <3> QED BY <3>1, <3>2, <3>3
  <2>5. ASSUME NEW c \in Criteria, evid'[c] = "steps" PROVE \A s \in Links[c] : Worked(s)'
    BY <1>0, <1>w, <2>1, <2>5, AutoEvidenceFacts DEF GoalsInv, EvidenceInv
  <2> QED BY <2>4, <2>5 DEF EvidenceInv
<1>3. ASSUME NEW k \in Criteria, Confirm(k) PROVE EvidenceInv'
  <2> DEFINE ev == [evid EXCEPT ![k] = "owner"]
  <2>1. /\ ev \in EvidType
        /\ \A c \in Criteria : ev[c] = "steps" => evid[c] = "steps"
    BY <1>0 DEF EvidType
  <2>2. /\ evid' = AutoEvidence(ev) \/ evid' = ev
        /\ \/ UNCHANGED goal /\ goal.status # "completed"
           \/ SetStatus(Outcome(AutoEvidence(ev))) /\ evid' = AutoEvidence(ev)
    BY <1>3 DEF Confirm, Active
  <2> HIDE DEF ev
  <2>3. Outcome(AutoEvidence(ev)) \in GoalStates
    BY DEF Outcome, GoalStates, Settled
  <2>4. goal'.status = "completed" => \A c \in Mandatory : evid'[c] # "none"
    BY <1>0, <2>2, <2>3, SetStatusType, OutcomeFacts
  <2>5. ASSUME NEW c \in Criteria, evid'[c] = "steps" PROVE \A s \in Links[c] : Worked(s)'
    <3>1. CASE ev[c] = "steps"
      BY <1>w, <2>1, <3>1 DEF GoalsInv, EvidenceInv
    <3>2. CASE ev[c] # "steps"
      BY <1>w, <2>1, <2>2, <2>5, <3>2, AutoEvidenceFacts
    <3> QED BY <3>1, <3>2
  <2> QED BY <2>4, <2>5 DEF EvidenceInv
<1> QED BY <1>1, <1>2, <1>3, EvidenceCases DEF GoalsInv


\* Only _dispatch reserves a run, and only the guard gives one back.
LEMMA RunsCases ==
    ASSUME GoalsTypeOK, [Next]_vars
    PROVE  \/ goal'.runs = goal.runs
           \/ Dispatch \/ \E t \in Tasks : GuardRefunds(t)
<1>0. goal \in GoalType
  BY DEF GoalsTypeOK, GoalType
<1>s. ASSUME NEW x, SetStatus(x) PROVE goal'.runs = goal.runs
  BY <1>0, <1>s DEF SetStatus, GoalType
<1>p. ASSUME PauseGoal PROVE goal'.runs = goal.runs
  BY <1>p, <1>s DEF PauseGoal
<1>1. CASE Accept \/ Start \/ Resume
  BY <1>0, <1>1 DEF Accept, Start, Resume, Begin, GoalType
<1>2. CASE Pause \/ Stop \/ Archive \/ ProfileChanged \/ PassBegin
  BY <1>2, <1>p, <1>s DEF Pause, Stop, Archive, ProfileChanged, PassBegin
<1>3. ASSUME NEW c \in Criteria, Confirm(c) PROVE goal'.runs = goal.runs
  BY <1>3, <1>s DEF Confirm
<1>4. CASE Scan
  <2>1. UNCHANGED goal \/ SetStatus("waiting") \/ PauseGoal
    BY <1>4, Zenon DEF Scan
  <2> QED BY <2>1, <1>p, <1>s
<1>5. CASE Settle
  BY <1>5, <1>s DEF Settle
<1>6. CASE SaveProfile \/ ChangeModels \/ Interrupt \/ FileTask \/ FileRefused \/ LinkTask \/ Reread
  BY <1>6 DEF SaveProfile, ChangeModels, Interrupt, FileTask, FileRefused, LinkTask, Reread
<1>7. CASE Tick \/ Claim \/ SpendReached \/ Crash \/ TimePasses \/ UNCHANGED vars
  BY <1>7 DEF Tick, Claim, SpendReached, Crash, TimePasses, vars
<1>8. ASSUME NEW t \in Tasks, GuardStops(t) \/ RunTask(t) \/ Ends(t) \/ Continue(t) \/ StopTask(t)
      PROVE  goal'.runs = goal.runs
  BY <1>8 DEF GuardStops, RunTask, Ends, TurnEnds, Continue, StopTask
<1> QED BY <1>1, <1>2, <1>3, <1>4, <1>5, <1>6, <1>7, <1>8 DEF Next, Owner, Handler, Run

LEMMA PotentFinite ==
    /\ IsFiniteSet(PotentTasks) /\ Cardinality(PotentTasks) \in Nat
    /\ IsFiniteSet(PotentTasks') /\ Cardinality(PotentTasks') \in Nat
<1>1. PotentTasks \subseteq Tasks /\ PotentTasks' \subseteq Tasks
  BY DEF PotentTasks
<1>2. IsFiniteSet(PotentTasks) /\ IsFiniteSet(PotentTasks')
  BY <1>1, FS_Subset
<1> QED BY <1>2, FS_CardinalityType

LEMMA PaidInvStep ==
    ASSUME GoalsInv, [Next]_vars PROVE PaidInv'
<1>0. goal \in GoalType /\ goal.runs \in Nat /\ task \in TaskType
  BY DEF GoalsInv, GoalsTypeOK, GoalType, TaskType
<1>p. Cardinality(PotentTasks) + (IF loop.at = "file" THEN 1 ELSE 0) <= goal.runs
  BY DEF GoalsInv, PaidInv
<1>f. /\ IsFiniteSet(PotentTasks) /\ Cardinality(PotentTasks) \in Nat
      /\ IsFiniteSet(PotentTasks') /\ Cardinality(PotentTasks') \in Nat
  BY PotentFinite
<1>1. CASE FileTask
  <2>0. PICK t \in Tasks :
          /\ loop.at = "file" /\ loop' = Loop("link", loop.todo, "none", t) /\ goal' = goal
          /\ \A u \in Tasks : u # t => Potent(u)' = Potent(u)
    BY <1>1, FileTaskFacts DEF GoalsInv
  <2>1. /\ loop.at = "file" /\ loop'.at = "link" /\ goal' = goal
        /\ \A u \in Tasks : u # t => Potent(u)' = Potent(u)
    BY <2>0 DEF Loop
  <2>2. PotentTasks' \subseteq PotentTasks \cup {t}
    BY <2>1 DEF PotentTasks
  <2>3. /\ IsFiniteSet(PotentTasks \cup {t})
        /\ Cardinality(PotentTasks \cup {t}) <= Cardinality(PotentTasks) + 1
        /\ Cardinality(PotentTasks \cup {t}) \in Nat
    <3> DEFINE U == PotentTasks \cup {t}
    <3>1. /\ IsFiniteSet(U)
          /\ Cardinality(U) =
                IF t \in PotentTasks THEN Cardinality(PotentTasks) ELSE Cardinality(PotentTasks) + 1
      BY <1>f, FS_AddElement, Zenon
    <3> HIDE DEF U
    <3>2. IsFiniteSet(U) /\ Cardinality(U) <= Cardinality(PotentTasks) + 1 /\ Cardinality(U) \in Nat
      BY <1>f, <3>1
    <3> QED BY <3>2 DEF U
  <2>4. Cardinality(PotentTasks') <= Cardinality(PotentTasks \cup {t})
    BY <2>2, <2>3, FS_Subset
  <2> QED BY <1>0, <1>f, <1>p, <2>1, <2>3, <2>4 DEF PaidInv
<1>2. CASE Dispatch
  <2>1. PotentTasks' = PotentTasks /\ loop.at = "dispatch"
    BY <1>2 DEF Dispatch, PotentTasks, Potent
  <2>2. \/ goal'.runs = goal.runs + 1 /\ loop'.at = "file"
        \/ goal'.runs = goal.runs /\ loop'.at = "reread"
    BY <1>0, <1>2 DEF Dispatch, Loop, GoalType
  <2> QED BY <1>0, <1>f, <1>p, <2>1, <2>2 DEF PaidInv
<1>3. ASSUME NEW t \in Tasks, GuardRefunds(t) PROVE PaidInv'
  <2> DEFINE left == IF goal.runs = 0 THEN 0 ELSE goal.runs - 1
  <2>1. /\ t \in batch /\ t \notin started /\ batch' = batch \ {t} /\ started' = started
        /\ SetTask(t, "cancelled") /\ loop = Idle /\ loop' = loop
    BY <1>3 DEF GuardRefunds, Reached, GoalsInv, TaskInv
  <2>2. task'[t].status = "cancelled"
    BY <1>0, <2>1, SetTaskFacts DEF TaskStates
  <2>3. t \in PotentTasks /\ t \notin PotentTasks'
    BY <2>1, <2>2 DEF PotentTasks, Potent
  <2>4. ~FileTask
    BY <2>1 DEF FileTask, Idle, Loop
  <2>5. PotentTasks' \subseteq PotentTasks
    BY <2>4, TaskStep, TameKeeps DEF GoalsInv
  <2>6. PotentTasks' \subseteq PotentTasks \ {t}
    BY <2>3, <2>5
  <2>7. /\ IsFiniteSet(PotentTasks \ {t})
        /\ Cardinality(PotentTasks \ {t}) = Cardinality(PotentTasks) - 1
    BY <1>f, <2>3, FS_RemoveElement
  <2>8. Cardinality(PotentTasks') <= Cardinality(PotentTasks \ {t})
    BY <2>6, <2>7, FS_Subset
  <2>9. loop.at = "idle" /\ loop'.at = "idle"
    BY <2>1 DEF Idle, Loop
  <2>10. goal'.runs = left
    <3>1. goal' = [goal EXCEPT !.status = "waiting", !.runs = left]
      BY <1>0, <1>3 DEF GuardRefunds, GoalType
    <3> HIDE DEF left
    <3> QED BY <1>0, <3>1 DEF GoalType
  <2> QED BY <1>0, <1>f, <1>p, <2>7, <2>8, <2>9, <2>10 DEF PaidInv
<1>4. CASE Tame /\ goal'.runs = goal.runs /\ (loop'.at = "file" => loop.at = "file")
  <2>1. PotentTasks' \subseteq PotentTasks
    BY <1>4, TameKeeps DEF GoalsInv
  <2>2. Cardinality(PotentTasks') <= Cardinality(PotentTasks)
    BY <1>f, <2>1, FS_Subset
  <2> QED BY <1>0, <1>4, <1>f, <1>p, <2>2 DEF PaidInv
<1>5. Dispatch \/ FileTask \/ (loop'.at = "file" => loop.at = "file")
  <2>1. CASE \/ loop' = Idle \/ loop' = Pass \/ loop' = Interrupts("pause")
             \/ loop' = Interrupts("resume")
             \/ \E at \in {"changed", "scan", "settle", "reread"} :
                   loop' = Loop(at, {}, "none", NoTask)
    BY <2>1 DEF Idle, Pass, Interrupts, Loop
  <2>2. CASE Stop \/ Interrupt
    BY <2>2 DEF Stop, Interrupt, Interrupts, Idle, Pass, Loop
  <2>3. CASE Scan
    <3>1. \/ loop' = Idle \/ loop' = Interrupts("pause")
          \/ \E todo : loop' = Loop("settle", todo, "none", NoTask)
          \/ \E todo : loop' = Loop("dispatch", todo, "none", NoTask)
      BY <2>3, Zenon DEF Scan, PauseGoal
    <3> QED BY <3>1 DEF Idle, Interrupts, Loop
  <2>4. CASE FileRefused \/ LinkTask
    BY <2>4 DEF FileRefused, LinkTask, NextStep, Loop
  <2> QED BY <2>1, <2>2, <2>3, <2>4, LoopCases
<1>6. FileTask \/ Tame
  BY TaskStep DEF GoalsInv
<1> QED BY <1>1, <1>2, <1>3, <1>4, <1>5, <1>6, RunsCases DEF GoalsInv

LEMMA InvInit == Init => GoalsInv
<1> SUFFICES ASSUME Init PROVE GoalsInv
  OBVIOUS
<1>1. GoalsTypeOK
  BY TypeInit
<1>2. \A t \in Tasks : task[t].status = "none" /\ task[t].of = 0
  BY DEF Init
<1>3. batch = {} /\ turns = {} /\ started = {}
  BY DEF Init
<1>4. \A t \in Tasks : ~Potent(t)
  BY <1>2, <1>3 DEF Potent
<1>5. TaskInv
  BY <1>2, <1>3 DEF TaskInv
<1>6. OnePotent
  BY <1>4 DEF OnePotent
<1>7. StepInv
  <2>1. \A s \in Steps : step[s].state = "pending" /\ step[s].task = NoTask
    BY DEF Init
  <2> QED BY <1>4, <2>1 DEF StepInv, NoPotent
<1>8. loop.at = "idle"
  BY DEF Init, Idle, Loop
<1>9. LoopInv
  BY <1>8 DEF LoopInv
<1>10. EvidenceInv
  BY DEF Init, EvidenceInv
<1>11. PaidInv
  <2>1. PotentTasks = {}
    BY <1>4 DEF PotentTasks
  <2>2. Cardinality(PotentTasks) = 0
    BY <2>1, FS_EmptySet
  <2>3. goal.runs = 0
    BY DEF Init
  <2> QED BY <1>8, <2>2, <2>3 DEF PaidInv
<1> QED BY <1>1, <1>5, <1>6, <1>7, <1>9, <1>10, <1>11 DEF GoalsInv

LEMMA InvStep == GoalsInv /\ [Next]_vars => GoalsInv'
<1> SUFFICES ASSUME GoalsInv, [Next]_vars PROVE GoalsInv'
  OBVIOUS
<1>1. GoalsTypeOK'
  BY TypeStep DEF GoalsInv
<1>2. TaskInv'
  BY TaskStep DEF GoalsInv
<1> QED BY <1>1, <1>2, OnePotentStep, StepInvStep, LoopInvStep, EvidenceInvStep, PaidInvStep
        DEF GoalsInv

\* What the coordinator keeps true between any two transactions (GoalsInv).
THEOREM GoalsInvariant == Spec => []GoalsInv
BY InvInit, InvStep, PTL DEF Spec

----------------------------------------------------------------------------
(***************************************************************************)
(* What follows from it                                                    *)
(***************************************************************************)
\* A goal completes on evidence, and evidence that steps finished is a task of each that
\* completed, for any plan and any number of refusals and crashes (_auto_evidence, _assess).
THEOREM EvidenceIsTrue == Spec => []EvidenceIsWork
<1>1. GoalsInv => EvidenceIsWork
  BY DEF GoalsInv, EvidenceInv, EvidenceIsWork, Worked
<1> QED BY <1>1, GoalsInvariant, PTL

\* Two tasks of one step never both run, through refunds, stops and crashes (_dispatch,
\* guard_task, _refresh_steps).
THEOREM StepsWorkOnce == Spec => []StepWorksOnce
<1>1. GoalsInv => StepWorksOnce
  <2> SUFFICES ASSUME GoalsInv, NEW t \in started, NEW u \in started, task[t].of = task[u].of
               PROVE  t = u
    BY DEF StepWorksOnce
  <2>1. t \in Tasks /\ u \in Tasks /\ Potent(t) /\ Potent(u)
    BY DEF GoalsInv, GoalsTypeOK, Potent
  <2> QED BY <2>1 DEF GoalsInv, OnePotent
<1> QED BY <1>1, GoalsInvariant, PTL

\* step_runs never falls below the runs that were begun, although the guard refunds
\* (_dispatch, guard_task).
THEOREM RunsArePaid == Spec => []RunsPaid
<1>1. GoalsInv => RunsPaid
  <2> SUFFICES ASSUME GoalsInv PROVE Cardinality(started) <= goal.runs
    BY DEF RunsPaid
  <2>1. started \subseteq PotentTasks
    BY DEF GoalsInv, GoalsTypeOK, PotentTasks, Potent
  <2>2. /\ IsFiniteSet(started) /\ Cardinality(started) <= Cardinality(PotentTasks)
        /\ Cardinality(started) \in Nat /\ Cardinality(PotentTasks) \in Nat
    BY <2>1, PotentFinite, FS_Subset, FS_CardinalityType
  <2>3. goal.runs \in Nat
    BY DEF GoalsInv, GoalsTypeOK
  <2> QED BY <2>2, <2>3 DEF GoalsInv, PaidInv
<1> QED BY <1>1, GoalsInvariant, PTL

\* While the goal is paused only the owner cancels a task whose work has begun: the guard
\* reaches none of them, and Pause cancels nothing (_interrupt, guard_task).
THEOREM PauseKeeps == Spec => PauseKeepsWork
<1>1. ASSUME GoalsInv, [Next]_vars, NEW t \in started, goal.status = "paused",
             task[t].status \in ActiveTask, task'[t].status = "cancelled"
      PROVE  StopTask(t)
  <2>0. /\ task \in TaskType /\ step \in StepType /\ t \in Tasks /\ t \notin batch
        /\ loop \in LoopType /\ task[t].status # "cancelled"
    BY <1>1 DEF GoalsInv, GoalsTypeOK, TaskType, StepType, TaskInv, ActiveTask
  <2>1. CASE Quiet
    BY <1>1, <2>0, <2>1 DEF Quiet
  <2>2. CASE Interrupt
    <3>1. loop.act # "cancel"
      BY <1>1, <2>2 DEF Interrupt, GoalsInv, LoopInv
    <3>2. PICK s \in Steps :
            IF step[s].task = NoTask THEN UNCHANGED task
            ELSE SetTask(step[s].task, Interrupted(task[step[s].task].status))
      BY <2>2 DEF Interrupt
    <3> DEFINE u == step[s].task
               x == Interrupted(task[u].status)
    <3>3. u # NoTask /\ u \in Tasks
      BY <1>1, <2>0, <3>2 DEF StepType
    <3>4. x \in TaskStates /\ (x = "cancelled" => task[u].status = "cancelled")
      BY <2>0, <3>1, <3>3 DEF Interrupted, TaskType, TaskStates, ActiveTask
    <3>5. SetTask(u, x)
      BY <3>2, <3>3
    <3> HIDE DEF u, x
    <3> QED BY <1>1, <2>0, <3>3, <3>4, <3>5, SetTaskFacts
  <2>3. CASE Claim
    BY <1>1, <2>0, <2>3 DEF Claim
  <2>4. CASE Crash
    BY <1>1, <2>0, <2>4 DEF Crash
  <2>5. CASE FileTask
    <3>1. PICK u \in Tasks : u \notin started /\ \A v \in Tasks : v # u => task'[v] = task[v]
      BY <2>5, <1>1, FileTaskFacts DEF GoalsInv
    <3> QED BY <1>1, <2>0, <3>1
  <2>6. ASSUME NEW u \in Tasks, GuardStops(u) \/ GuardRefunds(u) PROVE FALSE
    <3>1. u \in batch /\ SetTask(u, "cancelled")
      BY <2>6 DEF GuardStops, GuardRefunds, Reached
    <3> QED BY <1>1, <2>0, <3>1, SetTaskFacts DEF TaskStates
  <2>7. ASSUME NEW u \in Tasks, RunTask(u) PROVE FALSE
    BY <1>1, <2>0, <2>7 DEF RunTask
  <2>8. ASSUME NEW u \in Tasks, Ends(u) PROVE FALSE
    <3>1. PICK o \in {"completed", "failed", "waiting"} : TurnEnds(u, o)
      BY <2>8 DEF Ends
    <3> DEFINE x == IF task[u].status = "running" THEN o ELSE task[u].status
    <3>2. SetTask(u, x)
      BY <3>1 DEF TurnEnds
    <3>3. x \in TaskStates /\ (x = "cancelled" => task[u].status = "cancelled")
      BY <2>0 DEF TaskType, TaskStates, ActiveTask
    <3> HIDE DEF x
    <3> QED BY <1>1, <2>0, <3>2, <3>3, SetTaskFacts
  <2>9. ASSUME NEW u \in Tasks, Continue(u) PROVE FALSE
    BY <1>1, <2>0, <2>9, SetTaskFacts DEF Continue, TaskStates, ActiveTask
  <2>10. ASSUME NEW u \in Tasks, StopTask(u) PROVE StopTask(t)
    <3>1. SetTask(u, "cancelled")
      BY <2>10 DEF StopTask
    <3>2. u = t
      BY <1>1, <2>0, <3>1, SetTaskFacts DEF TaskStates
    <3> QED BY <2>10, <3>2
  <2> QED BY <1>1, <2>1, <2>2, <2>3, <2>4, <2>5, <2>6, <2>7, <2>8, <2>9, <2>10, NextCases
<1>2. GoalsInv /\ [Next]_vars
        => [\A t \in started :
              goal.status = "paused" /\ task[t].status \in ActiveTask
              /\ task'[t].status = "cancelled" => StopTask(t)]_vars
  BY <1>1
<1> QED BY <1>2, GoalsInvariant, PTL DEF Spec, PauseKeepsWork

----------------------------------------------------------------------------
(***************************************************************************)
(* Proof, for every plan, that a goal that is over leaves nothing behind.  *)
(*                                                                         *)
(* A task that is live is linked from its step, or about to be; a step     *)
(* that has settled has no live task; and Stop, which settles the steps    *)
(* first, still has to visit the step of every task that is live.  All of  *)
(* it holds as long as the host does not die: a crash between two of the   *)
(* transactions loses the link, or the rest of Stop's walk.                *)
(***************************************************************************)
Live(t) == task[t].status \in ActiveTask
Passing == {"pass", "scan", "dispatch", "file", "link", "reread", "settle"}
Stopping == loop.at = "interrupt" /\ loop.act = "cancel"
Over == goal.status \in {"draft", "archived"} \cup Settled

\* A pass is under way only while the goal is running, and a pause or resume not when it is over.
PassInv ==
    /\ loop.at \in Passing => goal.status \in Active
    /\ loop.at = "interrupt" /\ loop.act = "resume" => goal.status \in Active
    /\ loop.at = "interrupt" /\ loop.act # "cancel" => ~Over

LiveLinked ==
    \A t \in Tasks : Live(t) =>
        (\E s \in Steps : step[s].task = t) \/ (loop.at = "link" /\ loop.task = t)

Dispatched ==
    loop.at \in {"file", "link"} =>
        \A s \in Steps : First(loop.todo, s) => step[s].state = "running" /\ step[s].task = NoTask

ToVisit == Stopping => \A t \in Tasks : Live(t) => task[t].of \in loop.todo

SettledQuiet ==
    ~Stopping => \A s \in Steps :
        step[s].state \in StepSettled /\ step[s].task # NoTask => ~Live(step[s].task)

OverQuiet == Over /\ ~Stopping => \A t \in Tasks : ~Live(t)

CleanInv == PassInv /\ LiveLinked /\ Dispatched /\ ToVisit /\ SettledQuiet /\ OverQuiet

OverInv == GoalsInv /\ (crashes = 0 => CleanInv)

----------------------------------------------------------------------------
\* Only filing a task makes one live (claim_due_tasks, _interrupt, guard_task, resume_task).
LEMMA LiveTasks ==
    ASSUME GoalsInv, [Next]_vars, ~FileTask, NEW t \in Tasks
    PROVE  task'[t].of = task[t].of /\ (Live(t)' => Live(t))
<1>0. task \in TaskType /\ step \in StepType /\ loop \in LoopType
  BY DEF GoalsInv, GoalsTypeOK, TaskType, StepType
<1>s. ASSUME NEW u \in Tasks, NEW x \in TaskStates, SetTask(u, x),
             x \in ActiveTask => task[u].status \in ActiveTask
      PROVE  task'[t].of = task[t].of /\ (Live(t)' => Live(t))
  BY <1>0, <1>s, SetTaskFacts DEF Live
<1>1. CASE Quiet
  BY <1>1 DEF Quiet, Live
<1>2. CASE Interrupt
  <2>1. PICK s \in Steps :
          IF step[s].task = NoTask THEN UNCHANGED task
          ELSE SetTask(step[s].task, Interrupted(task[step[s].task].status))
    BY <1>2 DEF Interrupt
  <2>2. CASE UNCHANGED task
    BY <2>2 DEF Live
  <2>3. CASE step[s].task # NoTask
    <3> DEFINE u == step[s].task
               x == Interrupted(task[u].status)
    <3>1. u \in Tasks
      BY <1>0, <2>3 DEF StepType
    <3>2. x \in TaskStates /\ (x \in ActiveTask => task[u].status \in ActiveTask)
      BY <1>0, <3>1 DEF Interrupted, TaskType, TaskStates, ActiveTask
    <3>3. SetTask(u, x)
      BY <2>1, <2>3
    <3> HIDE DEF u, x
    <3> QED BY <1>s, <3>1, <3>2, <3>3
  <2> QED BY <2>1, <2>2, <2>3
<1>3. CASE Claim
  BY <1>0, <1>3 DEF Claim, Live, TaskType, ActiveTask
<1>4. CASE Crash
  BY <1>0, <1>4 DEF Crash, Live, TaskType, ActiveTask
<1>5. ASSUME NEW u \in Tasks, GuardStops(u) \/ GuardRefunds(u) \/ StopTask(u)
      PROVE  task'[t].of = task[t].of /\ (Live(t)' => Live(t))
  <2>1. SetTask(u, "cancelled")
    BY <1>5 DEF GuardStops, GuardRefunds, StopTask
  <2> QED BY <1>s, <2>1 DEF TaskStates, ActiveTask
<1>6. ASSUME NEW u \in Tasks, RunTask(u)
      PROVE  task'[t].of = task[t].of /\ (Live(t)' => Live(t))
  BY <1>6 DEF RunTask, Live
<1>7. ASSUME NEW u \in Tasks, Ends(u)
      PROVE  task'[t].of = task[t].of /\ (Live(t)' => Live(t))
  <2>1. PICK o \in {"completed", "failed", "waiting"} : TurnEnds(u, o)
    BY <1>7 DEF Ends
  <2> DEFINE x == IF task[u].status = "running" THEN o ELSE task[u].status
  <2>2. SetTask(u, x)
    BY <2>1 DEF TurnEnds
  <2>3. x \in TaskStates /\ (x \in ActiveTask => task[u].status \in ActiveTask)
    BY <1>0 DEF TaskType, TaskStates, ActiveTask
  <2> HIDE DEF x
  <2> QED BY <1>s, <2>2, <2>3
<1>8. ASSUME NEW u \in Tasks, Continue(u)
      PROVE  task'[t].of = task[t].of /\ (Live(t)' => Live(t))
  BY <1>s, <1>8 DEF Continue, TaskStates, ActiveTask
<1> QED BY <1>1, <1>2, <1>3, <1>4, <1>5, <1>6, <1>7, <1>8, NextCases

\* Stop reaches each linked task (_interrupt).
LEMMA StopVisits ==
    ASSUME GoalsInv, Interrupt, Stopping, NEW t \in Tasks, Live(t)',
           Live(t) => \E s \in Steps : step[s].task = t
    PROVE  ~First(loop.todo, task[t].of)
<1>0. task \in TaskType /\ step \in StepType
  BY DEF GoalsInv, GoalsTypeOK, TaskType, StepType
<1> SUFFICES ASSUME First(loop.todo, task[t].of) PROVE FALSE
  OBVIOUS
<1>1. Live(t)
  BY LiveTasks DEF Next, Handler, Interrupt, FileTask
<1>2. PICK s \in Steps : step[s].task = t
  BY <1>1
<1>3. task[t].of = s /\ t # NoTask
  BY <1>2, TasksAssumption DEF GoalsInv, StepInv
<1>4. loop.todo \in SUBSET Steps
  BY DEF GoalsInv, GoalsTypeOK, LoopType
<1>5. SetTask(t, Interrupted(task[t].status))
  BY <1>2, <1>3, <1>4, FirstUnique DEF Interrupt
<1>6. Interrupted(task[t].status) = "cancelled"
  BY <1>1 DEF Interrupted, Stopping, Live
<1> QED BY <1>0, <1>5, <1>6, SetTaskFacts DEF Live, TaskStates, ActiveTask

\* Where a handler goes from one of its positions.
LEMMA LoopMoves ==
    ASSUME GoalsInv, [Next]_vars, crashes' = crashes
    PROVE  /\ loop.at = "link" => LinkTask \/ UNCHANGED <<loop, step>>
           /\ loop.at = "interrupt" => Interrupt \/ UNCHANGED <<loop, goal, step>>
           /\ loop'.at \in {"file", "link"} => Dispatch \/ FileTask \/ UNCHANGED <<loop, step>>
           /\ loop'.at = "interrupt" /\ loop'.act = "cancel" =>
                 Stop \/ Interrupt \/ UNCHANGED <<loop, goal, step>>
<1>0. crashes \in Nat
  BY DEF GoalsInv, GoalsTypeOK
<1>1. ASSUME Owner
      PROVE  /\ loop.at = "idle" /\ loop'.at \notin {"file", "link"}
             /\ loop'.at = "interrupt" /\ loop'.act = "cancel" => Stop
  <2>1. loop = Idle
    BY <1>1 DEF Owner, Accept, Start, Resume, Begin, Pause, Stop, Archive, Confirm, SaveProfile,
                ChangeModels
  <2>2. \/ Stop
        \/ \E l \in {Idle, Pass, Interrupts("pause"), Interrupts("resume"),
                    Loop("changed", {}, "none", NoTask)} : loop' = l
    BY <1>1 DEF Owner, Accept, Start, Resume, Begin, Pause, PauseGoal, Archive, Confirm,
                SaveProfile, ChangeModels
  <2>3. CASE Stop
    BY <2>1, <2>3 DEF Stop, Idle, Interrupts, Loop
  <2> QED BY <2>1, <2>2, <2>3 DEF Idle, Pass, Interrupts, Loop
<1>2. ASSUME ProfileChanged \/ PassBegin \/ Reread \/ Settle
      PROVE  /\ loop.at \notin {"link", "interrupt"} /\ loop'.at \notin {"file", "link"}
             /\ loop'.act # "cancel"
  BY <1>2 DEF ProfileChanged, PassBegin, Reread, Settle, PauseGoal, Idle, Interrupts, Loop
<1>3. ASSUME Scan
      PROVE  /\ loop.at \notin {"link", "interrupt"} /\ loop'.at \notin {"file", "link"}
             /\ loop'.act # "cancel"
  <2>1. \/ loop' = Idle \/ loop' = Interrupts("pause")
        \/ \E todo : loop' = Loop("settle", todo, "none", NoTask)
        \/ \E todo : loop' = Loop("dispatch", todo, "none", NoTask)
    BY <1>3, Zenon DEF Scan, PauseGoal
  <2>2. loop.at = "scan"
    BY <1>3 DEF Scan
  <2> QED BY <2>1, <2>2 DEF Idle, Interrupts, Loop
<1>4. ASSUME FileRefused \/ LinkTask
      PROVE  /\ loop.at # "interrupt" /\ (loop.at = "link" => LinkTask)
             /\ loop'.at \notin {"file", "link"} /\ loop'.act # "cancel"
  <2>1. \E todo : loop' = NextStep(todo)
    BY <1>4 DEF FileRefused, LinkTask
  <2>2. loop.at # "interrupt" /\ (loop.at = "link" => LinkTask)
    BY <1>4 DEF FileRefused, LinkTask
  <2>3. \A todo : NextStep(todo).at \in {"reread", "dispatch"} /\ NextStep(todo).act = "none"
    <3>1. \A a, b : /\ Loop(a, b, "none", NoTask).at = a
                    /\ Loop(a, b, "none", NoTask).act = "none"
      BY DEF Loop
    <3> QED BY <3>1 DEF NextStep
  <2> QED BY <2>1, <2>2, <2>3
<1>5. ASSUME Dispatch \/ FileTask
      PROVE  loop.at \notin {"link", "interrupt"} /\ loop'.act # "cancel"
  <2>1. loop.at \in {"dispatch", "file"} /\ \E a, b, t : loop' = Loop(a, b, "none", t)
    BY <1>5, Zenon DEF Dispatch, FileTask
  <2> QED BY <2>1 DEF Loop
<1>6. ASSUME Interrupt
      PROVE  loop.at = "interrupt" /\ loop'.at \notin {"file", "link"}
  BY <1>6 DEF Interrupt, Idle, Pass, Loop
<1>7. ASSUME Tick \/ Claim
      PROVE  /\ loop.at = "idle" /\ loop'.at \notin {"file", "link"} /\ loop'.act # "cancel"
  BY <1>7 DEF Tick, Claim, Idle, Pass, Loop
<1>8. ASSUME SpendReached \/ TimePasses \/ UNCHANGED vars PROVE UNCHANGED <<loop, goal, step>>
  BY <1>8 DEF SpendReached, TimePasses, vars
<1>9. ~Crash
  BY <1>0 DEF Crash
<1>10. ASSUME NEW t \in Tasks, Run(t) \/ StopTask(t)
       PROVE  loop.at = "idle" /\ loop' = Idle
  BY <1>10 DEF Run, GuardStops, GuardRefunds, RunTask, Reached, StopTask, Idle, Loop
<1>11. ASSUME NEW t \in Tasks, Ends(t) \/ Continue(t) PROVE UNCHANGED <<loop, goal, step>>
  BY <1>11 DEF Ends, TurnEnds, Continue
<1>12. Idle.at = "idle" /\ Idle.act = "none"
  BY DEF Idle, Loop
<1> QED BY <1>1, <1>2, <1>3, <1>4, <1>5, <1>6, <1>7, <1>8, <1>9, <1>10, <1>11, <1>12
        DEF Next, Handler

----------------------------------------------------------------------------
(***************************************************************************)
(* The goal and the handler                                                *)
(***************************************************************************)
\* A goal that is over was so before, unless Stop or _assess ended it; and what the handler
\* does next fits what the goal is.
LEMMA PassInvStep ==
    ASSUME GoalsInv, PassInv, [Next]_vars, crashes' = crashes
    PROVE  /\ PassInv'
           /\ Over' => \/ Over \/ Stop
                       \/ Settle /\ \A s \in Steps : step[s].state \in StepSettled
<1>0. goal \in GoalType /\ loop \in LoopType /\ crashes \in Nat
  BY DEF GoalsInv, GoalsTypeOK, GoalType
<1>s. ASSUME NEW x \in GoalStates, SetStatus(x) PROVE goal'.status = x
  BY <1>0, <1>s, SetStatusType
<1>a. /\ Idle.at = "idle" /\ Idle.act = "none" /\ Pass.at = "pass"
      /\ \A a : Interrupts(a).at = "interrupt" /\ Interrupts(a).act = a
      /\ \A a, b, t : Loop(a, b, "none", t).at = a /\ Loop(a, b, "none", t).act = "none"
  BY DEF Idle, Pass, Interrupts, Loop
<1>g. /\ Active \subseteq GoalStates /\ "paused" \in GoalStates /\ "paused" \notin Active
      /\ Active \cap ({"draft", "archived"} \cup Settled) = {}
      /\ "paused" \notin {"draft", "archived"} \cup Settled
  BY DEF Active, GoalStates, Settled
<1>p. ASSUME PauseGoal, goal.status \in Active PROVE PassInv' /\ ~Over'
  <2>1. goal'.status = "paused" /\ loop' = Interrupts("pause")
    BY <1>p, <1>s, <1>g DEF PauseGoal
  <2> QED BY <2>1, <1>a, <1>g DEF PassInv, Over, Passing
<1>i. ASSUME loop'.at \notin Passing \cup {"interrupt"} PROVE PassInv'
  BY <1>i DEF PassInv
<1>k. ASSUME loop'.at \in Passing, goal'.status \in Active PROVE PassInv' /\ ~Over'
  BY <1>k, <1>g DEF PassInv, Over, Passing
<1>d. Idle.at \notin Passing \cup {"interrupt"}
  BY <1>a DEF Passing
<1>q. ASSUME UNCHANGED <<goal, loop>> PROVE PassInv' /\ (Over' => Over)
  BY <1>q DEF PassInv, Over
<1>1. CASE Accept
  <2>1. goal'.status = "ready" /\ loop' = Idle
    BY <1>0, <1>1 DEF Accept, GoalType
  <2> QED BY <2>1, <1>i, <1>d DEF Over, Settled
<1>2. CASE Start \/ Resume
  <2>1. PICK from \in {"ready", "paused"}, next \in {Pass, Interrupts("resume")} : Begin(from, next)
    BY <1>2 DEF Start, Resume
  <2>2. goal.status = from /\ loop = Idle
    BY <2>1 DEF Begin
  <2>3. CASE goal' = [goal EXCEPT !.status = "running", !.pin = profile] /\ loop' = next
    <3>1. goal'.status = "running"
      BY <1>0, <2>3 DEF GoalType
    <3> QED BY <3>1, <2>3, <1>a DEF PassInv, Over, Passing, Active, Settled
  <2>4. CASE goal' = [goal EXCEPT !.pin = profile] /\ UNCHANGED loop
    <3>1. goal'.status = from
      BY <1>0, <2>2, <2>4 DEF GoalType
    <3> QED BY <3>1, <2>2, <2>4, <1>i, <1>d DEF Over, Settled
  <2> QED BY <2>1, <2>3, <2>4 DEF Begin
<1>3. CASE Pause
  BY <1>3, <1>p DEF Pause
<1>4. CASE Stop
  <2>1. goal'.status = "stopped" /\ loop' = Interrupts("cancel")
    BY <1>4, <1>s DEF Stop, GoalStates, Settled
  <2> QED BY <1>4, <2>1, <1>a DEF PassInv, Passing
<1>5. CASE Archive
  BY <1>5, <1>i, <1>d DEF Archive, Over
<1>6. ASSUME NEW c \in Criteria, Confirm(c) PROVE PassInv' /\ (Over' => Over)
  <2>1. CASE goal.status = "partial"
    <3>1. loop' = Idle /\ Over
      BY <1>6, <2>1 DEF Confirm, Active, Over, Settled
    <3> QED BY <3>1, <1>i, <1>d
  <2>2. CASE goal.status # "partial" /\ goal.status \in Active
    <3>1. goal' = goal /\ loop' = Pass
      BY <1>6, <2>2 DEF Confirm
    <3> QED BY <3>1, <2>2, <1>k, <1>a DEF Passing
  <2>3. CASE goal.status # "partial" /\ goal.status \notin Active
    <3>1. goal' = goal /\ loop' = loop
      BY <1>6, <2>3 DEF Confirm
    <3> QED BY <3>1, <1>q
  <2> QED BY <2>1, <2>2, <2>3
<1>7. CASE SaveProfile
  BY <1>7, <1>a, <1>i DEF SaveProfile, Over, Passing
<1>8. CASE ProfileChanged
  BY <1>8, <1>p, <1>i, <1>d DEF ProfileChanged, Over
<1>9. CASE Interrupt
  <2>1. goal' = goal /\ loop.at = "interrupt"
    BY <1>9 DEF Interrupt
  <2>2. \/ loop' = Idle
        \/ loop' = Pass /\ loop.act = "resume"
        \/ loop'.at = "interrupt" /\ loop'.act = loop.act
    <3>1. \/ loop' = Idle
          \/ loop' = Pass /\ loop.act = "resume"
          \/ \E b : loop' = Loop("interrupt", b, loop.act, NoTask)
      BY <1>9 DEF Interrupt
    <3> QED BY <3>1 DEF Loop
  <2>3. loop.act = "resume" => goal.status \in Active
    BY <2>1 DEF PassInv
  <2> QED BY <2>1, <2>2, <2>3, <1>i, <1>d, <1>a, <1>k DEF PassInv, Over, Passing
<1>10. CASE Tick
  BY <1>10, <1>a, <1>k DEF Tick, Passing
<1>11. CASE PassBegin
  <2>1. goal.status \in Active
    BY <1>11 DEF PassBegin, PassInv, Passing
  <2> QED BY <1>11, <2>1, <1>a, <1>k, <1>p DEF PassBegin, Passing
<1>12. CASE Scan
  <2>1. goal.status \in Active
    BY <1>12 DEF Scan, PassInv, Passing
  <2>2. \/ SetStatus("waiting") /\ loop' = Idle
        \/ PauseGoal
        \/ UNCHANGED goal /\ loop' = Loop("settle", {}, "none", NoTask)
        \/ UNCHANGED goal /\ \E b : loop' = Loop("dispatch", b, "none", NoTask)
    BY <1>12, Zenon DEF Scan
  <2>3. CASE SetStatus("waiting") /\ loop' = Idle
    <3>1. goal'.status = "waiting"
      BY <2>3, <1>s, <1>g DEF Active
    <3> QED BY <2>3, <3>1, <1>i, <1>d, <1>g DEF Over, Active
  <2> QED BY <2>1, <2>2, <2>3, <1>a, <1>k, <1>p DEF Passing
<1>13. CASE Dispatch
  <2>1. goal.status \in Active
    BY <1>13 DEF Dispatch, PassInv, Passing
  <2>2. goal'.status = goal.status /\ loop'.at \in {"file", "reread"}
    BY <1>0, <1>13, <1>a DEF Dispatch, GoalType
  <2> QED BY <2>1, <2>2, <1>k DEF Passing
<1>14. CASE FileTask \/ FileRefused \/ LinkTask \/ Reread
  <2>1. goal.status \in Active /\ goal' = goal
    BY <1>14 DEF FileTask, FileRefused, LinkTask, Reread, PassInv, Passing
  <2>2. \A todo : NextStep(todo).at \in {"reread", "dispatch"}
    BY <1>a DEF NextStep
  <2>3. \/ \E b, t : loop' = Loop("link", b, "none", t)
        \/ \E b : loop' = NextStep(b)
        \/ loop' = Loop("settle", {}, "none", NoTask)
    BY <1>14, Zenon DEF FileTask, FileRefused, LinkTask, Reread
  <2>4. loop'.at \in {"link", "reread", "dispatch", "settle"}
    BY <1>a, <2>2, <2>3
  <2> QED BY <2>1, <2>4, <1>k DEF Passing
<1>15. CASE Settle
  <2>1. loop' = Idle /\ goal.status \in Active
    BY <1>15 DEF Settle, PassInv, Passing
  <2>2. \/ SetStatus("running") \/ SetStatus("waiting") \/ UNCHANGED goal
        \/ \A s \in Steps : step[s].state \in StepSettled
    BY <1>15 DEF Settle
  <2>3. SetStatus("running") \/ SetStatus("waiting") => goal'.status \in Active
    BY <1>s, <1>g DEF Active
  <2> QED BY <1>15, <2>1, <2>2, <2>3, <1>i, <1>d, <1>g DEF Over
<1>16. ASSUME NEW t \in Tasks, GuardRefunds(t) PROVE PassInv' /\ ~Over'
  <2>1. loop' = Idle /\ goal'.status = "waiting"
    <3> DEFINE left == IF goal.runs = 0 THEN 0 ELSE goal.runs - 1
    <3>1. goal' = [goal EXCEPT !.status = "waiting", !.runs = left] /\ loop' = Idle
      BY <1>0, <1>16 DEF GuardRefunds, Reached, GoalType
    <3> HIDE DEF left
    <3> QED BY <1>0, <3>1 DEF GoalType
  <2> QED BY <2>1, <1>i, <1>d, <1>g DEF Over, Active
<1>17. ASSUME NEW t \in Tasks, \/ GuardStops(t) \/ RunTask(t) \/ Ends(t) \/ Continue(t)
                             \/ StopTask(t)
       PROVE  PassInv' /\ (Over' => Over)
  BY <1>17, <1>q DEF GuardStops, RunTask, Ends, TurnEnds, Continue, StopTask
<1>18. CASE ChangeModels \/ Claim \/ SpendReached \/ TimePasses \/ UNCHANGED vars
  BY <1>18, <1>q DEF ChangeModels, Claim, SpendReached, TimePasses, vars
<1>19. ~Crash
  BY <1>0 DEF Crash
<1> QED BY <1>1, <1>2, <1>3, <1>4, <1>5, <1>6, <1>7, <1>8, <1>9, <1>10, <1>11, <1>12, <1>13, <1>14,
           <1>15, <1>16, <1>17, <1>18, <1>19 DEF Next, Owner, Handler, Run

----------------------------------------------------------------------------
(***************************************************************************)
(* The steps and their tasks                                               *)
(***************************************************************************)
\* The step that a pass is dispatching has no task yet (_dispatch).
LEMMA DispatchedStep ==
    ASSUME GoalsInv, CleanInv, [Next]_vars, crashes' = crashes PROVE Dispatched'
<1>0. step \in StepType /\ loop \in LoopType
  BY DEF GoalsInv, GoalsTypeOK, StepType
<1>1. CASE Dispatch /\ loop'.at \in {"file", "link"}
  <2>1. PICK s \in Steps :
          /\ First(loop.todo, s)
          /\ \/ /\ step' = [step EXCEPT ![s] = [state |-> "running", task |-> NoTask]]
                /\ loop' = Loop("file", loop.todo, "none", NoTask)
             \/ loop' = Loop("reread", {}, "none", NoTask)
    BY <1>1 DEF Dispatch
  <2>2. /\ step' = [step EXCEPT ![s] = [state |-> "running", task |-> NoTask]]
        /\ loop'.todo = loop.todo
    BY <1>1, <2>1 DEF Loop
  <2>3. loop.todo \in SUBSET Steps
    BY <1>0 DEF LoopType
  <2>4. step'[s].state = "running" /\ step'[s].task = NoTask
    BY <1>0, <2>2 DEF StepType
  <2> QED BY <2>1, <2>2, <2>3, <2>4, FirstUnique DEF Dispatched
<1>2. CASE FileTask
  <2>1. loop.at = "file" /\ step' = step /\ loop'.todo = loop.todo
    BY <1>2 DEF FileTask, Loop
  <2> QED BY <2>1 DEF CleanInv, Dispatched, First
<1>3. CASE UNCHANGED <<loop, step>>
  BY <1>3 DEF CleanInv, Dispatched, First
<1> QED BY <1>1, <1>2, <1>3, LoopMoves DEF Dispatched

\* A live task is linked from its step, or is about to be (_dispatch, guard_task).
LEMMA LiveLinkedStep ==
    ASSUME GoalsInv, CleanInv, [Next]_vars, crashes' = crashes PROVE LiveLinked'
<1>0. step \in StepType /\ loop \in LoopType /\ task \in TaskType
  BY DEF GoalsInv, GoalsTypeOK, StepType, TaskType
<1>t. loop.todo \in SUBSET Steps
  BY <1>0 DEF LoopType
<1> SUFFICES ASSUME NEW t \in Tasks, Live(t)'
             PROVE  (\E s \in Steps : step'[s].task = t) \/ (loop'.at = "link" /\ loop'.task = t)
  BY DEF LiveLinked
<1>1. CASE FileTask
  <2>1. PICK u \in Tasks : /\ loop' = Loop("link", loop.todo, "none", u) /\ loop.at = "file"
                           /\ \A v \in Tasks : v # u => task'[v] = task[v]
                           /\ step' = step
    BY <1>1, FileTaskFacts DEF GoalsInv
  <2>2. CASE t = u
    BY <2>1, <2>2 DEF Loop
  <2>3. CASE t # u
    <3>1. Live(t)
      BY <2>1, <2>3 DEF Live
    <3> QED BY <2>1, <3>1 DEF CleanInv, LiveLinked
  <2> QED BY <2>2, <2>3
<1>2. CASE ~FileTask
  <2>1. Live(t) /\ t # NoTask
    BY <1>2, LiveTasks, TasksAssumption
  <2>2. CASE loop.at = "link" /\ loop.task = t
    <3>1. CASE UNCHANGED <<loop, step>>
      BY <2>2, <3>1
    <3>2. CASE LinkTask
      <4>1. PICK s \in Steps :
              step' = [step EXCEPT ![s] = [state |-> step[s].state, task |-> loop.task]]
        BY <3>2 DEF LinkTask
      <4>2. step'[s].task = t
        BY <1>0, <2>2, <4>1 DEF StepType
      <4> QED BY <4>2
    <3> QED BY <2>2, <3>1, <3>2, LoopMoves
  <2>3. ASSUME NEW s \in Steps, step[s].task = t PROVE \E q \in Steps : step'[q].task = t
    <3>1. CASE UNCHANGED step
      BY <2>3, <3>1
    <3>2. CASE Stop \/ PassBegin \/ Scan \/ Reread
      <4>1. step'[s].task = step[s].task
        <5>1. Stop => step'[s].task = step[s].task
          BY DEF Stop
        <5>2. PassBegin \/ Reread => step'[s].task = step[s].task
          BY DEF PassBegin, Reread, Refresh
        <5>3. Scan => step'[s].task = step[s].task
          <6>1. ASSUME Scan
                PROVE  \E B \in SUBSET Steps :
                          step' = [q \in Steps |->
                             [state |-> IF q \in B THEN "blocked" ELSE step[q].state,
                              task |-> step[q].task]]
            BY <6>1, Zenon DEF Scan
          <6> QED BY <6>1
        <5> QED BY <3>2, <5>1, <5>2, <5>3
      <4> QED BY <2>3, <4>1
    <3>3. CASE Dispatch
      <4>1. PICK q \in Steps :
              /\ First(loop.todo, q) /\ loop.at = "dispatch"
              /\ \/ step' = [step EXCEPT ![q] = [state |-> "running", task |-> NoTask]]
                 \/ UNCHANGED step
        BY <3>3 DEF Dispatch
      <4>2. step[q].task = NoTask
        BY <4>1 DEF First, GoalsInv, LoopInv, StepInv
      <4>3. q # s
        BY <2>1, <2>3, <4>2
      <4> QED BY <1>0, <2>3, <4>1, <4>3 DEF StepType
    <3>4. CASE FileRefused \/ LinkTask
      <4>1. PICK q \in Steps :
              /\ First(loop.todo, q) /\ loop.at \in {"file", "link"}
              /\ \E x : step' = [step EXCEPT ![q] = x]
        BY <3>4, Zenon DEF FileRefused, LinkTask
      <4>2. step[q].task = NoTask
        BY <4>1 DEF CleanInv, Dispatched
      <4>3. q # s
        BY <2>1, <2>3, <4>2
      <4> QED BY <1>0, <2>3, <4>1, <4>3 DEF StepType
    <3>5. ASSUME NEW u \in Tasks, GuardRefunds(u) PROVE \E q \in Steps : step'[q].task = t
      <4>1. PICK q \in Steps :
              /\ step[q].task = u
              /\ step' = [step EXCEPT ![q] = [state |-> "pending", task |-> NoTask]]
        BY <3>5 DEF GuardRefunds, Linked
      <4>2. u # t
        BY <1>0, <3>5, SetTaskFacts DEF GuardRefunds, TaskStates, ActiveTask, Live
      <4>3. q # s
        BY <2>3, <4>1, <4>2
      <4> QED BY <1>0, <2>3, <4>1, <4>3 DEF StepType
    <3> QED BY <3>1, <3>2, <3>3, <3>4, <3>5, StepCases
  <2> QED BY <2>1, <2>2, <2>3 DEF CleanInv, LiveLinked
<1> QED BY <1>1, <1>2

\* Stop has yet to come to the step of every live task (_interrupt).
LEMMA ToVisitStep ==
    ASSUME GoalsInv, CleanInv, [Next]_vars, crashes' = crashes PROVE ToVisit'
<1>0. loop.todo \in SUBSET Steps /\ step \in StepType
  BY DEF GoalsInv, GoalsTypeOK, LoopType, StepType
<1> SUFFICES ASSUME Stopping', NEW t \in Tasks, Live(t)' PROVE task'[t].of \in loop'.todo
  BY DEF ToVisit
<1>1. \/ Stop \/ Interrupt \/ UNCHANGED <<loop, goal, step>>
  BY LoopMoves DEF Stopping
<1>2. CASE Stop
  <2>1. ~FileTask /\ loop.at # "link" /\ loop'.todo = Steps
    BY <1>2 DEF Stop, FileTask, Idle, Interrupts, Loop
  <2>2. PICK s \in Steps : step[s].task = t
    BY <2>1, LiveTasks DEF CleanInv, LiveLinked
  <2>3. t # NoTask
    BY TasksAssumption
  <2>4. task[t].of = s
    BY <2>2, <2>3 DEF GoalsInv, StepInv
  <2> QED BY <2>1, <2>4, LiveTasks
<1>3. CASE Interrupt
  <2>1. PICK s \in Steps :
          /\ First(loop.todo, s)
          /\ loop' = IF loop.todo # {s} THEN Loop("interrupt", loop.todo \ {s}, loop.act, NoTask)
                     ELSE IF loop.act = "resume" THEN Pass ELSE Idle
    BY <1>3 DEF Interrupt
  <2>2. loop'.todo = loop.todo \ {s} /\ loop'.act = loop.act
    BY <2>1 DEF Stopping, Pass, Idle, Loop
  <2>3. ~FileTask /\ Stopping /\ loop.at # "link"
    BY <1>3, <2>2 DEF Interrupt, FileTask, Stopping
  <2>4. Live(t) /\ task'[t].of = task[t].of
    BY <2>3, LiveTasks
  <2>5. task[t].of # s
    <3>1. \E q \in Steps : step[q].task = t
      BY <2>3, <2>4 DEF CleanInv, LiveLinked
    <3> QED BY <1>3, <2>1, <2>3, <3>1, StopVisits
  <2> QED BY <2>2, <2>3, <2>4, <2>5 DEF CleanInv, ToVisit
<1>4. CASE UNCHANGED <<loop, goal, step>>
  <2>1. ~FileTask /\ Stopping
    BY <1>4 DEF FileTask, Stopping
  <2> QED BY <1>4, <2>1, LiveTasks DEF CleanInv, ToVisit
<1> QED BY <1>1, <1>2, <1>3, <1>4

\* Once the handler that ended the goal is through, nothing is live (stop, _assess).
LEMMA OverQuietStep ==
    ASSUME GoalsInv, CleanInv, [Next]_vars, crashes' = crashes PROVE OverQuiet'
<1>0. loop.todo \in SUBSET Steps /\ step \in StepType
  BY DEF GoalsInv, GoalsTypeOK, LoopType, StepType
<1> SUFFICES ASSUME Over', ~Stopping', NEW t \in Tasks, Live(t)' PROVE FALSE
  BY DEF OverQuiet
<1>1. \/ Over \/ Stop
      \/ Settle /\ \A s \in Steps : step[s].state \in StepSettled
  BY PassInvStep DEF CleanInv
<1>2. CASE Over /\ ~Stopping
  <2>1. ~FileTask
    <3>1. ~(goal.status \in Active)
      BY <1>2 DEF Over, Active, Settled
    <3> QED BY <3>1 DEF FileTask, CleanInv, PassInv, Passing
  <2> QED BY <1>2, <2>1, LiveTasks DEF CleanInv, OverQuiet
<1>3. CASE Stopping
  <2>1. Interrupt
    BY <1>3, LoopMoves DEF Stopping
  <2>2. PICK s \in Steps :
          /\ First(loop.todo, s)
          /\ loop' = IF loop.todo # {s} THEN Loop("interrupt", loop.todo \ {s}, loop.act, NoTask)
                     ELSE IF loop.act = "resume" THEN Pass ELSE Idle
    BY <2>1 DEF Interrupt
  <2>3. loop.todo = {s}
    BY <1>3, <2>2 DEF Stopping, Loop
  <2>4. Live(t)
    BY <1>3, LiveTasks DEF Stopping, FileTask
  <2>5. task[t].of = s
    BY <1>3, <2>3, <2>4 DEF CleanInv, ToVisit
  <2>6. \E q \in Steps : step[q].task = t
    BY <1>3, <2>4 DEF CleanInv, LiveLinked, Stopping
  <2> QED BY <1>3, <2>1, <2>2, <2>5, <2>6, StopVisits
<1>4. CASE Stop
  BY <1>4 DEF Stop, Stopping, Interrupts, Loop
<1>5. CASE Settle /\ \A s \in Steps : step[s].state \in StepSettled
  <2>1. loop.at = "settle"
    BY <1>5 DEF Settle
  <2>2. Live(t) /\ t # NoTask
    BY <2>1, LiveTasks, TasksAssumption DEF FileTask
  <2>3. PICK s \in Steps : step[s].task = t
    BY <2>1, <2>2 DEF CleanInv, LiveLinked
  <2> QED BY <1>5, <2>1, <2>2, <2>3 DEF CleanInv, SettledQuiet, Stopping
<1> QED BY <1>1, <1>2, <1>3, <1>4, <1>5

\* A step that has settled has no live task (step_from_task, _refresh_steps).
LEMMA SettledQuietStep ==
    ASSUME GoalsInv, CleanInv, [Next]_vars, crashes' = crashes PROVE SettledQuiet'
<1>0. /\ step \in StepType /\ task \in TaskType /\ loop \in LoopType
      /\ loop.todo \in SUBSET Steps
  BY DEF GoalsInv, GoalsTypeOK, StepType, TaskType, LoopType
<1> SUFFICES ASSUME ~Stopping', NEW s \in Steps, NEW t \in Tasks, step'[s].task = t,
                    step'[s].state \in StepSettled, Live(t)'
             PROVE  FALSE
  <2>1. step' \in StepType
    BY TypeStep DEF GoalsInv, GoalsTypeOK, StepType
  <2>2. \A s \in Steps : step'[s].task # NoTask => step'[s].task \in Tasks
    BY <2>1 DEF StepType
  <2> QED BY <2>2 DEF SettledQuiet, Live
<1>1. t # NoTask
  BY TasksAssumption
<1>2. CASE Stopping
  <2>1. goal.status = "stopped"
    BY <1>2 DEF Stopping, GoalsInv, LoopInv
  <2>2. UNCHANGED goal
    BY <1>2, LoopMoves DEF Stopping, Interrupt
  <2>3. Over'
    BY <2>1, <2>2 DEF Over, Settled
  <2> QED BY <2>3, OverQuietStep DEF OverQuiet
<1>3. ASSUME ~Stopping, step[s].state \in StepSettled, step[s].task = t PROVE FALSE
  <2>1. ~Live(t)
    BY <1>3, <1>1 DEF CleanInv, SettledQuiet
  <2>2. CASE FileTask
    <3>1. PICK u \in Tasks : /\ task[u].of = 0
                             /\ \A v \in Tasks : v # u => task'[v] = task[v]
      BY <2>2, FileTaskFacts DEF GoalsInv
    <3>2. t # u
      BY <1>3, <1>1, <3>1, StepsAssumption DEF GoalsInv, StepInv
    <3> QED BY <2>1, <3>1, <3>2 DEF Live
  <2> QED BY <2>1, <2>2, LiveTasks
<1>4. CASE ~Stopping /\ UNCHANGED step
  BY <1>3, <1>4
<1>5. CASE Stop
  BY <1>5 DEF Stop, Stopping, Interrupts, Loop
<1>6. CASE ~Stopping /\ (PassBegin \/ Reread)
  <2>1. CASE UNCHANGED step
    BY <1>4, <1>6, <2>1
  <2>2. CASE Refresh /\ Quiet
    <3>1. step[s].task = t /\ step'[s].state = Refreshed(s)
      BY <2>2 DEF Refresh
    <3>2. CASE step[s].state \in StepSettled
      BY <1>3, <1>6, <3>1, <3>2
    <3>3. CASE step[s].state \notin StepSettled
      <4>1. Refreshed(s) = StepFromTask(task[t].status)
        BY <3>1, <3>3, <1>1 DEF Refreshed
      <4>2. task[t].status \notin ActiveTask
        BY <3>1, <4>1 DEF StepFromTask, StepSettled, ActiveTask
      <4> QED BY <2>2, <3>1, <4>2 DEF Quiet, Live
    <3> QED BY <3>2, <3>3
  <2> QED BY <1>6, <2>1, <2>2 DEF PassBegin, Reread, Quiet
<1>7. CASE ~Stopping /\ Scan
  <2>1. PICK B \in SUBSET Steps :
          /\ Blocked(B)
          /\ step' = [q \in Steps |-> [state |-> IF q \in B THEN "blocked" ELSE step[q].state,
                                      task |-> step[q].task]]
    BY <1>7, Zenon DEF Scan
  <2>2. step'[s].task = step[s].task /\ (s \notin B => step'[s].state = step[s].state)
    BY <2>1
  <2>3. s \notin B
    BY <2>1, <2>2, <1>1 DEF Blocked, GoalsInv, StepInv
  <2> QED BY <1>3, <1>7, <2>2, <2>3
<1>8. CASE ~Stopping /\ Dispatch
  <2>1. PICK q \in Steps :
          \/ step' = [step EXCEPT ![q] = [state |-> "running", task |-> NoTask]]
          \/ UNCHANGED step
    BY <1>8 DEF Dispatch
  <2>2. q # s \/ UNCHANGED step
    BY <1>0, <1>1, <2>1 DEF StepType
  <2>3. step'[s] = step[s]
    BY <1>0, <2>1, <2>2 DEF StepType
  <2> QED BY <1>3, <1>8, <2>3
<1>9. CASE ~Stopping /\ (FileRefused \/ LinkTask)
  <2>1. PICK q \in Steps :
          /\ First(loop.todo, q) /\ loop.at \in {"file", "link"}
          /\ \/ step' = [step EXCEPT ![q] = [state |-> "failed", task |-> step[q].task]]
             \/ step' = [step EXCEPT ![q] = [state |-> step[q].state, task |-> loop.task]]
    BY <1>9, Zenon DEF FileRefused, LinkTask
  <2>2. step[q].task = NoTask /\ step[q].state = "running"
    BY <2>1 DEF CleanInv, Dispatched
  <2>3. q # s
    BY <1>0, <1>1, <2>1, <2>2 DEF StepType, StepSettled
  <2>4. step'[s] = step[s]
    BY <1>0, <2>1, <2>3 DEF StepType
  <2> QED BY <1>3, <1>9, <2>4
<1>10. ASSUME ~Stopping, NEW u \in Tasks, GuardRefunds(u) PROVE FALSE
  <2>1. PICK q \in Steps : step' = [step EXCEPT ![q] = [state |-> "pending", task |-> NoTask]]
    BY <1>10 DEF GuardRefunds
  <2>2. q # s
    BY <1>0, <1>1, <2>1 DEF StepType
  <2>3. step'[s] = step[s]
    BY <1>0, <2>1, <2>2 DEF StepType
  <2> QED BY <1>3, <1>10, <2>3
<1> QED BY <1>2, <1>4, <1>5, <1>6, <1>7, <1>8, <1>9, <1>10, StepCases

----------------------------------------------------------------------------
LEMMA OverInit == Init => OverInv
<1> SUFFICES ASSUME Init PROVE CleanInv
  BY InvInit DEF OverInv
<1>1. loop.at = "idle" /\ \A t \in Tasks : ~Live(t)
  BY DEF Init, Idle, Loop, Live, ActiveTask
<1>2. \A s \in Steps : step[s].task = NoTask
  BY DEF Init
<1> QED BY <1>1, <1>2 DEF CleanInv, PassInv, Passing, LiveLinked, Dispatched, ToVisit, Stopping,
                          SettledQuiet, OverQuiet

LEMMA OverStep == OverInv /\ [Next]_vars => OverInv'
<1> SUFFICES ASSUME OverInv, [Next]_vars PROVE OverInv'
  OBVIOUS
<1>1. GoalsInv /\ GoalsInv'
  BY InvStep DEF OverInv
<1>2. ASSUME crashes' = 0 PROVE crashes' = crashes /\ CleanInv
  <2>1. crashes \in Nat
    BY <1>1 DEF GoalsInv, GoalsTypeOK
  <2>2. crashes' = crashes \/ crashes' = crashes + 1
    BY Zenon DEF Next, Owner, Handler, Run, Ends, vars, Accept, Start, Resume, Begin, Pause, Stop,
       Archive, Confirm, SaveProfile, ChangeModels, ProfileChanged, PassBegin, Scan, Dispatch,
       FileTask, FileRefused, LinkTask, Reread, Settle, Tick, SpendReached, TimePasses, Interrupt,
       Claim, Crash, GuardStops, GuardRefunds, RunTask, TurnEnds, Continue, StopTask
  <2> QED BY <1>2, <2>1, <2>2 DEF OverInv
<1>3. ASSUME crashes' = 0 PROVE CleanInv'
  <2>1. CleanInv /\ crashes' = crashes
    BY <1>2, <1>3
  <2>2. PassInv'
    BY <1>1, <2>1, PassInvStep DEF CleanInv
  <2> QED BY <1>1, <2>1, <2>2, LiveLinkedStep, DispatchedStep, ToVisitStep, SettledQuietStep,
             OverQuietStep DEF CleanInv
<1> QED BY <1>1, <1>3 DEF OverInv

\* A goal that is over leaves nothing behind, for any plan: as long as the host does not die,
\* once Stop or _assess ended a goal and the handler is through, no task of it is queued,
\* running, parked or paused, and none is filed later (stop, _interrupt, _refresh_steps).
THEOREM NothingLeftBehind == Spec => []OverIsOver
<1>1. OverInv => OverIsOver
  <2> SUFFICES ASSUME OverInv, goal.status \in Settled \cup {"archived"}, loop.at # "interrupt",
                      crashes = 0, NEW t \in Tasks
               PROVE  ~Live(t)
    BY DEF OverIsOver, Live
  <2> QED BY DEF OverInv, CleanInv, OverQuiet, Over, Stopping
<1>2. Spec => []OverInv
  BY OverInit, OverStep, PTL DEF Spec
<1> QED BY <1>1, <1>2, PTL

=============================================================================
