-------------------------- MODULE CommandRunsProofs --------------------------
(***************************************************************************)
(* What holds of CommandRuns for every number of runs, watchers, request   *)
(* threads, output records, crashes and supervisor deaths: types, the      *)
(* refinement of CommandReceipts, and the output of a supervised run whose *)
(* journal fits one page.                                                  *)
(***************************************************************************)
EXTENDS CommandRuns, TLAPS

(***************************************************************************)
(* The inductive invariant.  A receipt is written from what a watcher saw; *)
(* it is true because an outcome, once decided, is never decided again.    *)
(***************************************************************************)

\* A process that was never launched has no outcome, and one that is over has one.
Sound(pr) ==
    /\ pr.child = "none" <=> pr.outcome = "none"
    /\ pr.sup # "none" => pr.child # "none"
    /\ pr.finished => pr.outcome \in Outcomes

ProcInv == \A r \in Runs : Sound(proc[r])

\* Nothing is launched before backend.start, and nothing after a contained receipt.
Early == {"new", "queued", "launch", "contain", "refuse"}

StarterInv ==
    \A r \in Runs :
        /\ starter[r].at \in Early => proc[r].outcome = "none"
        /\ row[r].receipt = "contained" => starter[r].at = "done"

\* A watcher on its way to the receipt carries the outcome of its run.
Carrying == {"load", "mark", "clear", "receipt"}

PumpInv ==
    \A p \in Pumps :
        pump[p].at \in Carrying =>
            pump[p].saw \in Outcomes /\ pump[p].saw = proc[pump[p].run].outcome

CommandsInv == CommandsTypeOK /\ ProcInv /\ StarterInv /\ PumpInv

----------------------------------------------------------------------------
LEMMA AnyRunType == AnyRun \in Runs
  BY RunsAssumption DEF AnyRun

LEMMA StatesFacts ==
    /\ {"none", "queued", "starting", "running", "finalizing"} \subseteq States
    /\ Terminal \subseteq States
    /\ Outcomes \subseteq Terminal
    /\ {"contained", "lost"} \subseteq Terminal
  BY DEF States, Terminal

\* What an idle thread holds is a watcher, or a call, like any other.
LEMMA IdleTypes == IdlePump \in PumpType /\ IdleCall \in CallType
  BY AnyRunType
  DEF IdlePump, IdleCall, Watcher, NewCall, PumpType, CallType, AllOps, States, NoPump

\* The columns of a row, written one at a time.
LEMMA RowTypes ==
  ASSUME CommandsTypeOK, NEW r \in Runs
  PROVE  /\ \A s \in States : [row EXCEPT ![r].state = s] \in [Runs -> RowType]
         /\ \A v \in Terminal : [row EXCEPT ![r].state = v, ![r].receipt = v] \in [Runs -> RowType]
         /\ \A b \in BOOLEAN : [row EXCEPT ![r].handle = b] \in [Runs -> RowType]
         /\ \A l \in {"none", "held", "lapsed"} : [row EXCEPT ![r].lease = l] \in [Runs -> RowType]
         /\ \A n \in Nat : [row EXCEPT ![r].chunks = n] \in [Runs -> RowType]
<1>0. row \in [Runs -> RowType]
  BY DEF CommandsTypeOK
<1>1. ASSUME NEW s \in States PROVE [row EXCEPT ![r].state = s] \in [Runs -> RowType]
  BY <1>0 DEF RowType
<1>2. ASSUME NEW v \in Terminal
      PROVE  [row EXCEPT ![r].state = v, ![r].receipt = v] \in [Runs -> RowType]
  BY <1>0, StatesFacts DEF RowType
<1>3. ASSUME NEW b \in BOOLEAN PROVE [row EXCEPT ![r].handle = b] \in [Runs -> RowType]
  BY <1>0 DEF RowType
<1>4. ASSUME NEW l \in {"none", "held", "lapsed"}
      PROVE  [row EXCEPT ![r].lease = l] \in [Runs -> RowType]
  BY <1>0 DEF RowType
<1>5. ASSUME NEW n \in Nat PROVE [row EXCEPT ![r].chunks = n] \in [Runs -> RowType]
  BY <1>0 DEF RowType
<1> QED BY <1>1, <1>2, <1>3, <1>4, <1>5

\* A compare-and-set leaves a row, and touches no receipt.
LEMMA TransitionRow ==
  ASSUME CommandsTypeOK, NEW r \in Runs, NEW c, NEW s \in States, Transition(r, c, s)
  PROVE  /\ row' \in [Runs -> RowType]
         /\ \A q \in Runs : row'[q].receipt = row[q].receipt
<1>1. row \in [Runs -> RowType]
  BY DEF CommandsTypeOK
<1>2. row' \in [Runs -> RowType]
  BY <1>1, RowTypes DEF Transition
<1>3. \A q \in Runs : row'[q].receipt = row[q].receipt
  BY <1>1 DEF Transition, RowType
<1> QED BY <1>2, <1>3

\* A receipt is one of the terminal states, and lands on its own run.
LEMMA FinalizeRow ==
  ASSUME CommandsTypeOK, NEW r \in Runs, NEW v \in Terminal, FinalizeWithReceipt(r, v)
  PROVE  /\ row' \in [Runs -> RowType]
         /\ row[r].receipt = "none" /\ row'[r].receipt = v
         /\ \A q \in Runs \ {r} : row'[q].receipt = row[q].receipt
<1>1. row \in [Runs -> RowType]
  BY DEF CommandsTypeOK
<1>2. row' \in [Runs -> RowType]
  BY RowTypes DEF FinalizeWithReceipt
<1>3. /\ row[r].receipt = "none" /\ row'[r].receipt = v
      /\ \A q \in Runs \ {r} : row'[q].receipt = row[q].receipt
  BY <1>1 DEF FinalizeWithReceipt, CanFinalize, RowType
<1> QED BY <1>2, <1>3

\* The position of a starter, of a watcher and of a call.
LEMMA StarterGoesType ==
  ASSUME CommandsTypeOK, NEW r \in Runs,
         NEW at \in {"queued", "launch", "contain", "refuse", "handle", "activate", "done"},
         StarterGoes(r, at)
  PROVE  starter' \in [Runs -> StarterType]
  BY DEF CommandsTypeOK, StarterGoes, StarterType

LEMMA PumpGoesType ==
  ASSUME CommandsTypeOK, NEW p \in Pumps, NEW at \in {"receipt", "pop"}, PumpGoes(p, at)
  PROVE  pump' \in [Pumps -> PumpType]
  BY DEF CommandsTypeOK, PumpGoes, PumpType

LEMMA WatcherType ==
  ASSUME NEW r \in Runs, NEW at \in {"watch", "load", "done"}, NEW saw \in {"none"} \cup Outcomes,
         NEW n \in Nat
  PROVE  Watcher(r, at, saw, n) \in PumpType
  BY StatesFacts DEF Watcher, PumpType

LEMMA SpawnType ==
  ASSUME CommandsTypeOK, NEW p \in Pumps, NEW r \in Runs, NEW n \in Nat, Spawn(p, r, n)
  PROVE  pump' \in [Pumps -> PumpType]
  BY WatcherType DEF CommandsTypeOK, Spawn

LEMMA PumpEndsType ==
  ASSUME CommandsTypeOK, NEW p \in Pumps, PumpEnds(p)
  PROVE  pump' \in [Pumps -> PumpType]
<1>1. pump[p].run \in Runs /\ pump[p].saw \in {"none"} \cup Outcomes
  BY DEF CommandsTypeOK, PumpType
<1> QED BY <1>1, WatcherType DEF CommandsTypeOK, PumpEnds

LEMMA PumpSeesType ==
  ASSUME CommandsTypeOK, NEW p \in Pumps, NEW o \in Outcomes, PumpSees(p, o)
  PROVE  pump' \in [Pumps -> PumpType]
<1>1. pump[p].run \in Runs
  BY DEF CommandsTypeOK, PumpType
<1> QED BY <1>1, WatcherType DEF CommandsTypeOK, PumpSees

LEMMA CallGoesType ==
  ASSUME CommandsTypeOK, NEW w \in Workers,
         NEW at \in {"load", "lease", "pop", "queue", "mark", "kill"}, CallGoes(w, at)
  PROVE  call' \in [Workers -> CallType]
  BY DEF CommandsTypeOK, CallGoes, CallType

LEMMA CallEndsType ==
  ASSUME CommandsTypeOK, NEW w \in Workers, CallEnds(w)
  PROVE  call' \in [Workers -> CallType]
  BY IdleTypes DEF CommandsTypeOK, CallEnds

LEMMA CallHolds ==
  ASSUME CommandsTypeOK, NEW w \in Workers
  PROVE  /\ call[w].run \in Runs /\ call[w].snap \in States /\ call[w].seq \in Nat
         /\ call[w].pump \in Pumps \cup {NoPump} /\ call[w] \in CallType
  BY DEF CommandsTypeOK, CallType

\* The fields of a call, written two at a time.
LEMMA CallTypes ==
  ASSUME CommandsTypeOK, NEW w \in Workers,
         NEW at \in {"kill", "attach", "set", "reload", "queue", "mark", "receipt"}
  PROVE  /\ \A s \in States : [call EXCEPT ![w].at = at, ![w].snap = s] \in [Workers -> CallType]
         /\ \A n \in Nat : [call EXCEPT ![w].at = at, ![w].seq = n] \in [Workers -> CallType]
         /\ \A p \in Pumps \cup {NoPump} :
               [call EXCEPT ![w].at = at, ![w].pump = p] \in [Workers -> CallType]
<1>0. call \in [Workers -> CallType]
  BY DEF CommandsTypeOK
<1>1. ASSUME NEW s \in States
      PROVE  [call EXCEPT ![w].at = at, ![w].snap = s] \in [Workers -> CallType]
  BY <1>0 DEF CallType
<1>2. ASSUME NEW n \in Nat
      PROVE  [call EXCEPT ![w].at = at, ![w].seq = n] \in [Workers -> CallType]
  BY <1>0 DEF CallType
<1>3. ASSUME NEW p \in Pumps \cup {NoPump}
      PROVE  [call EXCEPT ![w].at = at, ![w].pump = p] \in [Workers -> CallType]
  BY <1>0 DEF CallType
<1> QED BY <1>1, <1>2, <1>3

LEMMA NotReattachedType ==
  ASSUME CommandsTypeOK, NEW w \in Workers, NotReattached(w)
  PROVE  call' \in [Workers -> CallType]
<1>1. RecoverAt(call[w].snap) \in {"queue", "mark"}
  BY DEF RecoverAt
<1> QED BY <1>1, CallGoesType, CallEndsType DEF NotReattached

----------------------------------------------------------------------------
\* Every step of start() keeps the state well typed.
LEMMA StartType ==
  ASSUME CommandsTypeOK, NEW r \in Runs, Start(r) \/ \E k \in Kinds : Create(r, k)
  PROVE  CommandsTypeOK'
<1> USE StatesFacts
<1>1. ASSUME NEW k \in Kinds, Create(r, k) PROVE CommandsTypeOK'
  <2>0. row \in [Runs -> RowType] /\ k \in AllKinds
    BY KindsAssumption DEF CommandsTypeOK
  <2>a. row' = [row EXCEPT ![r].state = "queued", ![r].kind = k]
    BY <1>1 DEF Create
  <2>1. row' \in [Runs -> RowType]
    BY <2>0, <2>a DEF RowType
  <2>2. starter' \in [Runs -> StarterType]
    BY <1>1, StarterGoesType DEF Create
  <2> QED BY <1>1, <2>1, <2>2 DEF Create, CommandsTypeOK
<1>2. CASE MarkStarting(r)
  <2>1. row' \in [Runs -> RowType] /\ starter' \in [Runs -> StarterType]
    BY <1>2, TransitionRow, StarterGoesType DEF MarkStarting
  <2> QED BY <1>2, <2>1 DEF MarkStarting, CommandsTypeOK
<1>3. CASE Launch(r)
  <2> PICK p \in Pumps : /\ Spawn(p, r, 0)
                         /\ starter' = [starter EXCEPT ![r] = [at |-> "running", pump |-> p]]
    BY <1>3 DEF Launch
  <2>1. pump' \in [Pumps -> PumpType]
    BY SpawnType
  <2>a. proc \in [Runs -> ProcType]
    BY DEF CommandsTypeOK
  <2>b. \A s \in {"none", "up"} : NewProcess("alive", "running", s) \in ProcType
    BY DEF NewProcess, ProcType
  <2>2. proc' \in [Runs -> ProcType]
    BY <1>3, <2>a, <2>b DEF Launch
  <2>3. starter' \in [Runs -> StarterType]
    BY DEF StarterType, CommandsTypeOK
  <2> QED BY <1>3, <2>1, <2>2, <2>3 DEF Launch, CommandsTypeOK
<1>4. CASE LaunchFails(r)
  <2>1. starter' \in [Runs -> StarterType]
    BY <1>4, StarterGoesType DEF LaunchFails
  <2> QED BY <1>4, <2>1 DEF LaunchFails, CommandsTypeOK
<1>5. CASE Contain(r)
  <2>1. row' \in [Runs -> RowType] /\ starter' \in [Runs -> StarterType]
    BY <1>5, TransitionRow, StarterGoesType DEF Contain
  <2> QED BY <1>5, <2>1 DEF Contain, CommandsTypeOK
<1>6. CASE Refuse(r)
  <2>1. row' \in [Runs -> RowType]
    BY <1>6, FinalizeRow DEF Refuse, CommandsTypeOK
  <2>2. starter' \in [Runs -> StarterType]
    BY <1>6, StarterGoesType DEF Refuse
  <2> QED BY <1>6, <2>1, <2>2 DEF Refuse, CommandsTypeOK
<1>7. CASE MarkRunning(r)
  <2>1. row' \in [Runs -> RowType]
    BY <1>7, TransitionRow DEF MarkRunning
  <2>2. starter' \in [Runs -> StarterType]
    BY <1>7, StarterGoesType DEF MarkRunning
  <2> QED BY <1>7, <2>1, <2>2 DEF MarkRunning, CommandsTypeOK
<1>8. CASE RecordHandle(r)
  <2>1. row' \in [Runs -> RowType] /\ starter' \in [Runs -> StarterType]
    BY <1>8, RowTypes, StarterGoesType DEF RecordHandle
  <2> QED BY <1>8, <2>1 DEF RecordHandle, CommandsTypeOK
<1>9. CASE Activate(r)
  <2>1. starter[r].pump \in Pumps \cup {NoPump}
    BY DEF CommandsTypeOK, StarterType
  <2>2. active' \in [Runs -> Pumps \cup {NoPump}]
    BY <1>9, <2>1 DEF Activate, CommandsTypeOK
  <2>3. starter' \in [Runs -> StarterType]
    BY <1>9 DEF Activate, CommandsTypeOK, StarterType
  <2> QED BY <1>9, <2>2, <2>3 DEF Activate, CommandsTypeOK
<1>10. CASE StartLease(r)
  <2>1. row' \in [Runs -> RowType] /\ starter' \in [Runs -> StarterType]
    BY <1>10, RowTypes, StarterGoesType DEF StartLease
  <2>2. renewing' \in [Runs -> BOOLEAN]
    BY <1>10 DEF StartLease, CommandsTypeOK
  <2> QED BY <1>10, <2>1, <2>2 DEF StartLease, CommandsTypeOK
<1> QED BY <1>1, <1>2, <1>3, <1>4, <1>5, <1>6, <1>7, <1>8, <1>9, <1>10 DEF Start

\* So does every step of a watcher.
LEMMA PumpStepType ==
  ASSUME CommandsInv, NEW p \in Pumps, PumpStep(p)
  PROVE  CommandsTypeOK'
<1> USE StatesFacts
<1> DEFINE r == pump[p].run
<1>0. CommandsTypeOK /\ r \in Runs /\ pump[p] \in PumpType /\ proc[r] \in ProcType
  BY DEF CommandsInv, CommandsTypeOK, PumpType
<1>f. proc[r].finished => proc[r].outcome \in Outcomes
  BY <1>0 DEF CommandsInv, ProcInv, Sound
<1>r. Release(r) => proc' \in [Runs -> ProcType]
  <2>1. Supervised(r) \in BOOLEAN
    BY DEF Supervised
  <2> QED BY <1>0, <2>1 DEF Release, CommandsTypeOK, ProcType
<1> HIDE DEF r
<1>1. CASE PumpExit(p)
  <2>1. pump' \in [Pumps -> PumpType]
    BY <1>0, <1>1, <1>f, PumpSeesType DEF PumpExit, r
  <2> QED BY <1>0, <1>1, <2>1 DEF PumpExit, CommandsTypeOK
<1>2. CASE PumpRead(p)
  <2>1. pump[p].seq \in Nat /\ proc[r].journal \in Nat
    BY <1>0 DEF PumpType, ProcType
  <2> DEFINE n == IF proc[r].journal < pump[p].seq + PageSize THEN proc[r].journal
                  ELSE pump[p].seq + PageSize
  <2>2. n \in Nat
    BY <2>1, BoundsAssumption
  <2>3. pump' = [pump EXCEPT ![p].page = n, ![p].at = "page"]
    BY <1>2 DEF PumpRead, r
  <2> HIDE DEF n
  <2>4. pump' \in [Pumps -> PumpType]
    BY <1>0, <2>2, <2>3 DEF CommandsTypeOK, PumpType
  <2> QED BY <1>0, <1>2, <2>4 DEF PumpRead, CommandsTypeOK
<1>3. CASE PumpPage(p)
  <2> DEFINE fresh == pump[p].page > pump[p].seq
  <2>1. pump[p].page \in Nat /\ row[r].chunks \in Nat /\ proc[r].finished \in BOOLEAN
    BY <1>0 DEF PumpType, CommandsTypeOK, RowType, ProcType
  <2>2. CASE fresh /\ row[r].chunks # pump[p].seq
    <3>1. PumpEnds(p) /\ UNCHANGED row
      BY <1>3, <2>2 DEF PumpPage, r
    <3>2. pump' \in [Pumps -> PumpType]
      BY <1>0, <3>1, PumpEndsType
    <3> QED BY <1>0, <1>3, <3>1, <3>2 DEF PumpPage, CommandsTypeOK
  <2>3. CASE ~(fresh /\ row[r].chunks # pump[p].seq)
    <3> DEFINE n == IF fresh THEN pump[p].page ELSE row[r].chunks
    <3>a. n \in Nat
      BY <2>1
    <3>1. row' = [row EXCEPT ![r].chunks = n]
      BY <1>3, <2>3 DEF PumpPage, r
    <3> HIDE DEF n
    <3>2. row' \in [Runs -> RowType]
      BY <1>0, <3>a, <3>1, RowTypes
    <3>3. \/ proc[r].finished /\ PumpSees(p, proc[r].outcome)
          \/ pump' = [pump EXCEPT ![p].at = "watch", ![p].seq = pump[p].page,
                                  ![p].last = proc[r].finished]
      BY <1>3, <2>3 DEF PumpPage, r
    <3>4. pump' \in [Pumps -> PumpType]
      <4>1. CASE proc[r].finished /\ PumpSees(p, proc[r].outcome)
        BY <1>0, <1>f, <4>1, PumpSeesType
      <4>2. CASE pump' = [pump EXCEPT ![p].at = "watch", ![p].seq = pump[p].page,
                                      ![p].last = proc[r].finished]
        BY <1>0, <2>1, <4>2 DEF CommandsTypeOK, PumpType
      <4> QED BY <3>3, <4>1, <4>2
    <3> QED BY <1>0, <1>3, <3>2, <3>4 DEF PumpPage, CommandsTypeOK
  <2> QED BY <2>2, <2>3
<1>4. CASE PumpLosesSupervisor(p)
  <2>1. pump' \in [Pumps -> PumpType]
    BY <1>0, <1>4, PumpEndsType DEF PumpLosesSupervisor
  <2> QED BY <1>0, <1>4, <2>1 DEF PumpLosesSupervisor, CommandsTypeOK
<1>5. CASE PumpLoad(p)
  <2>1. row[r].state \in States
    BY <1>0 DEF CommandsTypeOK, RowType
  <2>2. proc' \in [Runs -> ProcType]
    BY <1>0, <1>5, <1>r DEF PumpLoad, CommandsTypeOK, r
  <2>3. \/ PumpEnds(p)
        \/ pump' = [pump EXCEPT ![p].cur = row[r].state, ![p].at = "mark"]
    BY <1>5 DEF PumpLoad, r
  <2>4. pump' \in [Pumps -> PumpType]
    <3>1. CASE PumpEnds(p)
      BY <1>0, <3>1, PumpEndsType
    <3>2. CASE pump' = [pump EXCEPT ![p].cur = row[r].state, ![p].at = "mark"]
      BY <1>0, <2>1, <3>2 DEF CommandsTypeOK, PumpType
    <3> QED BY <2>3, <3>1, <3>2
  <2> QED BY <1>0, <1>5, <2>2, <2>4 DEF PumpLoad, CommandsTypeOK
<1>6. CASE PumpMark(p)
  <2>1. row' \in [Runs -> RowType]
    BY <1>0, <1>6, TransitionRow DEF PumpMark, CommandsTypeOK, r
  <2>2. pump' \in [Pumps -> PumpType]
    BY <1>0, <1>6 DEF PumpMark, CommandsTypeOK, PumpType
  <2> QED BY <1>0, <1>6, <2>1, <2>2 DEF PumpMark, CommandsTypeOK
<1>7. CASE ClearHandle(p)
  <2>1. row' \in [Runs -> RowType] /\ pump' \in [Pumps -> PumpType]
    BY <1>0, <1>7, RowTypes, PumpGoesType DEF ClearHandle, r
  <2> QED BY <1>0, <1>7, <2>1 DEF ClearHandle, CommandsTypeOK
<1>8. CASE PumpReceipt(p)
  <2>1. pump[p].saw \in Terminal
    BY <1>8 DEF CommandsInv, PumpInv, PumpReceipt, Carrying
  <2>2. row' \in [Runs -> RowType]
    BY <1>0, <1>8, <2>1, FinalizeRow DEF PumpReceipt, CommandsTypeOK, r
  <2>3. pump' \in [Pumps -> PumpType]
    BY <1>0, <1>8, PumpEndsType, PumpGoesType DEF PumpReceipt
  <2> QED BY <1>0, <1>8, <2>2, <2>3 DEF PumpReceipt, CommandsTypeOK
<1>9. CASE PumpPop(p)
  <2>1. pump' \in [Pumps -> PumpType] /\ proc' \in [Runs -> ProcType]
    BY <1>0, <1>9, <1>r, PumpEndsType DEF PumpPop, r
  <2>2. active' \in [Runs -> Pumps \cup {NoPump}]
    BY <1>0, <1>9 DEF PumpPop, CommandsTypeOK
  <2> QED BY <1>0, <1>9, <2>1, <2>2 DEF PumpPop, CommandsTypeOK
<1> QED BY <1>1, <1>2, <1>3, <1>4, <1>5, <1>6, <1>7, <1>8, <1>9 DEF PumpStep

\* So does the lease.
LEMMA LeaseStepType ==
  ASSUME CommandsTypeOK, NEW r \in Runs, Renew(r) \/ StopRenewing(r) \/ Lapse(r)
  PROVE  CommandsTypeOK'
<1>1. CASE Renew(r) \/ Lapse(r)
  <2>0. PICK l \in {"held", "lapsed"} : row' = [row EXCEPT ![r].lease = l]
    BY <1>1 DEF Renew, Lapse, SetLease
  <2>a. row \in [Runs -> RowType]
    BY DEF CommandsTypeOK
  <2>1. row' \in [Runs -> RowType]
    BY <2>0, <2>a DEF RowType
  <2> QED BY <1>1, <2>1 DEF Renew, Lapse, CommandsTypeOK
<1>2. CASE StopRenewing(r)
  <2>1. renewing' \in [Runs -> BOOLEAN]
    BY <1>2 DEF StopRenewing, CommandsTypeOK
  <2> QED BY <1>2, <2>1 DEF StopRenewing, CommandsTypeOK
<1> QED BY <1>1, <1>2

\* What a kill leaves of a process is a process.
LEMMA KilledType ==
  ASSUME NEW pr \in ProcType
  PROVE  Killed(pr) \in ProcType
<1>1. CASE pr.finished \/ pr.child = "none"
  BY <1>1 DEF Killed
<1>2. CASE ~(pr.finished \/ pr.child = "none")
  <2> DEFINE o == IF pr.outcome = "running" THEN "cancelled" ELSE pr.outcome
  <2>1. o \in {"none", "running"} \cup Outcomes
    BY DEF ProcType, Outcomes
  <2>2. Killed(pr) = [pr EXCEPT !.outcome = o, !.child = "exited"]
    BY <1>2 DEF Killed
  <2> HIDE DEF o
  <2> QED BY <2>1, <2>2 DEF ProcType
<1> QED BY <1>1, <1>2

\* So is what is left of a process whose host has died.
LEMMA OwnExitType ==
  ASSUME NEW r, NEW pr \in ProcType
  PROVE  OwnExit(r, pr) \in ProcType
  BY DEF OwnExit, ProcType

\* So does every step of a call.
LEMMA CallStepType ==
  ASSUME CommandsTypeOK, NEW w \in Workers,
         CallStep(w) \/ \E op \in Ops, r \in Runs : Call(w, op, r)
  PROVE  CommandsTypeOK'
<1> USE StatesFacts, CallHolds
<1> DEFINE r == call[w].run
<1>0. call \in [Workers -> CallType] /\ row[r].state \in States /\ row[r].chunks \in Nat
      /\ active[r] \in Pumps \cup {NoPump}
  BY DEF CommandsTypeOK, RowType
<1>a. ASSUME NEW at \in {"kill", "reload"}
      PROVE  [call EXCEPT ![w].at = at, ![w].pump = active[r]] \in [Workers -> CallType]
  <2> DEFINE p == active[r]
  <2>1. p \in Pumps \cup {NoPump}
    BY <1>0
  <2> HIDE DEF p
  <2>2. [call EXCEPT ![w].at = at, ![w].pump = p] \in [Workers -> CallType]
    BY <2>1, CallTypes
  <2> QED BY <2>2 DEF p
<1>b. [call EXCEPT ![w].at = "attach", ![w].seq = row[r].chunks] \in [Workers -> CallType]
  <2> DEFINE n == row[r].chunks
  <2>1. n \in Nat
    BY <1>0
  <2> HIDE DEF n
  <2>2. [call EXCEPT ![w].at = "attach", ![w].seq = n] \in [Workers -> CallType]
    BY <2>1, CallTypes
  <2> QED BY <2>2 DEF n
<1>c. [call EXCEPT ![w].at = RecoverAt(row[r].state), ![w].snap = row[r].state]
         \in [Workers -> CallType]
  <2> DEFINE s == row[r].state
  <2>1. s \in States
    BY <1>0
  <2> HIDE DEF s
  <2>2. RecoverAt(s) \in {"queue", "mark"}
    BY DEF RecoverAt
  <2>3. [call EXCEPT ![w].at = RecoverAt(s), ![w].snap = s] \in [Workers -> CallType]
    BY <2>1, <2>2, CallTypes
  <2> QED BY <2>3 DEF s
<1>1. ASSUME NEW op \in Ops, NEW q \in Runs, Call(w, op, q) PROVE CommandsTypeOK'
  <2>1. NewCall("check", op, q, row[q].state, NoPump) \in CallType
    BY OpsAssumption DEF NewCall, CallType, CommandsTypeOK, RowType, NoPump
  <2>2. call' \in [Workers -> CallType]
    BY <1>0, <1>1, <2>1 DEF Call
  <2> QED BY <1>1, <2>2 DEF Call, CommandsTypeOK
<1>2. CASE CheckActive(w)
  <2>1. \/ CallGoes(w, "load") \/ CallEnds(w) \/ CallGoes(w, "pop")
        \/ call' = [call EXCEPT ![w].at = "kill", ![w].pump = active[r]]
    BY <1>2 DEF CheckActive
  <2>3. call' \in [Workers -> CallType]
    <3>1. CASE CallGoes(w, "load") \/ CallGoes(w, "pop")
      BY <3>1, CallGoesType
    <3>2. CASE CallEnds(w)
      BY <3>2, CallEndsType
    <3>3. CASE call' = [call EXCEPT ![w].at = "kill", ![w].pump = active[r]]
      BY <1>a, <3>3
    <3> QED BY <2>1, <3>1, <3>2, <3>3
  <2> QED BY <1>2, <2>3 DEF CheckActive, CommandsTypeOK
<1>3. CASE LoadHandle(w)
  <2>1. \/ call' = [call EXCEPT ![w].at = "attach", ![w].seq = row[r].chunks]
        \/ NotReattached(w)
    BY <1>3 DEF LoadHandle
  <2>2. call' \in [Workers -> CallType]
    <3>1. CASE call' = [call EXCEPT ![w].at = "attach", ![w].seq = row[r].chunks]
      BY <1>b, <3>1
    <3>2. CASE NotReattached(w)
      BY <3>2, NotReattachedType
    <3> QED BY <2>1, <3>1, <3>2
  <2> QED BY <1>3, <2>2 DEF LoadHandle, CommandsTypeOK
<1>4. CASE Attach(w)
  <2>1. ASSUME NEW p \in Pumps, Spawn(p, r, call[w].seq),
               call' = [call EXCEPT ![w] = NewCall("set", call[w].op, r, call[w].snap, p)]
        PROVE  pump' \in [Pumps -> PumpType] /\ call' \in [Workers -> CallType]
    <3>1. pump' \in [Pumps -> PumpType]
      BY <2>1, SpawnType
    <3>2. call' \in [Workers -> CallType]
      <4>1. NewCall("set", call[w].op, r, call[w].snap, p) \in CallType
        BY <1>0 DEF NewCall, CallType
      <4> QED BY <1>0, <2>1, <4>1
    <3> QED BY <3>1, <3>2
  <2>2. ASSUME NotReattached(w), UNCHANGED pump
        PROVE  pump' \in [Pumps -> PumpType] /\ call' \in [Workers -> CallType]
    BY <2>2, NotReattachedType DEF CommandsTypeOK
  <2>3. pump' \in [Pumps -> PumpType] /\ call' \in [Workers -> CallType]
    BY <1>4, <2>1, <2>2 DEF Attach
  <2> QED BY <1>4, <2>3 DEF Attach, CommandsTypeOK
<1>5. CASE SetActive(w)
  <2>1. active' \in [Runs -> Pumps \cup {NoPump}]
    BY <1>5 DEF SetActive, CommandsTypeOK
  <2>2. call' \in [Workers -> CallType]
    BY <1>5, CallGoesType DEF SetActive
  <2> QED BY <1>5, <2>1, <2>2 DEF SetActive, CommandsTypeOK
<1>6. CASE AttachLease(w)
  <2>1. row' \in [Runs -> RowType]
    BY <1>6, RowTypes DEF AttachLease, SetLease
  <2>2. renewing' \in [Runs -> BOOLEAN]
    BY <1>6 DEF AttachLease, CommandsTypeOK
  <2>3. call' \in [Workers -> CallType]
    BY <1>6, CallGoesType, CallEndsType DEF AttachLease
  <2> QED BY <1>6, <2>1, <2>2, <2>3 DEF AttachLease, CommandsTypeOK
<1>7. CASE PopActive(w)
  <2>1. active' \in [Runs -> Pumps \cup {NoPump}]
    BY <1>7 DEF PopActive, CommandsTypeOK
  <2>2. call' \in [Workers -> CallType]
    BY <1>7, <1>a DEF PopActive
  <2> QED BY <1>7, <2>1, <2>2 DEF PopActive, CommandsTypeOK
<1>8. CASE Reload(w)
  <2>2. \/ CallGoes(w, "kill") \/ CallEnds(w)
        \/ call' = [call EXCEPT ![w].at = RecoverAt(row[r].state), ![w].snap = row[r].state]
    BY <1>8 DEF Reload
  <2>3. call' \in [Workers -> CallType]
    <3>1. CASE CallGoes(w, "kill")
      BY <3>1, CallGoesType
    <3>2. CASE CallEnds(w)
      BY <3>2, CallEndsType
    <3>3. CASE call' = [call EXCEPT ![w].at = RecoverAt(row[r].state),
                                    ![w].snap = row[r].state]
      BY <1>c, <3>3
    <3> QED BY <2>2, <3>1, <3>2, <3>3
  <2> QED BY <1>8, <2>3 DEF Reload, CommandsTypeOK
<1>9. CASE RecoverQueued(w)
  <2>1. row' \in [Runs -> RowType]
    BY <1>9, TransitionRow DEF RecoverQueued
  <2>2. call' \in [Workers -> CallType]
    BY <1>0, <1>9, CallTypes DEF RecoverQueued
  <2> QED BY <1>9, <2>1, <2>2 DEF RecoverQueued, CommandsTypeOK
<1>10. CASE RecoverMark(w)
  <2>1. row' \in [Runs -> RowType]
    BY <1>10, TransitionRow DEF RecoverMark, CommandsTypeOK
  <2>2. call' \in [Workers -> CallType]
    BY <1>0, <1>10, CallTypes DEF RecoverMark
  <2> QED BY <1>10, <2>1, <2>2 DEF RecoverMark, CommandsTypeOK
<1>11. CASE RecoverReceipt(w)
  <2>1. row' \in [Runs -> RowType]
    BY <1>11, FinalizeRow DEF RecoverReceipt, CommandsTypeOK
  <2>2. call' \in [Workers -> CallType]
    BY <1>11, CallGoesType, CallEndsType DEF RecoverReceipt
  <2> QED BY <1>11, <2>1, <2>2 DEF RecoverReceipt, CommandsTypeOK
<1>12. CASE Terminate(w)
  <2>1. proc' \in [Runs -> ProcType]
    BY <1>12, KilledType DEF Terminate, CommandsTypeOK
  <2>2. call' \in [Workers -> CallType]
    BY <1>12, CallEndsType DEF Terminate
  <2> QED BY <1>12, <2>1, <2>2 DEF Terminate, CommandsTypeOK
<1> QED BY <1>1, <1>2, <1>3, <1>4, <1>5, <1>6, <1>7, <1>8, <1>9, <1>10, <1>11, <1>12
        DEF CallStep

\* So does every step of a process and its supervisor.
LEMMA WorldType ==
  ASSUME CommandsInv, NEW r \in Runs, World(r)
  PROVE  CommandsTypeOK'
<1>0. CommandsTypeOK /\ proc \in [Runs -> ProcType] /\ proc[r] \in ProcType
  BY DEF CommandsInv, CommandsTypeOK
<1>1. CASE ChildWrites(r)
  <2>1. proc' \in [Runs -> ProcType]
    BY <1>0, <1>1 DEF ChildWrites, ProcType
  <2> QED BY <1>0, <1>1, <2>1 DEF ChildWrites, CommandsTypeOK
<1>2. CASE ChildExits(r)
  <2>1. proc' \in [Runs -> ProcType]
    BY <1>0, <1>2 DEF ChildExits, ProcType
  <2> QED BY <1>0, <1>2, <2>1 DEF ChildExits, CommandsTypeOK
<1>3. CASE Finish(r)
  <2>1. PICK o \in Exits : proc' = [proc EXCEPT ![r].finished = TRUE,
                                                ![r].outcome = IF @ = "running" THEN o ELSE @]
    BY <1>3 DEF Finish
  <2> DEFINE v == IF proc[r].outcome = "running" THEN o ELSE proc[r].outcome
  <2>2. v \in {"none", "running"} \cup Outcomes
    BY <1>0, ExitsAssumption DEF ProcType, Outcomes
  <2>3. proc' = [proc EXCEPT ![r].finished = TRUE, ![r].outcome = v]
    BY <1>0, <2>1
  <2> HIDE DEF v
  <2>4. proc' \in [Runs -> ProcType]
    BY <1>0, <2>2, <2>3 DEF ProcType
  <2> QED BY <1>0, <1>3, <2>4 DEF Finish, CommandsTypeOK
<1>4. CASE Deadline(r)
  <2> DEFINE v == IF proc[r].outcome = "running" THEN "timed_out" ELSE proc[r].outcome
  <2>2. v \in {"none", "running"} \cup Outcomes
    BY <1>0 DEF ProcType, Outcomes
  <2>3. proc' = [proc EXCEPT ![r].outcome = v, ![r].child = "exited"]
    BY <1>0, <1>4 DEF Deadline
  <2> HIDE DEF v
  <2>4. proc' \in [Runs -> ProcType]
    BY <1>0, <2>2, <2>3 DEF ProcType
  <2> QED BY <1>0, <1>4, <2>4 DEF Deadline, CommandsTypeOK
<1>5. CASE SupervisorLeaves(r)
  <2>1. proc' \in [Runs -> ProcType]
    BY <1>0, <1>5 DEF SupervisorLeaves, ProcType
  <2> QED BY <1>0, <1>5, <2>1 DEF SupervisorLeaves, CommandsTypeOK
<1>6. CASE SupervisorDies(r)
  <2>1. proc' \in [Runs -> ProcType]
    BY <1>0, <1>6 DEF SupervisorDies, ProcType
  <2>2. faults' \in 0 .. MaxFaults
    BY <1>0, <1>6, BoundsAssumption DEF SupervisorDies, CommandsTypeOK
  <2> QED BY <1>0, <1>6, <2>1, <2>2 DEF SupervisorDies, CommandsTypeOK
<1> QED BY <1>1, <1>2, <1>3, <1>4, <1>5, <1>6 DEF World

\* What a shutdown leaves of a process.
Left(r) ==
    IF active[r] = NoPump THEN OwnExit(r, proc[r])
    ELSE [(IF Reaches(active[r]) THEN Killed(proc[r]) ELSE OwnExit(r, proc[r]))
             EXCEPT !.released = Supervised(r)]

LEMMA LeftType ==
  ASSUME CommandsTypeOK, NEW r \in Runs
  PROVE  Left(r) \in ProcType
<1>1. proc[r] \in ProcType /\ Supervised(r) \in BOOLEAN
  BY DEF CommandsTypeOK, Supervised
<1>2. Killed(proc[r]) \in ProcType /\ OwnExit(r, proc[r]) \in ProcType
  BY <1>1, KilledType, OwnExitType
<1>3. ASSUME NEW pr \in ProcType PROVE [pr EXCEPT !.released = Supervised(r)] \in ProcType
  BY <1>1 DEF ProcType
<1> QED BY <1>2, <1>3 DEF Left

\* So does the end of the host.
LEMMA StopType ==
  ASSUME CommandsTypeOK, Crash \/ Shutdown
  PROVE  CommandsTypeOK'
<1>0. HostStops
  BY DEF Crash, Shutdown
<1>1. proc' \in [Runs -> ProcType]
  <2>1. CASE Crash
    <3>1. \A r \in Runs : OwnExit(r, proc[r]) \in ProcType
      BY OwnExitType DEF CommandsTypeOK
    <3> QED BY <2>1, <3>1 DEF Crash
  <2>2. CASE Shutdown
    <3>1. proc' = [r \in Runs |-> Left(r)]
      BY <2>2 DEF Shutdown, Left
    <3> QED BY <3>1, LeftType
  <2> QED BY <2>1, <2>2
<1>2. active' \in [Runs -> Pumps \cup {NoPump}] /\ renewing' \in [Runs -> BOOLEAN]
  BY <1>0 DEF HostStops
<1>3. pump' \in [Pumps -> PumpType] /\ call' \in [Workers -> CallType]
  BY <1>0, IdleTypes DEF HostStops
<1>4. starter' \in [Runs -> StarterType]
  BY <1>0 DEF HostStops, StarterType
<1>5. crashes' \in 0 .. MaxCrashes
  BY <1>0, BoundsAssumption DEF HostStops, CommandsTypeOK
<1> QED BY <1>0, <1>1, <1>2, <1>3, <1>4, <1>5 DEF HostStops, CommandsTypeOK

----------------------------------------------------------------------------
(***************************************************************************)
(* What every step but a launch does, in four parts: an outcome is decided *)
(* at most once; a watcher carries the outcome of its run; a starter goes  *)
(* forward; and at most one receipt is written, a true one.                *)
(***************************************************************************)
Evolves(a, b) == b.outcome = a.outcome \/ (a.outcome = "running" /\ b.outcome \in Outcomes)

ProcTame == \A q \in Runs : Sound(proc'[q]) /\ Evolves(proc[q], proc'[q])

PumpTame ==
    \A p \in Pumps :
        pump'[p].at \in Carrying =>
            pump'[p].saw \in Outcomes /\ pump'[p].saw = proc[pump'[p].run].outcome

StarterTame ==
    \A q \in Runs : /\ starter'[q].at \in Early => starter[q].at \in Early
                    /\ starter[q].at = "done" => starter'[q].at = "done"

Keeps == \A q \in Runs : row'[q].receipt = row[q].receipt

Settles(r, v) ==
    /\ row[r].receipt = "none"
    /\ row'[r].receipt = v
    /\ \A q \in Runs \ {r} : row'[q].receipt = row[q].receipt
    /\ v \in Outcomes => v = proc[r].outcome
    /\ v = "contained" => proc[r].outcome = "none" /\ starter'[r].at = "done"
    /\ UNCHANGED proc

RowTame == Keeps \/ \E r \in Runs, v \in Outcomes \cup {"lost", "contained"} : Settles(r, v)

Tame == ProcTame /\ PumpTame /\ StarterTame /\ RowTame

\* What a step does not touch stays as it was.
LEMMA Untouched ==
  ASSUME CommandsInv
  PROVE  /\ UNCHANGED proc => ProcTame
         /\ UNCHANGED pump => PumpTame
         /\ UNCHANGED starter => StarterTame
         /\ UNCHANGED row => RowTame
         /\ Keeps => RowTame
  BY DEF CommandsInv, ProcInv, PumpInv, ProcTame, PumpTame, StarterTame, RowTame, Keeps, Evolves

LEMMA SetLeaseKeeps ==
  ASSUME CommandsTypeOK, NEW r \in Runs, NEW l, SetLease(r, l)
  PROVE  Keeps
  BY DEF CommandsTypeOK, SetLease, Keeps, RowType

\* A watcher that starts or ends carries nothing.
LEMMA SpawnTame ==
  ASSUME CommandsInv, NEW p \in Pumps, NEW r \in Runs, NEW n, Spawn(p, r, n)
  PROVE  PumpTame
  BY DEF CommandsInv, CommandsTypeOK, PumpInv, Spawn, Watcher, PumpTame, Carrying

LEMMA PumpEndsTame ==
  ASSUME CommandsInv, NEW p \in Pumps, PumpEnds(p)
  PROVE  PumpTame
  BY DEF CommandsInv, CommandsTypeOK, PumpInv, PumpEnds, Watcher, PumpTame, Carrying

LEMMA PumpSeesTame ==
  ASSUME CommandsInv, NEW p \in Pumps, proc[pump[p].run].finished,
         PumpSees(p, proc[pump[p].run].outcome)
  PROVE  PumpTame
<1>1. pump[p].run \in Runs
  BY DEF CommandsInv, CommandsTypeOK, PumpType
<1>2. proc[pump[p].run].outcome \in Outcomes
  BY <1>1 DEF CommandsInv, ProcInv, Sound
<1> QED BY <1>1, <1>2 DEF CommandsInv, CommandsTypeOK, PumpInv, PumpSees, Watcher, PumpTame

LEMMA StarterGoesTame ==
  ASSUME CommandsInv, NEW r \in Runs, NEW at, StarterGoes(r, at),
         at \in Early => starter[r].at \in Early, starter[r].at # "done"
  PROVE  StarterTame
  BY DEF CommandsInv, CommandsTypeOK, StarterGoes, StarterTame, StarterType

\* A release changes nothing but its flag.
LEMMA ReleaseTame ==
  ASSUME CommandsInv, NEW r \in Runs, Release(r)
  PROVE  ProcTame
<1>1. proc \in [Runs -> ProcType] /\ \A q \in Runs : Sound(proc[q])
  BY DEF CommandsInv, CommandsTypeOK, ProcInv
<1> QED BY <1>1 DEF Release, ProcTame, ProcType, Sound, Evolves

----------------------------------------------------------------------------
LEMMA StartTame ==
  ASSUME CommandsInv, NEW r \in Runs, Start(r) \/ \E k \in Kinds : Create(r, k), ~Launch(r)
  PROVE  Tame
<1> USE Untouched
<1>0. CommandsTypeOK /\ row \in [Runs -> RowType]
  BY DEF CommandsInv, CommandsTypeOK
<1>1. ASSUME NEW k \in Kinds, Create(r, k) PROVE Tame
  <2>a. row' = [row EXCEPT ![r].state = "queued", ![r].kind = k]
    BY <1>1 DEF Create
  <2>1. Keeps
    BY <1>0, <2>a DEF Keeps, RowType
  <2>2. StarterTame
    BY <1>1, StarterGoesTame DEF Create, Early
  <2> QED BY <1>1, <2>1, <2>2 DEF Create, Tame
<1>2. CASE MarkStarting(r)
  <2>1. Keeps
    BY <1>0, <1>2, TransitionRow, StatesFacts DEF MarkStarting, Keeps
  <2>2. StarterTame
    BY <1>2, StarterGoesTame DEF MarkStarting, Early
  <2> QED BY <1>2, <2>1, <2>2 DEF MarkStarting, Tame
<1>4. CASE LaunchFails(r)
  <2>2. StarterTame
    BY <1>4, StarterGoesTame DEF LaunchFails, Early
  <2> QED BY <1>4, <2>2 DEF LaunchFails, Tame
<1>5. CASE Contain(r)
  <2>1. Keeps
    BY <1>0, <1>5, TransitionRow, StatesFacts DEF Contain, Keeps
  <2>2. StarterTame
    BY <1>5, StarterGoesTame DEF Contain, Early
  <2> QED BY <1>5, <2>1, <2>2 DEF Contain, Tame
<1>6. CASE Refuse(r)
  <2>1. StarterTame
    BY <1>6, StarterGoesTame DEF Refuse, Early
  <2>2. RowTame
    <3>1. CASE FinalizeWithReceipt(r, "contained")
      <4>1. proc[r].outcome = "none"
        BY <1>6 DEF Refuse, CommandsInv, StarterInv, Early
      <4>2. starter'[r].at = "done"
        BY <1>0, <1>6 DEF Refuse, StarterGoes, CommandsTypeOK, StarterType
      <4>3. "contained" \in Terminal /\ "contained" \notin Outcomes
        BY DEF Terminal, Outcomes
      <4>4. Settles(r, "contained")
        BY <1>0, <1>6, <3>1, <4>1, <4>2, <4>3, FinalizeRow DEF Refuse, Settles
      <4> QED BY <4>4 DEF RowTame
    <3>2. CASE UNCHANGED row
      BY <3>2
    <3> QED BY <1>6, <3>1, <3>2 DEF Refuse
  <2> QED BY <1>6, <2>1, <2>2 DEF Refuse, Tame
<1>7. CASE MarkRunning(r)
  <2>1. Keeps
    BY <1>0, <1>7, TransitionRow, StatesFacts DEF MarkRunning, Keeps
  <2>2. StarterTame
    BY <1>7, StarterGoesTame DEF MarkRunning, Early
  <2> QED BY <1>7, <2>1, <2>2 DEF MarkRunning, Tame
<1>8. CASE RecordHandle(r)
  <2>1. Keeps
    BY <1>0, <1>8 DEF RecordHandle, Keeps, RowType
  <2>2. StarterTame
    BY <1>8, StarterGoesTame DEF RecordHandle, Early
  <2> QED BY <1>8, <2>1, <2>2 DEF RecordHandle, Tame
<1>9. CASE Activate(r)
  <2>1. StarterTame
    BY <1>0, <1>9 DEF Activate, CommandsTypeOK, StarterTame, Early
  <2> QED BY <1>9, <2>1 DEF Activate, Tame
<1>10. CASE StartLease(r)
  <2>1. Keeps
    BY <1>0, <1>10 DEF StartLease, Keeps, RowType
  <2>2. StarterTame
    BY <1>10, StarterGoesTame DEF StartLease, Early
  <2> QED BY <1>10, <2>1, <2>2 DEF StartLease, Tame
<1> QED BY <1>1, <1>2, <1>4, <1>5, <1>6, <1>7, <1>8, <1>9, <1>10 DEF Start

LEMMA PumpStepTame ==
  ASSUME CommandsInv, NEW p \in Pumps, PumpStep(p)
  PROVE  Tame
<1> USE Untouched
<1> DEFINE r == pump[p].run
<1>0. CommandsTypeOK /\ r \in Runs /\ row \in [Runs -> RowType] /\ pump \in [Pumps -> PumpType]
  BY DEF CommandsInv, CommandsTypeOK, PumpType
<1>i. PumpInv
  BY DEF CommandsInv
<1> HIDE DEF r
<1>1. CASE PumpExit(p)
  <2>1. PumpTame
    BY <1>1, PumpSeesTame DEF PumpExit
  <2> QED BY <1>1, <2>1 DEF PumpExit, Tame
<1>2. CASE PumpRead(p)
  <2>1. PumpTame
    BY <1>0, <1>i, <1>2 DEF PumpRead, PumpInv, PumpTame, Carrying, PumpType
  <2> QED BY <1>2, <2>1 DEF PumpRead, Tame
<1>3. CASE PumpPage(p)
  <2>1. Keeps
    BY <1>0, <1>3 DEF PumpPage, Keeps, RowType
  <2>2. \/ PumpEnds(p)
        \/ proc[pump[p].run].finished /\ PumpSees(p, proc[pump[p].run].outcome)
        \/ pump' = [pump EXCEPT ![p].at = "watch", ![p].seq = pump[p].page,
                                ![p].last = proc[pump[p].run].finished]
    BY <1>3 DEF PumpPage
  <2>3. PumpTame
    <3>1. CASE PumpEnds(p)
      BY <3>1, PumpEndsTame
    <3>2. CASE proc[pump[p].run].finished /\ PumpSees(p, proc[pump[p].run].outcome)
      BY <3>2, PumpSeesTame
    <3>3. CASE pump' = [pump EXCEPT ![p].at = "watch", ![p].seq = pump[p].page,
                                    ![p].last = proc[pump[p].run].finished]
      BY <1>0, <1>i, <3>3 DEF PumpInv, PumpTame, Carrying, PumpType
    <3> QED BY <2>2, <3>1, <3>2, <3>3
  <2> QED BY <1>3, <2>1, <2>3 DEF PumpPage, Tame
<1>4. CASE PumpLosesSupervisor(p)
  <2>1. PumpTame
    BY <1>4, PumpEndsTame DEF PumpLosesSupervisor
  <2> QED BY <1>4, <2>1 DEF PumpLosesSupervisor, Tame
<1>5. CASE PumpLoad(p)
  <2>1. ProcTame
    BY <1>0, <1>5, ReleaseTame DEF PumpLoad, r
  <2>2. PumpTame
    <3>1. CASE PumpEnds(p)
      BY <3>1, PumpEndsTame
    <3>2. CASE pump' = [pump EXCEPT ![p].cur = row[r].state, ![p].at = "mark"]
      BY <1>0, <1>i, <1>5, <3>2 DEF PumpLoad, PumpInv, PumpTame, Carrying, PumpType
    <3> QED BY <1>5, <3>1, <3>2 DEF PumpLoad, r
  <2> QED BY <1>5, <2>1, <2>2 DEF PumpLoad, Tame
<1>6. CASE PumpMark(p)
  <2>1. Keeps
    BY <1>0, <1>6, TransitionRow, StatesFacts DEF PumpMark, Keeps, r
  <2>2. PumpTame
    BY <1>0, <1>i, <1>6 DEF PumpMark, PumpInv, PumpTame, Carrying, PumpType
  <2> QED BY <1>6, <2>1, <2>2 DEF PumpMark, Tame
<1>7. CASE ClearHandle(p)
  <2>1. Keeps
    BY <1>0, <1>7 DEF ClearHandle, Keeps, RowType, r
  <2>2. PumpTame
    BY <1>0, <1>i, <1>7 DEF ClearHandle, PumpGoes, PumpInv, PumpTame, Carrying, PumpType
  <2> QED BY <1>7, <2>1, <2>2 DEF ClearHandle, Tame
<1>8. CASE PumpReceipt(p)
  <2>1. pump[p].saw \in Outcomes /\ pump[p].saw = proc[r].outcome
    BY <1>i, <1>8 DEF PumpReceipt, PumpInv, Carrying, r
  <2>2. RowTame
    <3>1. CASE FinalizeWithReceipt(r, pump[p].saw)
      <4>1. pump[p].saw # "contained"
        BY <2>1 DEF Outcomes
      <4>2. Settles(r, pump[p].saw)
        BY <1>0, <1>8, <2>1, <3>1, <4>1, FinalizeRow, StatesFacts DEF PumpReceipt, Settles
      <4> QED BY <1>0, <2>1, <4>2 DEF RowTame
    <3>2. CASE UNCHANGED row
      BY <3>2
    <3> QED BY <1>8, <3>1, <3>2 DEF PumpReceipt, r
  <2>3. PumpTame
    <3>1. CASE PumpEnds(p)
      BY <3>1, PumpEndsTame
    <3>2. CASE PumpGoes(p, "pop")
      BY <1>0, <1>i, <3>2 DEF PumpGoes, PumpInv, PumpTame, Carrying, PumpType
    <3> QED BY <1>8, <3>1, <3>2 DEF PumpReceipt
  <2> QED BY <1>8, <2>2, <2>3 DEF PumpReceipt, Tame
<1>9. CASE PumpPop(p)
  <2>1. PumpTame /\ ProcTame
    BY <1>0, <1>9, PumpEndsTame, ReleaseTame DEF PumpPop, r
  <2> QED BY <1>9, <2>1 DEF PumpPop, Tame
<1> QED BY <1>1, <1>2, <1>3, <1>4, <1>5, <1>6, <1>7, <1>8, <1>9 DEF PumpStep

LEMMA LeaseStepTame ==
  ASSUME CommandsInv, NEW r \in Runs, Renew(r) \/ StopRenewing(r) \/ Lapse(r)
  PROVE  Tame
<1>1. Keeps
  BY SetLeaseKeeps DEF CommandsInv, Renew, StopRenewing, Lapse, Keeps
<1> QED BY <1>1, Untouched DEF Renew, StopRenewing, Lapse, Tame

\* A kill decides an outcome only if nothing had.
LEMMA KilledTame ==
  ASSUME NEW pr \in ProcType, Sound(pr)
  PROVE  Sound(Killed(pr)) /\ Evolves(pr, Killed(pr))
<1>1. CASE pr.finished \/ pr.child = "none"
  BY <1>1 DEF Killed, Evolves
<1>2. CASE ~(pr.finished \/ pr.child = "none")
  <2> DEFINE o == IF pr.outcome = "running" THEN "cancelled" ELSE pr.outcome
  <2>1. o # "none" /\ (o = pr.outcome \/ (pr.outcome = "running" /\ o \in Outcomes))
    BY <1>2 DEF ProcType, Outcomes, Sound
  <2>2. Killed(pr) = [pr EXCEPT !.outcome = o, !.child = "exited"]
    BY <1>2 DEF Killed
  <2> HIDE DEF o
  <2>3. /\ Killed(pr).outcome = o /\ Killed(pr).child = "exited"
        /\ Killed(pr).finished = pr.finished
    BY <2>2 DEF ProcType
  <2> QED BY <1>2, <2>1, <2>3 DEF Sound, Evolves
<1> QED BY <1>1, <1>2

LEMMA OwnExitTame ==
  ASSUME NEW r, NEW pr \in ProcType, Sound(pr)
  PROVE  Sound(OwnExit(r, pr)) /\ Evolves(pr, OwnExit(r, pr))
  BY DEF OwnExit, ProcType, Sound, Evolves

LEMMA CallStepTame ==
  ASSUME CommandsInv, NEW w \in Workers,
         CallStep(w) \/ \E op \in Ops, r \in Runs : Call(w, op, r)
  PROVE  Tame
<1> USE Untouched
<1> DEFINE r == call[w].run
<1>0. CommandsTypeOK /\ r \in Runs /\ row \in [Runs -> RowType]
  BY CallHolds DEF CommandsInv, CommandsTypeOK
<1> HIDE DEF r
<1>1. CASE \E op \in Ops, q \in Runs : Call(w, op, q)
  BY <1>1 DEF Call, Tame
<1>2. CASE CheckActive(w) \/ LoadHandle(w) \/ SetActive(w) \/ PopActive(w) \/ Reload(w)
  BY <1>2 DEF CheckActive, LoadHandle, SetActive, PopActive, Reload, Tame
<1>4. CASE Attach(w)
  <2>1. PumpTame
    BY <1>0, <1>4, SpawnTame DEF Attach, r
  <2> QED BY <1>4, <2>1 DEF Attach, Tame
<1>6. CASE AttachLease(w)
  <2>1. Keeps
    BY <1>0, <1>6, SetLeaseKeeps DEF AttachLease, r
  <2> QED BY <1>6, <2>1 DEF AttachLease, Tame
<1>9. CASE RecoverQueued(w)
  <2>1. Keeps
    BY <1>0, <1>9, TransitionRow, StatesFacts DEF RecoverQueued, Keeps, r
  <2> QED BY <1>9, <2>1 DEF RecoverQueued, Tame
<1>10. CASE RecoverMark(w)
  <2>1. Keeps
    BY <1>0, <1>10, TransitionRow, StatesFacts DEF RecoverMark, Keeps, r
  <2> QED BY <1>10, <2>1 DEF RecoverMark, Tame
<1>11. CASE RecoverReceipt(w)
  <2>1. RowTame
    <3>1. CASE FinalizeWithReceipt(r, "lost")
      <4>1. "lost" \in Terminal /\ "lost" \notin Outcomes
        BY DEF Terminal, Outcomes
      <4>2. Settles(r, "lost")
        BY <1>0, <1>11, <3>1, <4>1, FinalizeRow DEF RecoverReceipt, Settles
      <4> QED BY <1>0, <4>2 DEF RowTame
    <3>2. CASE UNCHANGED row
      BY <3>2
    <3> QED BY <1>11, <3>1, <3>2 DEF RecoverReceipt, r
  <2> QED BY <1>11, <2>1 DEF RecoverReceipt, Tame
<1>12. CASE Terminate(w)
  <2>1. \A q \in Runs : /\ proc[q] \in ProcType /\ Sound(proc[q])
                        /\ Sound(Killed(proc[q])) /\ Evolves(proc[q], Killed(proc[q]))
    BY KilledTame DEF CommandsInv, CommandsTypeOK, ProcInv
  <2>2. ProcTame
    <3>1. CASE UNCHANGED proc
      BY <3>1
    <3>2. ASSUME NEW x, proc' = [proc EXCEPT ![x] = Killed(@)] PROVE ProcTame
      BY <1>0, <2>1, <3>2 DEF CommandsTypeOK, ProcTame, Evolves
    <3> QED BY <1>12, <3>1, <3>2 DEF Terminate
  <2> QED BY <1>12, <2>2 DEF Terminate, Tame
<1> QED BY <1>1, <1>2, <1>4, <1>6, <1>9, <1>10, <1>11, <1>12 DEF CallStep

LEMMA WorldTame ==
  ASSUME CommandsInv, NEW r \in Runs, World(r)
  PROVE  Tame
<1> USE Untouched
<1>0. /\ proc \in [Runs -> ProcType] /\ proc[r] \in ProcType
      /\ \A q \in Runs : Sound(proc[q])
  BY DEF CommandsInv, CommandsTypeOK, ProcInv
<1>1. CASE ChildWrites(r)
  <2>1. ProcTame
    BY <1>0, <1>1 DEF ChildWrites, ProcTame, ProcType, Sound, Evolves
  <2> QED BY <1>1, <2>1 DEF ChildWrites, Tame
<1>2. CASE ChildExits(r)
  <2>1. ProcTame
    BY <1>0, <1>2 DEF ChildExits, ProcTame, ProcType, Sound, Evolves
  <2> QED BY <1>2, <2>1 DEF ChildExits, Tame
<1>3. CASE Finish(r)
  <2>1. PICK o \in Exits : proc' = [proc EXCEPT ![r].finished = TRUE,
                                                ![r].outcome = IF @ = "running" THEN o ELSE @]
    BY <1>3 DEF Finish
  <2> DEFINE v == IF proc[r].outcome = "running" THEN o ELSE proc[r].outcome
  <2>2. v \in Outcomes /\ (v = proc[r].outcome \/ proc[r].outcome = "running")
    <3>1. proc[r].outcome # "none"
      BY <1>0, <1>3 DEF Finish, Sound
    <3> QED BY <1>0, <3>1, ExitsAssumption DEF ProcType, Outcomes
  <2>3. proc' = [proc EXCEPT ![r].finished = TRUE, ![r].outcome = v]
    BY <1>0, <2>1
  <2>a. proc[r].child = "exited"
    BY <1>3 DEF Finish
  <2> HIDE DEF v
  <2>4. v # "none"
    BY <2>2 DEF Outcomes
  <2>5. ProcTame
    BY <1>0, <2>2, <2>3, <2>4, <2>a DEF ProcTame, ProcType, Sound, Evolves
  <2> QED BY <1>3, <2>5 DEF Finish, Tame
<1>4. CASE Deadline(r)
  <2> DEFINE v == IF proc[r].outcome = "running" THEN "timed_out" ELSE proc[r].outcome
  <2>2. v \in Outcomes /\ (v = proc[r].outcome \/ proc[r].outcome = "running")
    <3>1. proc[r].outcome # "none"
      BY <1>0, <1>4 DEF Deadline, Sound
    <3> QED BY <1>0, <3>1 DEF ProcType, Outcomes
  <2>3. proc' = [proc EXCEPT ![r].outcome = v, ![r].child = "exited"]
    BY <1>0, <1>4 DEF Deadline
  <2> HIDE DEF v
  <2>4. v # "none"
    BY <2>2 DEF Outcomes
  <2>5. ProcTame
    BY <1>0, <2>2, <2>3, <2>4 DEF ProcTame, ProcType, Sound, Evolves
  <2> QED BY <1>4, <2>5 DEF Deadline, Tame
<1>5. CASE SupervisorLeaves(r)
  <2>1. ProcTame
    BY <1>0, <1>5 DEF SupervisorLeaves, ProcTame, ProcType, Sound, Evolves
  <2> QED BY <1>5, <2>1 DEF SupervisorLeaves, Tame
<1>6. CASE SupervisorDies(r)
  <2>1. ProcTame
    BY <1>0, <1>6 DEF SupervisorDies, ProcTame, ProcType, Sound, Evolves
  <2> QED BY <1>6, <2>1 DEF SupervisorDies, Tame
<1> QED BY <1>1, <1>2, <1>3, <1>4, <1>5, <1>6 DEF World

LEMMA StopTame ==
  ASSUME CommandsInv, Crash \/ Shutdown
  PROVE  Tame
<1>0. HostStops /\ CommandsTypeOK
  BY DEF Crash, Shutdown, CommandsInv
<1>1. \A r \in Runs : /\ proc[r] \in ProcType /\ Sound(proc[r])
                      /\ Sound(Killed(proc[r])) /\ Evolves(proc[r], Killed(proc[r]))
                      /\ Killed(proc[r]) \in ProcType
                      /\ Sound(OwnExit(r, proc[r])) /\ Evolves(proc[r], OwnExit(r, proc[r]))
                      /\ OwnExit(r, proc[r]) \in ProcType
  BY KilledTame, KilledType, OwnExitTame, OwnExitType DEF CommandsInv, CommandsTypeOK, ProcInv
<1>2. ProcTame
  <2>1. CASE Crash
    BY <1>1, <2>1 DEF Crash, ProcTame
  <2>2. CASE Shutdown
    <3>1. proc' = [r \in Runs |-> Left(r)]
      BY <2>2 DEF Shutdown, Left
    <3>2. ASSUME NEW r \in Runs, NEW pr \in ProcType, Sound(pr), Evolves(proc[r], pr)
          PROVE  /\ Sound([pr EXCEPT !.released = Supervised(r)])
                 /\ Evolves(proc[r], [pr EXCEPT !.released = Supervised(r)])
      BY <3>2 DEF ProcType, Sound, Evolves
    <3>3. ASSUME NEW r \in Runs PROVE Sound(Left(r)) /\ Evolves(proc[r], Left(r))
      BY <1>1, <3>2 DEF Left
    <3> QED BY <3>1, <3>3 DEF ProcTame
  <2> QED BY <2>1, <2>2
<1>3. PumpTame
  BY <1>0 DEF HostStops, PumpTame, IdlePump, Watcher, Carrying
<1>4. StarterTame
  BY <1>0 DEF HostStops, StarterTame, Early
<1>5. RowTame
  BY <1>0, Untouched DEF HostStops
<1> QED BY <1>2, <1>3, <1>4, <1>5 DEF Tame

----------------------------------------------------------------------------
\* A tame step keeps the invariant: an outcome a watcher carries is decided already.
LEMMA TameKeepsInv ==
  ASSUME CommandsInv, CommandsTypeOK', Tame
  PROVE  CommandsInv'
<1>0. /\ ProcInv /\ StarterInv /\ ProcTame /\ PumpTame /\ StarterTame /\ RowTame
      /\ pump' \in [Pumps -> PumpType]
  BY DEF CommandsInv, Tame, CommandsTypeOK
<1>1. ProcInv'
  BY <1>0 DEF ProcTame, ProcInv
<1>2. StarterInv'
  <2>1. \A r \in Runs : starter'[r].at \in Early => proc'[r].outcome = "none"
    BY <1>0 DEF StarterInv, StarterTame, ProcTame, Evolves
  <2>2. ASSUME NEW r \in Runs, row'[r].receipt = "contained" PROVE starter'[r].at = "done"
    <3>1. CASE Keeps
      BY <1>0, <2>2, <3>1 DEF Keeps, StarterInv, StarterTame
    <3>2. ASSUME NEW q \in Runs, NEW v \in Outcomes \cup {"lost", "contained"}, Settles(q, v)
          PROVE  starter'[r].at = "done"
      BY <1>0, <2>2, <3>2 DEF Settles, StarterInv, StarterTame
    <3> QED BY <1>0, <3>1, <3>2 DEF RowTame
  <2> QED BY <2>1, <2>2 DEF StarterInv
<1>3. PumpInv'
  <2> SUFFICES ASSUME NEW p \in Pumps, pump'[p].at \in Carrying
               PROVE  pump'[p].saw \in Outcomes /\ pump'[p].saw = proc'[pump'[p].run].outcome
    BY DEF PumpInv
  <2>1. pump'[p].saw \in Outcomes /\ pump'[p].saw = proc[pump'[p].run].outcome
    BY <1>0 DEF PumpTame
  <2>2. pump'[p].run \in Runs
    BY <1>0 DEF PumpType
  <2>3. "running" \notin Outcomes
    BY DEF Outcomes
  <2> QED BY <1>0, <2>1, <2>2, <2>3 DEF ProcTame, Evolves
<1> QED BY <1>1, <1>2, <1>3 DEF CommandsInv

\* So does a launch: nobody can be carrying the outcome of a process that was not there.
LEMMA LaunchKeepsInv ==
  ASSUME CommandsInv, CommandsTypeOK', NEW r \in Runs, Launch(r)
  PROVE  CommandsInv'
<1>0. /\ CommandsTypeOK /\ ProcInv /\ StarterInv /\ PumpInv
      /\ proc \in [Runs -> ProcType] /\ pump' \in [Pumps -> PumpType]
      /\ starter \in [Runs -> StarterType]
  BY DEF CommandsInv, CommandsTypeOK
<1>1. PICK p \in Pumps : /\ Spawn(p, r, 0)
                         /\ starter' = [starter EXCEPT ![r] = [at |-> "running", pump |-> p]]
  BY DEF Launch
<1>2. PICK n \in {"none", "up"} :
         proc' = [proc EXCEPT ![r] = NewProcess("alive", "running", n)]
  BY DEF Launch
<1>3. starter[r].at = "launch" /\ UNCHANGED row
  BY DEF Launch
<1>4. proc[r].outcome = "none"
  BY <1>0, <1>3 DEF StarterInv, Early
<1>5. ProcInv'
  BY <1>0, <1>2 DEF ProcInv, Sound, NewProcess
<1>6. StarterInv'
  <2>1. \A q \in Runs : starter'[q].at \in Early => proc'[q].outcome = "none"
    BY <1>0, <1>1, <1>2 DEF StarterInv, Early
  <2>2. \A q \in Runs : row'[q].receipt = "contained" => starter'[q].at = "done"
    BY <1>0, <1>1, <1>3 DEF StarterInv
  <2> QED BY <2>1, <2>2 DEF StarterInv
<1>7. PumpInv'
  <2> SUFFICES ASSUME NEW q \in Pumps, pump'[q].at \in Carrying
               PROVE  pump'[q].saw \in Outcomes /\ pump'[q].saw = proc'[pump'[q].run].outcome
    BY DEF PumpInv
  <2>1. pump'[q].saw \in Outcomes /\ pump'[q].saw = proc[pump'[q].run].outcome
    BY <1>0, <1>1, SpawnTame DEF PumpTame, CommandsInv
  <2>2. pump'[q].run # r
    BY <1>4, <2>1 DEF Outcomes
  <2>3. pump'[q].run \in Runs
    BY <1>0 DEF PumpType
  <2> QED BY <1>0, <1>2, <2>1, <2>2, <2>3
<1> QED BY <1>5, <1>6, <1>7 DEF CommandsInv

LEMMA InvInit == Init => CommandsInv
<1> SUFFICES ASSUME Init PROVE CommandsInv
  OBVIOUS
<1>1. row \in [Runs -> RowType]
  BY StatesFacts DEF Init, RowType
<1>2. proc \in [Runs -> ProcType]
  BY DEF Init, NewProcess, ProcType
<1>3. pump \in [Pumps -> PumpType] /\ call \in [Workers -> CallType]
  BY IdleTypes DEF Init
<1>4. starter \in [Runs -> StarterType]
  BY DEF Init, StarterType
<1>5. active \in [Runs -> Pumps \cup {NoPump}] /\ renewing \in [Runs -> BOOLEAN]
  BY DEF Init
<1>6. crashes \in 0 .. MaxCrashes /\ faults \in 0 .. MaxFaults
  BY BoundsAssumption DEF Init
<1>7. CommandsTypeOK
  BY <1>1, <1>2, <1>3, <1>4, <1>5, <1>6 DEF CommandsTypeOK
<1>8. ProcInv
  BY DEF Init, NewProcess, ProcInv, Sound
<1>9. StarterInv
  BY DEF Init, NewProcess, StarterInv
<1>10. PumpInv
  BY DEF Init, PumpInv, IdlePump, Watcher, Carrying
<1> QED BY <1>7, <1>8, <1>9, <1>10 DEF CommandsInv

\* Every step is a launch or tame, and keeps the types.
LEMMA StepKinds ==
  ASSUME CommandsInv, Next
  PROVE  CommandsTypeOK' /\ (Tame \/ \E r \in Runs : Launch(r))
<1>0. CommandsTypeOK
  BY DEF CommandsInv
<1>1. ASSUME NEW r \in Runs, Start(r) \/ \E k \in Kinds : Create(r, k)
      PROVE  CommandsTypeOK' /\ (Tame \/ \E q \in Runs : Launch(q))
  BY <1>0, <1>1, StartType, StartTame
<1>2. ASSUME NEW r \in Runs, Renew(r) \/ StopRenewing(r) \/ Lapse(r)
      PROVE  CommandsTypeOK' /\ Tame
  BY <1>0, <1>2, LeaseStepType, LeaseStepTame
<1>3. ASSUME NEW r \in Runs, World(r) PROVE CommandsTypeOK' /\ Tame
  BY <1>3, WorldType, WorldTame
<1>4. ASSUME NEW p \in Pumps, PumpStep(p) PROVE CommandsTypeOK' /\ Tame
  BY <1>4, PumpStepType, PumpStepTame
<1>5. ASSUME NEW w \in Workers, CallStep(w) \/ \E op \in Ops, r \in Runs : Call(w, op, r)
      PROVE  CommandsTypeOK' /\ Tame
  BY <1>0, <1>5, CallStepType, CallStepTame
<1>6. ASSUME Crash \/ Shutdown PROVE CommandsTypeOK' /\ Tame
  BY <1>0, <1>6, StopType, StopTame
<1> QED BY <1>1, <1>2, <1>3, <1>4, <1>5, <1>6 DEF Next

LEMMA InvNext == CommandsInv /\ [Next]_vars => CommandsInv'
<1> SUFFICES ASSUME CommandsInv, [Next]_vars PROVE CommandsInv'
  OBVIOUS
<1>1. CASE Next
  BY <1>1, StepKinds, TameKeepsInv, LaunchKeepsInv
<1>2. CASE UNCHANGED vars
  BY <1>2 DEF vars, CommandsInv, CommandsTypeOK, ProcInv, StarterInv, PumpInv
<1> QED BY <1>1, <1>2

LEMMA InvHolds == Spec => []CommandsInv
  BY InvInit, InvNext, PTL DEF Spec

\* In every interleaving of starters, watchers, request threads, supervisors and host
\* crashes, for any number of each, the rows and handles of execution/commands hold
\* values of their kind.
THEOREM CommandsTypeCorrect == Spec => []CommandsTypeOK
<1>1. CommandsInv => CommandsTypeOK
  BY DEF CommandsInv
<1> QED BY <1>1, InvHolds, PTL

----------------------------------------------------------------------------
(***************************************************************************)
(* The refinement                                                          *)
(***************************************************************************)
LEMMA RefinesInit == Init => Receipts!Init
  BY DEF Init, NewProcess, Receipts!Init

\* A step that is tame is a settlement of one run, or the end of some processes.
LEMMA TameRefines ==
  ASSUME CommandsInv, CommandsTypeOK', Tame
  PROVE  Receipts!Next
<1> DEFINE outcome == [r \in Runs |-> proc[r].outcome]
           receipt == [r \in Runs |-> row[r].receipt]
<1>0. /\ proc' \in [Runs -> ProcType] /\ row' \in [Runs -> RowType]
      /\ ProcTame /\ RowTame
  BY DEF CommandsTypeOK, Tame
<1>1. CASE Keeps
  <2>1. receipt' = receipt
    BY <1>1 DEF Keeps
  <2>2. outcome' \in [Runs -> {"none", "running"} \cup Outcomes]
    BY <1>0 DEF ProcType
  <2>3. \A r \in Runs : \/ outcome'[r] = outcome[r]
                        \/ outcome[r] = "running" /\ outcome'[r] \in Outcomes
    BY <1>0 DEF ProcTame, Evolves
  <2>4. Receipts!End
    BY <2>1, <2>2, <2>3 DEF Receipts!End
  <2> QED BY <2>4 DEF Receipts!Next
<1>2. ASSUME NEW r \in Runs, NEW v \in Outcomes \cup {"lost", "contained"}, Settles(r, v)
      PROVE  Receipts!Next
  <2>1. receipt[r] = "none" /\ outcome' = outcome
    BY <1>2 DEF Settles
  <2>2. receipt' = [receipt EXCEPT ![r] = v]
    BY <1>2 DEF Settles
  <2>3. (v \in Outcomes => v = outcome[r]) /\ (v = "contained" => outcome[r] = "none")
    BY <1>2 DEF Settles
  <2>4. Receipts!Settle(r)
    BY <2>1, <2>2, <2>3 DEF Receipts!Settle
  <2> QED BY <2>4 DEF Receipts!Next
<1> QED BY <1>0, <1>1, <1>2 DEF RowTame

LEMMA LaunchRefines ==
  ASSUME CommandsInv, NEW r \in Runs, Launch(r)
  PROVE  Receipts!Next
<1> DEFINE outcome == [q \in Runs |-> proc[q].outcome]
           receipt == [q \in Runs |-> row[q].receipt]
<1>1. starter[r].at = "launch" /\ UNCHANGED row
  BY DEF Launch
<1>2. outcome[r] = "none" /\ receipt[r] # "contained"
  BY <1>1 DEF CommandsInv, StarterInv, Early
<1>3. outcome' = [outcome EXCEPT ![r] = "running"]
  BY DEF Launch, NewProcess, CommandsInv, CommandsTypeOK
<1>4. Receipts!Launch(r)
  BY <1>1, <1>2, <1>3 DEF Receipts!Launch
<1> QED BY <1>4 DEF Receipts!Next

\* The command service implements CommandReceipts: whichever of the watcher, the starter
\* and the recovering callers wins, and whenever the host dies, a run is settled once, and
\* its receipt is the outcome of its process, lost, or contained with nothing launched.
THEOREM ReceiptsRefined == Spec => ReceiptsHold
<1>1. CommandsInv /\ [Next]_vars => [Receipts!Next]_(Receipts!vars)
  <2> SUFFICES ASSUME CommandsInv, [Next]_vars PROVE [Receipts!Next]_(Receipts!vars)
    OBVIOUS
  <2>1. CASE Next
    BY <2>1, StepKinds, TameRefines, LaunchRefines
  <2>2. CASE UNCHANGED vars
    BY <2>2 DEF vars, Receipts!vars
  <2> QED BY <2>1, <2>2
<1> QED BY <1>1, RefinesInit, InvHolds, PTL DEF Spec, ReceiptsHold, Receipts!Spec

----------------------------------------------------------------------------
(***************************************************************************)
(* The output of a supervised run.  A watcher stores what it reads, page   *)
(* by page, and drains once more when it has heard that the run is over.   *)
(* If a journal fits one page, that drain reads it to the end: a page that *)
(* is asked for after the end is the whole journal.  What another watcher  *)
(* has stored meanwhile ends this one, so the store never passes the       *)
(* journal, and a watcher on its way to the receipt has left it complete.  *)
(***************************************************************************)
Watching == {"watch", "page"}

\* A run whose process is not launched yet has no output, and nobody reads it.
Fresh(r) ==
    /\ ~row[r].handle /\ row[r].chunks = 0 /\ row[r].receipt \notin Outcomes
    /\ \A p \in Pumps : pump[p].run = r => pump[p].at \notin Watching
    /\ \A w \in Workers : call[w].run = r => call[w].at # "attach"

\* What a watcher has read is stored; the page it asked for after the end is the journal.
Reading(p) ==
    LET r == pump[p].run IN
    /\ pump[p].seq <= row[r].chunks
    /\ pump[p].at = "page" => pump[p].page <= proc[r].journal
    /\ pump[p].last => /\ proc[r].finished
                       /\ pump[p].at = "page" => pump[p].page = proc[r].journal

Complete(r) == proc[r].finished /\ row[r].chunks = proc[r].journal

FreshInv == \A r \in Runs : starter[r].at \in Early => Fresh(r)
StoredInv == \A r \in Runs : proc[r].journal <= MaxJournal /\ row[r].chunks <= proc[r].journal
ReadingInv == \A p \in Pumps : pump[p].at \in Watching => Reading(p)
AttachInv == \A w \in Workers : call[w].at = "attach" => call[w].seq <= row[call[w].run].chunks
CarryInv ==
    \A p \in Pumps :
        pump[p].at \in Carrying /\ Supervised(pump[p].run) => Complete(pump[p].run)
SettledInv == \A r \in Runs : Supervised(r) /\ row[r].receipt \in Outcomes => Complete(r)

OutputInv == FreshInv /\ StoredInv /\ ReadingInv /\ AttachInv /\ CarryInv /\ SettledInv

\* What a step leaves alone, of a row, of a process, of the watchers and of the calls.
RowStays(r) ==
    /\ row'[r].chunks = row[r].chunks /\ row'[r].kind = row[r].kind
    /\ row'[r].handle => row[r].handle
    /\ row'[r].receipt \in Outcomes => row'[r].receipt = row[r].receipt
ProcStays(r) == proc'[r].journal = proc[r].journal /\ (proc[r].finished => proc'[r].finished)
StarterStays(r) == starter'[r].at \in Early => starter[r].at \in Early
PumpStays(p) ==
    \/ pump'[p] = pump[p]
    \/ pump'[p].at \notin Watching \cup Carrying
    \/ pump'[p].at \in Carrying /\ pump[p].at \in Carrying /\ pump'[p].run = pump[p].run
CallStays(w) == call'[w] = call[w] \/ call'[w].at # "attach"

RowsStay == \A r \in Runs : RowStays(r)
ProcsStay == \A r \in Runs : ProcStays(r)
StartersStay == \A r \in Runs : StarterStays(r)
PumpsStay == \A p \in Pumps : PumpStays(p)
CallsStay == \A w \in Workers : CallStays(w)

LEMMA WhatStays ==
    /\ UNCHANGED row => RowsStay
    /\ UNCHANGED proc => ProcsStay
    /\ UNCHANGED starter => StartersStay
    /\ UNCHANGED pump => PumpsStay
    /\ UNCHANGED call => CallsStay
  BY DEF RowsStay, RowStays, ProcsStay, ProcStays, StartersStay, StarterStays, PumpsStay, PumpStays,
         CallsStay, CallStays

\* The numbers and the names of a watcher, a call and a process.
LEMMA OutputTypes ==
  ASSUME CommandsTypeOK
  PROVE  /\ \A p \in Pumps : /\ pump[p].run \in Runs /\ pump[p].seq \in Nat
                             /\ pump[p].page \in Nat /\ pump[p].last \in BOOLEAN
         /\ \A w \in Workers : call[w].run \in Runs /\ call[w].seq \in Nat
         /\ \A r \in Runs : /\ row[r].chunks \in Nat /\ proc[r].journal \in Nat
                            /\ proc[r].finished \in BOOLEAN
  BY DEF CommandsTypeOK, PumpType, CallType, RowType, ProcType

\* Whatever a step does elsewhere, the runs it leaves alone keep their part.
LEMMA StaysKeeps ==
  ASSUME CommandsInv, OutputInv, RowsStay, ProcsStay, StartersStay, PumpsStay, CallsStay
  PROVE  OutputInv'
<1>0. CommandsTypeOK
  BY DEF CommandsInv
<1> USE <1>0, OutputTypes
<1>1. ASSUME NEW r \in Runs, Complete(r) PROVE Complete(r)'
  BY <1>1 DEF Complete, RowsStay, RowStays, ProcsStay, ProcStays
<1>2. ASSUME NEW r \in Runs, Supervised(r)' PROVE Supervised(r)
  BY <1>2 DEF Supervised, RowsStay, RowStays
<1>3. ASSUME NEW p \in Pumps, pump'[p].at \in Watching
      PROVE  pump'[p] = pump[p] /\ pump[p].at \in Watching /\ Reading(p)
  BY <1>3 DEF PumpsStay, PumpStays, Watching, Carrying, OutputInv, ReadingInv
<1>4. ASSUME NEW w \in Workers, call'[w].at = "attach"
      PROVE  call'[w] = call[w]
  BY <1>4 DEF CallsStay, CallStays
<1>5. FreshInv'
  <2> SUFFICES ASSUME NEW r \in Runs, starter'[r].at \in Early PROVE Fresh(r)'
    BY DEF FreshInv
  <2>1. Fresh(r) /\ RowStays(r)
    BY DEF StartersStay, StarterStays, RowsStay, OutputInv, FreshInv
  <2>2. \A p \in Pumps : pump'[p].run = r => pump'[p].at \notin Watching
    BY <1>3, <2>1 DEF Fresh
  <2>3. \A w \in Workers : call'[w].run = r => call'[w].at # "attach"
    BY <1>4, <2>1 DEF Fresh
  <2> QED BY <2>1, <2>2, <2>3 DEF Fresh, RowStays
<1>6. StoredInv'
  BY DEF OutputInv, StoredInv, RowsStay, RowStays, ProcsStay, ProcStays
<1>7. ReadingInv'
  <2> SUFFICES ASSUME NEW p \in Pumps, pump'[p].at \in Watching PROVE Reading(p)'
    BY DEF ReadingInv
  <2>1. pump'[p] = pump[p] /\ Reading(p) /\ pump[p].run \in Runs
    BY <1>3
  <2> QED BY <2>1 DEF Reading, RowsStay, RowStays, ProcsStay, ProcStays
<1>8. AttachInv'
  BY <1>4 DEF OutputInv, AttachInv, RowsStay, RowStays
<1>9. CarryInv'
  <2> SUFFICES ASSUME NEW p \in Pumps, NEW r, r = pump'[p].run,
                      pump'[p].at \in Carrying, Supervised(r)'
               PROVE  Complete(r)'
    BY DEF CarryInv, Supervised, Complete
  <2>1. pump[p].at \in Carrying /\ r = pump[p].run /\ r \in Runs
    BY DEF PumpsStay, PumpStays, Watching, Carrying
  <2>2. Complete(r)
    BY <1>2, <2>1 DEF OutputInv, CarryInv
  <2> QED BY <1>1, <2>1, <2>2
<1>10. SettledInv'
  <2> SUFFICES ASSUME NEW r \in Runs, Supervised(r)', row'[r].receipt \in Outcomes
               PROVE  Complete(r)'
    BY DEF SettledInv
  <2>1. Supervised(r) /\ row[r].receipt \in Outcomes
    BY <1>2 DEF RowsStay, RowStays
  <2> QED BY <1>1, <2>1 DEF OutputInv, SettledInv
<1> QED BY <1>5, <1>6, <1>7, <1>8, <1>9, <1>10 DEF OutputInv


LEMMA RowWrites ==
  ASSUME CommandsTypeOK, NEW r \in Runs
  PROVE  /\ \A c, s : Transition(r, c, s) => RowsStay
         /\ \A l : SetLease(r, l) => RowsStay
         /\ \A v : FinalizeWithReceipt(r, v) /\ v \notin Outcomes => RowsStay
  BY DEF CommandsTypeOK, RowType, Transition, SetLease, FinalizeWithReceipt, RowsStay, RowStays

LEMMA PumpEndsStays ==
  ASSUME CommandsTypeOK, NEW p \in Pumps, PumpEnds(p)
  PROVE  PumpsStay
  BY DEF CommandsTypeOK, PumpEnds, Watcher, PumpsStay, PumpStays, Watching, Carrying

\* Of the starter, all but the filing, the launch and the handle is quiet.
LEMMA StartStays ==
  ASSUME CommandsInv, OutputInv, NEW r \in Runs, Start(r), ~Launch(r), ~RecordHandle(r)
  PROVE  OutputInv'
<1>0. CommandsTypeOK
  BY DEF CommandsInv
<1>1. StartersStay
  BY StartTame DEF Tame, StarterTame, StartersStay, StarterStays
<1>2. RowsStay
  BY <1>0, RowWrites, WhatStays
  DEF Start, MarkStarting, LaunchFails, Contain, Refuse, MarkRunning, Activate, StartLease,
      SetLease, Outcomes
<1>3. UNCHANGED <<proc, pump, call>>
  BY DEF Start, MarkStarting, LaunchFails, Contain, Refuse, MarkRunning, Activate, StartLease
<1> QED BY <1>1, <1>2, <1>3, WhatStays, StaysKeeps

LEMMA LeaseStays ==
  ASSUME CommandsInv, OutputInv, NEW r \in Runs, Renew(r) \/ StopRenewing(r) \/ Lapse(r)
  PROVE  OutputInv'
<1>1. RowsStay
  BY RowWrites, WhatStays DEF CommandsInv, Renew, StopRenewing, Lapse
<1>2. UNCHANGED <<proc, pump, starter, call>>
  BY DEF Renew, StopRenewing, Lapse
<1> QED BY <1>1, <1>2, WhatStays, StaysKeeps

\* Of the watcher, all but the reading, the end and the receipt.
LEMMA WatcherStays ==
  ASSUME CommandsInv, OutputInv, NEW p \in Pumps,
         PumpLosesSupervisor(p) \/ PumpLoad(p) \/ PumpMark(p) \/ ClearHandle(p) \/ PumpPop(p)
  PROVE  OutputInv'
<1>0. CommandsTypeOK /\ pump[p].run \in Runs
  BY OutputTypes DEF CommandsInv
<1>1. RowsStay
  <2>1. CASE PumpMark(p)
    BY <1>0, <2>1, RowWrites, WhatStays DEF PumpMark
  <2>2. CASE ClearHandle(p)
    BY <1>0, <2>2 DEF ClearHandle, CommandsTypeOK, RowType, RowsStay, RowStays
  <2>3. CASE UNCHANGED row
    BY <2>3, WhatStays
  <2> QED BY <2>1, <2>2, <2>3 DEF PumpLosesSupervisor, PumpLoad, PumpPop
<1>2. ProcsStay
  <2>1. ASSUME Release(pump[p].run) PROVE ProcsStay
    BY <1>0, <2>1 DEF Release, CommandsTypeOK, ProcType, ProcsStay, ProcStays
  <2> QED BY <2>1, WhatStays DEF PumpLosesSupervisor, PumpLoad, PumpMark, ClearHandle, PumpPop
<1>3. PumpsStay
  <2>1. ASSUME ~PumpEnds(p) PROVE PumpsStay
    BY <1>0, <2>1
    DEF PumpLosesSupervisor, PumpLoad, PumpMark, ClearHandle, PumpPop, PumpGoes,
        CommandsTypeOK, PumpType, PumpsStay, PumpStays, Watching, Carrying
  <2> QED BY <1>0, <2>1, PumpEndsStays
<1>4. UNCHANGED <<starter, call>>
  BY DEF PumpLosesSupervisor, PumpLoad, PumpMark, ClearHandle, PumpPop
<1> QED BY <1>1, <1>2, <1>3, <1>4, WhatStays, StaysKeeps

\* Of the callers, all but reading the handle and attaching to it.
LEMMA CallsOf ==
  ASSUME CommandsTypeOK, NEW w \in Workers
  PROVE  /\ \A at : at # "attach" /\ CallGoes(w, at) => CallsStay
         /\ CallEnds(w) => CallsStay
         /\ NotReattached(w) => CallsStay
<1>1. \A at : at # "attach" /\ CallGoes(w, at) => CallsStay
  BY DEF CommandsTypeOK, CallType, CallGoes, CallsStay, CallStays
<1>2. CallEnds(w) => CallsStay
  BY DEF CommandsTypeOK, CallEnds, IdleCall, NewCall, CallsStay, CallStays
<1>3. RecoverAt(call[w].snap) # "attach"
  BY DEF RecoverAt
<1> QED BY <1>1, <1>2, <1>3 DEF NotReattached

LEMMA CallerStays ==
  ASSUME CommandsInv, OutputInv, NEW w \in Workers,
         \/ CallStep(w) /\ ~LoadHandle(w) /\ ~Attach(w)
         \/ \E op \in Ops, r \in Runs : Call(w, op, r)
  PROVE  OutputInv'
<1>0. CommandsTypeOK /\ call[w].run \in Runs
  BY OutputTypes DEF CommandsInv
<1>s. \A s : RecoverAt(s) # "attach"
  BY DEF RecoverAt
<1>1. CallsStay
  <2>1. ASSUME NEW op \in Ops, NEW r \in Runs, Call(w, op, r) PROVE CallsStay
    BY <1>0, <2>1 DEF Call, NewCall, CommandsTypeOK, CallsStay, CallStays
  <2>2. CASE CheckActive(w) \/ Reload(w) \/ RecoverQueued(w) \/ RecoverMark(w) \/ PopActive(w)
    BY <1>0, <1>s, <2>2, CallsOf
    DEF CheckActive, Reload, RecoverQueued, RecoverMark, PopActive, CommandsTypeOK, CallType,
        CallsStay, CallStays
  <2>3. CASE SetActive(w) \/ AttachLease(w) \/ RecoverReceipt(w) \/ Terminate(w)
    BY <1>0, <2>3, CallsOf DEF SetActive, AttachLease, RecoverReceipt, Terminate
  <2> QED BY <2>1, <2>2, <2>3 DEF CallStep
<1>2. RowsStay
  <2>1. CASE UNCHANGED row
    BY <2>1, WhatStays
  <2>2. CASE RecoverReceipt(w) \/ AttachLease(w)
    BY <1>0, <2>2, RowWrites, WhatStays DEF RecoverReceipt, AttachLease, Outcomes
  <2>3. CASE RecoverQueued(w) \/ RecoverMark(w)
    BY <1>0, <2>3, RowWrites, WhatStays DEF RecoverQueued, RecoverMark
  <2> QED BY <2>1, <2>2, <2>3 DEF CallStep, Call, CheckActive, Reload, PopActive, SetActive, Terminate
<1>3. ProcsStay
  <2>1. ASSUME Terminate(w), UNCHANGED proc PROVE ProcsStay
    BY <2>1, WhatStays
  <2>2. ASSUME Terminate(w), proc' # proc PROVE ProcsStay
    <3>1. pump[call[w].pump].run \in Runs => ProcsStay
      BY <1>0, <2>2 DEF Terminate, Killed, CommandsTypeOK, ProcType, ProcsStay, ProcStays
    <3>2. pump[call[w].pump].run \notin Runs => proc' = proc
      BY <1>0, <2>2 DEF Terminate, CommandsTypeOK
    <3> QED BY <2>2, <3>1, <3>2
  <2>3. ~Terminate(w) => UNCHANGED proc
    BY DEF CallStep, Call, CheckActive, Reload, PopActive, SetActive, AttachLease, RecoverQueued,
           RecoverMark, RecoverReceipt
  <2> QED BY <2>1, <2>2, <2>3, WhatStays
<1>4. UNCHANGED <<pump, starter>>
  BY DEF CallStep, Call, CheckActive, Reload, PopActive, SetActive, AttachLease, RecoverQueued,
         RecoverMark, RecoverReceipt, Terminate
<1> QED BY <1>1, <1>2, <1>3, <1>4, WhatStays, StaysKeeps

\* Of the world, all but the writing.
LEMMA WorldStays ==
  ASSUME CommandsInv, OutputInv, NEW r \in Runs, World(r), ~ChildWrites(r)
  PROVE  OutputInv'
<1>1. ProcsStay
  BY DEF CommandsInv, CommandsTypeOK, ProcType, World, ChildExits, Finish, Deadline, SupervisorLeaves,
         SupervisorDies, ProcsStay, ProcStays
<1>2. UNCHANGED <<row, pump, starter, call>>
  BY DEF World, ChildExits, Finish, Deadline, SupervisorLeaves, SupervisorDies
<1> QED BY <1>1, <1>2, WhatStays, StaysKeeps

\* The host stops: nobody watches, nobody calls, and no journal is cut.
LEMMA StopStays ==
  ASSUME CommandsInv, OutputInv, Crash \/ Shutdown
  PROVE  OutputInv'
<1>0. CommandsTypeOK /\ HostStops
  BY DEF CommandsInv, Crash, Shutdown
<1>1. ProcsStay
  <2>1. ASSUME NEW pr \in ProcType, NEW r
        PROVE  /\ Killed(pr).journal = pr.journal /\ (pr.finished => Killed(pr).finished)
               /\ OwnExit(r, pr).journal = pr.journal /\ (pr.finished => OwnExit(r, pr).finished)
    BY DEF Killed, OwnExit, ProcType
  <2>2. \A r \in Runs : proc[r] \in ProcType
    BY <1>0 DEF CommandsTypeOK
  <2>3. \A r \in Runs : Killed(proc[r]) \in ProcType /\ OwnExit(r, proc[r]) \in ProcType
    BY <2>2, KilledType, OwnExitType
  <2>4. CASE Crash
    BY <2>1, <2>2, <2>4 DEF Crash, ProcsStay, ProcStays
  <2>5. CASE Shutdown
    <3>1. \A r \in Runs : proc'[r] = Left(r)
      BY <2>5 DEF Shutdown, Left
    <3>2. ASSUME NEW pr \in ProcType, NEW b
          PROVE  LET q == [pr EXCEPT !.released = b] IN q.journal = pr.journal /\ q.finished = pr.finished
      BY DEF ProcType
    <3>3. ASSUME NEW r \in Runs
          PROVE  Left(r).journal = proc[r].journal /\ (proc[r].finished => Left(r).finished)
      BY <2>1, <2>2, <2>3, <3>2 DEF Left
    <3> QED BY <3>1, <3>3 DEF ProcsStay, ProcStays
  <2> QED BY <2>4, <2>5
<1>2. StartersStay
  BY <1>0 DEF HostStops, StartersStay, StarterStays, Early
<1>3. PumpsStay /\ CallsStay
  BY <1>0 DEF HostStops, IdlePump, Watcher, IdleCall, NewCall, PumpsStay, PumpStays, CallsStay,
              CallStays, Watching, Carrying
<1>4. UNCHANGED row
  BY <1>0 DEF HostStops
<1> QED BY <1>1, <1>2, <1>3, <1>4, WhatStays, StaysKeeps


----------------------------------------------------------------------------
(***************************************************************************)
(* The steps of the output: each part of the invariant, from what it needs *)
(* of a step.                                                              *)
(***************************************************************************)
RowQuiet(r) ==
    /\ row'[r].chunks = row[r].chunks
    /\ row'[r].handle => row[r].handle
    /\ row'[r].receipt \in Outcomes => row'[r].receipt = row[r].receipt

Grows(r) ==
    /\ row[r].chunks <= row'[r].chunks
    /\ proc[r].journal <= proc'[r].journal
    /\ proc[r].finished => proc'[r].finished /\ proc'[r].journal = proc[r].journal

\* Nobody carries an outcome of a run that was not launched.
LEMMA EarlyUncarried ==
  ASSUME CommandsInv, NEW p \in Pumps, pump[p].run \in Runs, starter[pump[p].run].at \in Early
  PROVE  pump[p].at \notin Carrying
  BY DEF CommandsInv, PumpInv, StarterInv, Outcomes

LEMMA FreshKept ==
  ASSUME OutputInv, StartersStay,
         \A r \in Runs : starter'[r].at \in Early => RowQuiet(r),
         \A p \in Pumps : pump'[p].at \in Watching =>
             \/ pump[p].at \in Watching /\ pump'[p].run = pump[p].run
             \/ starter'[pump'[p].run].at \notin Early,
         \A w \in Workers : call'[w].at = "attach" =>
             \/ call'[w] = call[w]
             \/ starter'[call'[w].run].at \notin Early
  PROVE  FreshInv'
<1> SUFFICES ASSUME NEW r \in Runs, starter'[r].at \in Early PROVE Fresh(r)'
  BY DEF FreshInv
<1>1. Fresh(r) /\ RowQuiet(r)
  BY DEF OutputInv, FreshInv, StartersStay, StarterStays
<1> QED BY <1>1 DEF Fresh, RowQuiet

LEMMA ReadingKept ==
  ASSUME CommandsInv, CommandsTypeOK', OutputInv,
         \A p \in Pumps : pump'[p].at \in Watching =>
             Reading(p)' \/ (pump'[p] = pump[p] /\ Grows(pump[p].run))
  PROVE  ReadingInv'
<1> SUFFICES ASSUME NEW p \in Pumps, pump'[p].at \in Watching PROVE Reading(p)'
  BY DEF ReadingInv
<1>0. CommandsTypeOK
  BY DEF CommandsInv
<1>1. CASE pump'[p] = pump[p] /\ Grows(pump[p].run)
  <2>1. Reading(p) /\ pump[p].run \in Runs
    BY <1>0, <1>1, OutputTypes DEF OutputInv, ReadingInv
  <2>2. /\ pump[p].seq \in Nat /\ pump[p].page \in Nat
        /\ row[pump[p].run].chunks \in Nat /\ row'[pump[p].run].chunks \in Nat
        /\ proc[pump[p].run].journal \in Nat /\ proc'[pump[p].run].journal \in Nat
    BY <1>0, <2>1, OutputTypes DEF CommandsTypeOK, RowType, ProcType
  <2> QED BY <1>1, <2>1, <2>2 DEF Reading, Grows
<1> QED BY <1>1

\* A finished run whose store is complete stays complete; so does one that is carried or
\* settled, unless it was not launched at all.
LEMMA EndsKept ==
  ASSUME CommandsInv, CommandsTypeOK', OutputInv,
         \A r \in Runs : Complete(r) => Complete(r)',
         \A r \in Runs : row'[r].kind = row[r].kind \/ starter[r].at \in Early,
         \A r \in Runs : row'[r].receipt \in Outcomes =>
             \/ row[r].receipt \in Outcomes
             \/ row'[r].kind = row[r].kind /\ ~Supervised(r)
             \/ Complete(r)',
         \A p \in Pumps : pump'[p].at \in Carrying =>
             \/ pump[p].at \in Carrying /\ pump'[p].run = pump[p].run
             \/ row'[pump'[p].run].kind = row[pump'[p].run].kind /\ ~Supervised(pump'[p].run)
             \/ row'[pump'[p].run].chunks = proc'[pump'[p].run].journal
                /\ proc'[pump'[p].run].finished
  PROVE  CarryInv' /\ SettledInv'
<1>0. CommandsTypeOK
  BY DEF CommandsInv
<1>1. CarryInv'
  <2> SUFFICES ASSUME NEW p \in Pumps, NEW r, r = pump'[p].run,
                      pump'[p].at \in Carrying, Supervised(r)'
               PROVE  Complete(r)'
    BY DEF CarryInv, Supervised, Complete
  <2>0. r \in Runs
    BY DEF CommandsTypeOK, PumpType
  <2>1. CASE pump[p].at \in Carrying /\ r = pump[p].run
    <3>1. row'[r].kind = row[r].kind
      BY <2>0, <2>1, EarlyUncarried
    <3> QED BY <2>0, <2>1, <3>1 DEF OutputInv, CarryInv, Supervised
  <2>2. CASE row'[r].chunks = proc'[r].journal /\ proc'[r].finished
    BY <2>2 DEF Complete
  <2>3. CASE row'[r].kind = row[r].kind /\ ~Supervised(r)
    BY <2>3 DEF Supervised
  <2> QED BY <2>1, <2>2, <2>3
<1>2. SettledInv'
  <2> SUFFICES ASSUME NEW r \in Runs, Supervised(r)', row'[r].receipt \in Outcomes
               PROVE  Complete(r)'
    BY DEF SettledInv
  <2>1. CASE row[r].receipt \in Outcomes
    <3>1. row'[r].kind = row[r].kind
      BY <2>1 DEF OutputInv, FreshInv, Fresh
    <3> QED BY <2>1, <3>1 DEF OutputInv, SettledInv, Supervised
  <2>2. CASE row'[r].kind = row[r].kind /\ ~Supervised(r)
    BY <2>2 DEF Supervised
  <2> QED BY <2>1, <2>2
<1> QED BY <1>1, <1>2

\* A run is filed: it changes its kind, and it is fresh.
LEMMA CreateOutput ==
  ASSUME CommandsInv, CommandsTypeOK', OutputInv, NEW r \in Runs, NEW k \in Kinds, Create(r, k)
  PROVE  OutputInv'
<1>0. CommandsTypeOK /\ starter[r].at = "new"
  BY DEF CommandsInv, Create
<1>1. UNCHANGED <<proc, pump, call>>
  BY DEF Create
<1>2. \A q \in Runs : RowQuiet(q) /\ (row'[q].kind = row[q].kind \/ q = r)
  BY <1>0 DEF Create, CommandsTypeOK, RowType, RowQuiet
<1>3. StartersStay
  BY <1>0 DEF Create, StarterGoes, CommandsTypeOK, StartersStay, StarterStays, Early
<1>4. FreshInv'
  BY <1>1, <1>2, <1>3, FreshKept
<1>5. \A q \in Runs : row'[q].chunks = row[q].chunks /\ Grows(q)
  BY <1>0, <1>1, <1>2, OutputTypes DEF RowQuiet, Grows
<1>6. StoredInv' /\ AttachInv'
  BY <1>0, <1>1, <1>5, OutputTypes DEF OutputInv, StoredInv, AttachInv
<1>7. ReadingInv'
  BY <1>0, <1>1, <1>5, ReadingKept, OutputTypes
<1>8. CarryInv' /\ SettledInv'
  <2>1. starter[r].at \in Early
    BY <1>0 DEF Early
  <2>2. \A q \in Runs : Complete(q) => Complete(q)'
    BY <1>1, <1>5 DEF Complete
  <2> QED BY <1>1, <1>2, <2>1, <2>2, EndsKept DEF RowQuiet
<1> QED BY <1>4, <1>6, <1>7, <1>8 DEF OutputInv

\* A run is launched: its journal and its store are empty, and its watcher has read nothing.
LEMMA LaunchOutput ==
  ASSUME CommandsInv, CommandsTypeOK', OutputInv, NEW r \in Runs, Launch(r)
  PROVE  OutputInv'
<1>0. CommandsTypeOK /\ starter[r].at \in Early /\ Fresh(r)
  BY DEF CommandsInv, Launch, Early, OutputInv, FreshInv
<1>1. UNCHANGED <<row, call>>
  BY DEF Launch
<1> PICK p \in Pumps : /\ Spawn(p, r, 0)
                       /\ starter' = [starter EXCEPT ![r] = [at |-> "running", pump |-> p]]
  BY DEF Launch
<1>2. pump' = [pump EXCEPT ![p] = Watcher(r, "watch", "none", 0)]
  BY DEF Spawn
<1>3. pump'[p] = Watcher(r, "watch", "none", 0) /\ \A q \in Pumps \ {p} : pump'[q] = pump[q]
  BY <1>0, <1>2 DEF CommandsTypeOK
<1>4. starter'[r].at = "running" /\ \A q \in Runs \ {r} : starter'[q] = starter[q]
  BY <1>0 DEF CommandsTypeOK
<1>5. \A q \in Runs \ {r} : proc'[q] = proc[q]
  BY <1>0 DEF CommandsTypeOK, Launch
<1>6. proc'[r].journal = 0 /\ ~proc[r].finished
  <2>1. proc'[r].journal = 0
    BY <1>0 DEF CommandsTypeOK, Launch, NewProcess
  <2>2. ~proc[r].finished
    BY <1>0 DEF CommandsInv, StarterInv, ProcInv, Sound, Outcomes
  <2> QED BY <2>1, <2>2
<1>7. row[r].chunks = 0
  BY <1>0 DEF Fresh
<1>8. FreshInv'
  <2>1. StartersStay
    BY <1>4 DEF StartersStay, StarterStays, Early
  <2>2. \A q \in Runs : RowQuiet(q)
    BY <1>1 DEF RowQuiet
  <2>3. starter'[r].at \notin Early
    BY <1>4 DEF Early
  <2> QED BY <1>1, <1>3, <2>1, <2>2, <2>3, FreshKept DEF Watcher
<1>9. StoredInv'
  BY <1>1, <1>5, <1>6, <1>7, BoundsAssumption DEF OutputInv, StoredInv
<1>10. AttachInv'
  BY <1>1 DEF OutputInv, AttachInv
<1>11. ReadingInv'
  <2>1. Reading(p)'
    BY <1>1, <1>3, <1>7 DEF Reading, Watcher
  <2>2. ASSUME NEW q \in Pumps \ {p}, pump'[q].at \in Watching
        PROVE  pump'[q] = pump[q] /\ Grows(pump[q].run)
    <3>1. pump'[q] = pump[q] /\ pump[q].run \in Runs \ {r}
      BY <1>0, <1>3, <2>2, OutputTypes DEF Fresh
    <3> QED BY <1>0, <1>1, <1>5, <3>1, OutputTypes DEF Grows
  <2> QED BY <2>1, <2>2, ReadingKept
<1>12. CarryInv' /\ SettledInv'
  <2>1. \A q \in Runs : Complete(q) => Complete(q)'
    BY <1>1, <1>5, <1>6 DEF Complete
  <2>2. pump'[p].at \notin Carrying
    BY <1>3 DEF Watcher, Carrying
  <2> QED BY <1>1, <1>3, <2>1, <2>2, EndsKept
<1> QED BY <1>8, <1>9, <1>10, <1>11, <1>12 DEF OutputInv

\* The handle is recorded once the run is launched.
LEMMA HandleOutput ==
  ASSUME CommandsInv, CommandsTypeOK', OutputInv, NEW r \in Runs, RecordHandle(r)
  PROVE  OutputInv'
<1>0. CommandsTypeOK /\ UNCHANGED <<proc, pump, call>>
  BY DEF CommandsInv, RecordHandle
<1>1. \A q \in Runs : /\ row'[q].chunks = row[q].chunks /\ row'[q].kind = row[q].kind
                      /\ row'[q].receipt = row[q].receipt
                      /\ (q # r => row'[q] = row[q])
  BY <1>0 DEF RecordHandle, CommandsTypeOK, RowType
<1>2. starter'[r].at \notin Early /\ StartersStay
  BY <1>0 DEF RecordHandle, StarterGoes, CommandsTypeOK, StarterType, StartersStay, StarterStays, Early
<1>3. FreshInv'
  BY <1>0, <1>1, <1>2, FreshKept DEF RowQuiet
<1>4. StoredInv' /\ AttachInv'
  BY <1>0, <1>1, OutputTypes DEF OutputInv, StoredInv, AttachInv
<1>5. ReadingInv'
  BY <1>0, <1>1, OutputTypes, ReadingKept DEF Grows
<1>6. CarryInv' /\ SettledInv'
  BY <1>0, <1>1, EndsKept DEF Complete
<1> QED BY <1>3, <1>4, <1>5, <1>6 DEF OutputInv


\* A watcher of a process of this host's own sees the exit: nothing of a supervised run.
LEMMA ExitOutput ==
  ASSUME CommandsInv, CommandsTypeOK', OutputInv, NEW p \in Pumps, PumpExit(p)
  PROVE  OutputInv'
<1>0. CommandsTypeOK /\ UNCHANGED <<row, proc, starter, call>>
  BY DEF CommandsInv, PumpExit
<1>1. /\ pump'[p].at = "load" /\ pump'[p].run = pump[p].run /\ ~Supervised(pump[p].run)
      /\ \A q \in Pumps \ {p} : pump'[q] = pump[q]
  BY <1>0 DEF PumpExit, PumpSees, Watcher, CommandsTypeOK
<1>2. FreshInv'
  BY <1>0, <1>1, WhatStays, FreshKept DEF RowQuiet, Watching
<1>3. StoredInv' /\ AttachInv'
  BY <1>0 DEF OutputInv, StoredInv, AttachInv
<1>4. ReadingInv'
  BY <1>0, <1>1, OutputTypes, ReadingKept DEF Grows, Watching
<1>5. CarryInv' /\ SettledInv'
  BY <1>0, <1>1, EndsKept DEF Complete
<1> QED BY <1>2, <1>3, <1>4, <1>5 DEF OutputInv

\* A journal that fits a page is read whole.
LEMMA ReadOutput ==
  ASSUME MaxJournal <= PageSize, CommandsInv, CommandsTypeOK', OutputInv,
         NEW p \in Pumps, PumpRead(p)
  PROVE  OutputInv'
<1> DEFINE r == pump[p].run
<1>0. /\ CommandsTypeOK /\ UNCHANGED <<row, proc, starter, call>>
      /\ pump[p].at = "watch" /\ pump[p] \in PumpType /\ r \in Runs
  BY DEF CommandsInv, PumpRead, CommandsTypeOK, PumpType
<1>1. Reading(p) /\ proc[r].journal <= MaxJournal
  BY <1>0 DEF OutputInv, ReadingInv, StoredInv, Watching
<1>2. /\ pump'[p].page = IF proc[r].journal < pump[p].seq + PageSize
                         THEN proc[r].journal ELSE pump[p].seq + PageSize
      /\ pump'[p].at = "page" /\ pump'[p].run = r
      /\ pump'[p].seq = pump[p].seq /\ pump'[p].last = pump[p].last
      /\ \A q \in Pumps \ {p} : pump'[q] = pump[q]
  BY <1>0 DEF PumpRead, CommandsTypeOK, PumpType
<1>3. pump'[p].page = proc[r].journal
  BY <1>0, <1>1, <1>2, OutputTypes, BoundsAssumption
<1>4. FreshInv'
  BY <1>0, <1>2, WhatStays, FreshKept DEF RowQuiet, Watching
<1>5. StoredInv' /\ AttachInv'
  BY <1>0 DEF OutputInv, StoredInv, AttachInv
<1>6. ReadingInv'
  <2>1. Reading(p)'
    BY <1>0, <1>1, <1>2, <1>3, OutputTypes DEF Reading
  <2> QED BY <1>0, <1>2, <2>1, OutputTypes, ReadingKept DEF Grows
<1>7. CarryInv' /\ SettledInv'
  BY <1>0, <1>2, EndsKept DEF Complete, Carrying
<1> QED BY <1>4, <1>5, <1>6, <1>7 DEF OutputInv

\* A page is stored: at most the journal, and all of it when it was asked for after the end.
LEMMA PageOutput ==
  ASSUME CommandsInv, CommandsTypeOK', OutputInv, NEW p \in Pumps, PumpPage(p)
  PROVE  OutputInv'
<1> DEFINE r == pump[p].run
           fresh == pump[p].page > pump[p].seq
<1>0. /\ CommandsTypeOK /\ UNCHANGED <<proc, starter, call>>
      /\ pump[p].at = "page" /\ r \in Runs /\ pump[p] \in PumpType
  BY DEF CommandsInv, PumpPage, CommandsTypeOK, PumpType
<1>1. CASE fresh /\ row[r].chunks # pump[p].seq
  <2>1. PumpEnds(p) /\ UNCHANGED row
    BY <1>1 DEF PumpPage
  <2> QED BY <1>0, <2>1, PumpEndsStays, WhatStays, StaysKeeps
<1>2. CASE ~(fresh /\ row[r].chunks # pump[p].seq)
  <2>1. Reading(p) /\ row[r].chunks <= proc[r].journal
    BY <1>0 DEF OutputInv, ReadingInv, StoredInv, Watching
  <2>2. row' = [row EXCEPT ![r].chunks = IF fresh THEN pump[p].page ELSE @]
    BY <1>2 DEF PumpPage
  <2>3. /\ row'[r].chunks = IF fresh THEN pump[p].page ELSE row[r].chunks
        /\ \A q \in Runs : /\ row'[q].kind = row[q].kind /\ row'[q].receipt = row[q].receipt
                           /\ row'[q].handle = row[q].handle
                           /\ q # r => row'[q] = row[q]
    BY <1>0, <2>2 DEF CommandsTypeOK, RowType
  <2>4. /\ row[r].chunks <= row'[r].chunks /\ row'[r].chunks <= proc[r].journal
        /\ pump[p].page <= row'[r].chunks
        /\ pump[p].last => proc[r].finished /\ row'[r].chunks = proc[r].journal
    <3>1. /\ pump[p].seq \in Nat /\ pump[p].page \in Nat
          /\ row[r].chunks \in Nat /\ proc[r].journal \in Nat
      BY <1>0, OutputTypes
    <3>2. /\ pump[p].seq <= row[r].chunks /\ pump[p].page <= proc[r].journal
          /\ pump[p].last => proc[r].finished /\ pump[p].page = proc[r].journal
      BY <1>0, <2>1 DEF Reading
    <3>3. CASE fresh
      BY <1>2, <2>1, <2>3, <3>1, <3>2, <3>3
    <3>4. CASE ~fresh
      BY <2>1, <2>3, <3>1, <3>2, <3>4
    <3> QED BY <3>3, <3>4
  <2>5. /\ \A q \in Pumps \ {p} : pump'[q] = pump[q]
        /\ pump'[p].run = r
        /\ \/ pump'[p].at = "load" /\ pump[p].last
           \/ /\ pump'[p].at = "watch" /\ pump'[p].seq = pump[p].page
              /\ pump'[p].last = proc[r].finished
    <3>1. \/ proc[r].finished /\ pump[p].last /\ PumpSees(p, proc[r].outcome)
          \/ pump' = [pump EXCEPT ![p].at = "watch", ![p].seq = pump[p].page,
                                  ![p].last = proc[r].finished]
      BY <1>2 DEF PumpPage
    <3>2. CASE pump[p].last /\ PumpSees(p, proc[r].outcome)
      BY <1>0, <3>2 DEF PumpSees, Watcher, CommandsTypeOK
    <3>3. CASE pump' = [pump EXCEPT ![p].at = "watch", ![p].seq = pump[p].page,
                                    ![p].last = proc[r].finished]
      BY <1>0, <3>3 DEF CommandsTypeOK, PumpType
    <3> QED BY <3>1, <3>2, <3>3
  <2>6. FreshInv'
    <3>1. starter[r].at \notin Early
      BY <1>0 DEF OutputInv, FreshInv, Fresh, Watching
    <3> QED BY <1>0, <2>3, <2>5, <3>1, WhatStays, FreshKept DEF RowQuiet
  <2>7. StoredInv'
    BY <1>0, <2>3, <2>4 DEF OutputInv, StoredInv
  <2>8. AttachInv'
    <3> SUFFICES ASSUME NEW w \in Workers, call[w].at = "attach"
                 PROVE  call[w].seq <= row'[call[w].run].chunks
      BY <1>0 DEF AttachInv
    <3>1. call[w].seq <= row[call[w].run].chunks
      BY DEF OutputInv, AttachInv
    <3>2. row'[r].chunks \in Nat
      BY <1>0 DEF CommandsTypeOK, RowType
    <3> QED BY <1>0, <2>3, <2>4, <3>1, <3>2, OutputTypes
  <2>9. ReadingInv'
    <3>1. \A q \in Runs : Grows(q)
      BY <1>0, <2>3, <2>4, OutputTypes DEF Grows
    <3>2. pump'[p].at \in Watching => Reading(p)'
      BY <1>0, <2>4, <2>5 DEF Reading, Watching
    <3> QED BY <1>0, <2>5, <3>1, <3>2, OutputTypes, ReadingKept
  <2>10. CarryInv' /\ SettledInv'
    <3>1. \A q \in Runs : Complete(q) => Complete(q)'
      <4>1. row[r].chunks \in Nat /\ row'[r].chunks \in Nat /\ proc[r].journal \in Nat
        BY <1>0, OutputTypes DEF CommandsTypeOK, RowType
      <4>2. row[r].chunks = proc[r].journal => row'[r].chunks = proc[r].journal
        BY <2>4, <4>1
      <4> QED BY <1>0, <2>3, <4>2 DEF Complete
    <3>2. pump'[p].at \in Carrying => row'[r].chunks = proc'[r].journal /\ proc'[r].finished
      BY <1>0, <2>4, <2>5 DEF Carrying
    <3> QED BY <1>0, <2>3, <2>5, <3>1, <3>2, EndsKept
  <2> QED BY <2>6, <2>7, <2>8, <2>9, <2>10 DEF OutputInv
<1> QED BY <1>1, <1>2

\* The receipt of a supervised run is written by a watcher that has left its output complete.
LEMMA ReceiptOutput ==
  ASSUME CommandsInv, CommandsTypeOK', OutputInv, NEW p \in Pumps, PumpReceipt(p)
  PROVE  OutputInv'
<1> DEFINE r == pump[p].run
<1>0. /\ CommandsTypeOK /\ UNCHANGED <<proc, starter, call>>
      /\ pump[p].at \in Carrying /\ r \in Runs
  BY OutputTypes DEF CommandsInv, PumpReceipt, Carrying
<1>1. CASE PumpEnds(p) /\ UNCHANGED row
  BY <1>0, <1>1, PumpEndsStays, WhatStays, StaysKeeps
<1>2. CASE FinalizeWithReceipt(r, pump[p].saw) /\ PumpGoes(p, "pop")
  <2>1. \A q \in Runs : /\ row'[q].chunks = row[q].chunks /\ row'[q].kind = row[q].kind
                        /\ row'[q].handle = row[q].handle
                        /\ q # r => row'[q] = row[q]
    BY <1>0, <1>2 DEF FinalizeWithReceipt, CommandsTypeOK, RowType
  <2>2. /\ pump'[p].at = "pop" /\ pump'[p].run = r
        /\ \A q \in Pumps \ {p} : pump'[q] = pump[q]
    BY <1>0, <1>2 DEF PumpGoes, CommandsTypeOK, PumpType
  <2>3. starter[r].at \notin Early
    BY <1>0, EarlyUncarried
  <2>4. \A q \in Runs : q = r /\ Supervised(q) => Complete(q)'
    BY <1>0, <2>1 DEF OutputInv, CarryInv, Complete
  <2>5. FreshInv'
    BY <1>0, <2>1, <2>2, <2>3, WhatStays, FreshKept DEF RowQuiet, Watching
  <2>6. StoredInv' /\ AttachInv'
    BY <1>0, <2>1, OutputTypes DEF OutputInv, StoredInv, AttachInv
  <2>7. ReadingInv'
    BY <1>0, <2>1, <2>2, OutputTypes, ReadingKept DEF Grows, Watching
  <2>8. CarryInv' /\ SettledInv'
    <3>1. \A q \in Runs : Complete(q) => Complete(q)'
      BY <1>0, <2>1 DEF Complete
    <3> QED BY <1>0, <2>1, <2>2, <2>4, <3>1, EndsKept DEF Carrying
  <2> QED BY <2>5, <2>6, <2>7, <2>8 DEF OutputInv
<1> QED BY <1>1, <1>2 DEF PumpReceipt

\* reattach counts what is stored ...
LEMMA LoadOutput ==
  ASSUME CommandsInv, CommandsTypeOK', OutputInv, NEW w \in Workers, LoadHandle(w)
  PROVE  OutputInv'
<1>0. CommandsTypeOK /\ UNCHANGED <<row, proc, pump, starter>> /\ call[w].run \in Runs
  BY OutputTypes DEF CommandsInv, LoadHandle
<1>1. CASE NotReattached(w)
  BY <1>0, <1>1, CallsOf, WhatStays, StaysKeeps
<1>2. CASE ~NotReattached(w)
  <2>1. /\ row[call[w].run].handle
        /\ call' = [call EXCEPT ![w].at = "attach", ![w].seq = row[call[w].run].chunks]
    BY <1>2 DEF LoadHandle
  <2>2. /\ call'[w].run = call[w].run /\ call'[w].seq = row[call[w].run].chunks
        /\ \A v \in Workers \ {w} : call'[v] = call[v]
    BY <1>0, <2>1 DEF CommandsTypeOK, CallType
  <2>3. starter[call[w].run].at \notin Early
    BY <1>0, <2>1 DEF OutputInv, FreshInv, Fresh
  <2>4. FreshInv'
    BY <1>0, <2>2, <2>3, WhatStays, FreshKept DEF RowQuiet
  <2>5. StoredInv' /\ AttachInv'
    BY <1>0, <2>2, OutputTypes DEF OutputInv, StoredInv, AttachInv
  <2>6. ReadingInv' /\ CarryInv' /\ SettledInv'
    BY <1>0 DEF OutputInv, ReadingInv, Reading, CarryInv, SettledInv, Complete, Supervised
  <2> QED BY <2>4, <2>5, <2>6 DEF OutputInv
<1> QED BY <1>1, <1>2

\* ... and watches from there, although another watcher may have stored more by then.
LEMMA AttachOutput ==
  ASSUME CommandsInv, CommandsTypeOK', OutputInv, NEW w \in Workers, Attach(w)
  PROVE  OutputInv'
<1> DEFINE r == call[w].run
<1>0. /\ CommandsTypeOK /\ UNCHANGED <<row, proc, starter>> /\ r \in Runs
      /\ call[w].at = "attach"
  BY OutputTypes DEF CommandsInv, Attach
<1>1. CASE NotReattached(w) /\ UNCHANGED pump
  BY <1>0, <1>1, CallsOf, WhatStays, StaysKeeps
<1>2. ASSUME NEW p \in Pumps, Spawn(p, r, call[w].seq),
             call' = [call EXCEPT ![w] = NewCall("set", call[w].op, r, call[w].snap, p)]
      PROVE  OutputInv'
  <2>1. pump'[p] = Watcher(r, "watch", "none", call[w].seq)
        /\ \A q \in Pumps \ {p} : pump'[q] = pump[q]
    BY <1>0, <1>2 DEF Spawn, CommandsTypeOK
  <2>2. call'[w].at = "set" /\ \A v \in Workers \ {w} : call'[v] = call[v]
    BY <1>0, <1>2 DEF NewCall, CommandsTypeOK
  <2>3. starter[r].at \notin Early
    BY <1>0 DEF OutputInv, FreshInv, Fresh
  <2>4. FreshInv'
    BY <1>0, <2>1, <2>2, <2>3, WhatStays, FreshKept DEF RowQuiet, Watcher
  <2>5. StoredInv' /\ AttachInv'
    BY <1>0, <2>2 DEF OutputInv, StoredInv, AttachInv
  <2>6. ReadingInv'
    <3>1. Reading(p)'
      BY <1>0, <2>1 DEF Reading, Watcher, OutputInv, AttachInv
    <3> QED BY <1>0, <2>1, <3>1, OutputTypes, ReadingKept DEF Grows
  <2>7. CarryInv' /\ SettledInv'
    BY <1>0, <2>1, EndsKept DEF Complete, Watcher, Carrying
  <2> QED BY <2>4, <2>5, <2>6, <2>7 DEF OutputInv
<1> QED BY <1>1, <1>2 DEF Attach

\* The child writes, and is not over.
LEMMA WriteOutput ==
  ASSUME CommandsInv, CommandsTypeOK', OutputInv, NEW r \in Runs, ChildWrites(r)
  PROVE  OutputInv'
<1>0. CommandsTypeOK /\ UNCHANGED <<row, pump, starter, call>>
  BY DEF CommandsInv, ChildWrites
<1>1. /\ ~proc[r].finished /\ proc[r].journal < MaxJournal
      /\ proc'[r].journal = proc[r].journal + 1
      /\ \A q \in Runs \ {r} : proc'[q] = proc[q]
  BY <1>0 DEF ChildWrites, CommandsTypeOK, ProcType
<1>2. \A q \in Runs : Grows(q)
  BY <1>0, <1>1, OutputTypes DEF Grows
<1>3. FreshInv' /\ AttachInv'
  BY <1>0 DEF OutputInv, FreshInv, Fresh, AttachInv
<1>4. StoredInv'
  BY <1>0, <1>1, OutputTypes, BoundsAssumption DEF OutputInv, StoredInv
<1>5. ReadingInv'
  BY <1>0, <1>2, OutputTypes, ReadingKept
<1>6. CarryInv' /\ SettledInv'
  BY <1>0, <1>1, EndsKept DEF Complete
<1> QED BY <1>3, <1>4, <1>5, <1>6 DEF OutputInv

----------------------------------------------------------------------------
LEMMA OutputInit == Init => OutputInv
<1> SUFFICES ASSUME Init PROVE OutputInv
  OBVIOUS
<1>1. /\ \A r \in Runs : /\ row[r].chunks = 0 /\ ~row[r].handle /\ row[r].receipt = "none"
                         /\ proc[r].journal = 0
      /\ \A p \in Pumps : pump[p].at = "off"
      /\ \A w \in Workers : call[w].at = "idle"
  BY DEF Init, NewProcess, IdlePump, Watcher, IdleCall, NewCall
<1> QED BY <1>1, BoundsAssumption
  DEF OutputInv, FreshInv, Fresh, StoredInv, ReadingInv, AttachInv, CarryInv, SettledInv, Watching,
      Carrying, Outcomes

LEMMA OutputNext ==
  ASSUME MaxJournal <= PageSize, CommandsInv, CommandsTypeOK', OutputInv, [Next]_vars
  PROVE  OutputInv'
<1>1. CASE UNCHANGED vars
  BY <1>1, WhatStays, StaysKeeps DEF vars
<1>2. ASSUME NEW r \in Runs, \E k \in Kinds : Create(r, k) PROVE OutputInv'
  BY <1>2, CreateOutput
<1>3. ASSUME NEW r \in Runs, Start(r) PROVE OutputInv'
  BY <1>3, LaunchOutput, HandleOutput, StartStays
<1>4. ASSUME NEW r \in Runs, Renew(r) \/ StopRenewing(r) \/ Lapse(r) PROVE OutputInv'
  BY <1>4, LeaseStays
<1>5. ASSUME NEW r \in Runs, World(r) PROVE OutputInv'
  BY <1>5, WorldStays, WriteOutput
<1>6. ASSUME NEW p \in Pumps, PumpStep(p) PROVE OutputInv'
  BY <1>6, ExitOutput, ReadOutput, PageOutput, ReceiptOutput, WatcherStays DEF PumpStep
<1>7. ASSUME NEW w \in Workers, CallStep(w) \/ \E op \in Ops, r \in Runs : Call(w, op, r)
      PROVE  OutputInv'
  BY <1>7, LoadOutput, AttachOutput, CallerStays
<1>8. CASE Crash \/ Shutdown
  BY <1>8, StopStays
<1> QED BY <1>1, <1>2, <1>3, <1>4, <1>5, <1>6, <1>7, <1>8 DEF Next

\* A supervised run whose journal fits one page of the supervisor has all its output in the
\* store when its watcher writes the receipt, whichever watcher that is and whoever else
\* has stored some of it (SupervisedProcess._drain, the drain after the exit, and the
\* SequenceConflict that ends a watcher that lags).  With a longer journal that single
\* drain may stop at the end of a page.
THEOREM OutputIsComplete ==
  ASSUME MaxJournal <= PageSize
  PROVE  Spec => []OutputComplete
<1>1. OutputInv => OutputComplete
  BY DEF OutputInv, SettledInv, Complete, OutputComplete
<1>2. CommandsInv /\ CommandsInv' /\ OutputInv /\ [Next]_vars => OutputInv'
  BY OutputNext DEF CommandsInv
<1> QED BY <1>1, <1>2, OutputInit, InvHolds, PTL DEF Spec

=============================================================================
