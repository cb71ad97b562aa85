----------------------------- MODULE CommandRuns -----------------------------
(***************************************************************************)
(* Governed commands (execution/commands): the durable run row and its     *)
(* receipt, the thread that starts a run, the watcher ("pump") of each     *)
(* process, the lease, the callers that recover, reclaim, stop and poll    *)
(* runs, the detached supervisor that outlives the host, and the host's    *)
(* crash.  One step is one transaction, one locked section or one call on  *)
(* the supervisor's channel.                                               *)
(***************************************************************************)
EXTENDS Integers, FiniteSets

CONSTANTS
    Runs,          \* command runs
    Kinds,         \* how runs are launched, a subset of AllKinds
    Pumps,         \* watcher threads
    Workers,       \* request threads that call the service
    Ops,           \* what they call, a subset of AllOps
    Exits,         \* outcomes an exit code names, a subset of {"succeeded", "failed"}
    MaxJournal,    \* output records a child writes
    PageSize,      \* records in one page of the supervisor's journal
    MaxCrashes,    \* crashes of the host
    MaxFaults,     \* deaths of a supervisor
    MayMiss        \* whether a live lease thread may fall behind its term

AllKinds == {"foreground", "detached", "supervised"}
AllOps == {"recover", "reclaim", "stop", "poll"}
NoPump == 0

ASSUME RunsAssumption == Runs # {}
ASSUME KindsAssumption == Kinds \subseteq AllKinds
ASSUME PumpsAssumption == Pumps \subseteq Nat \ {NoPump}
ASSUME OpsAssumption == Ops \subseteq AllOps
ASSUME ExitsAssumption == Exits \subseteq {"succeeded", "failed"}
ASSUME BoundsAssumption ==
    /\ MaxJournal \in Nat
    /\ PageSize \in Nat \ {0}
    /\ MaxCrashes \in Nat
    /\ MaxFaults \in Nat
    /\ MayMiss \in BOOLEAN

Outcomes == {"succeeded", "failed", "timed_out", "cancelled"}
Terminal == Outcomes \cup {"contained", "lost"}
States == {"none", "queued", "starting", "running", "finalizing"} \cup Terminal

VARIABLES
    row,       \* the command_runs row, with its receipt and its stored chunks
    proc,      \* the process and, for a supervised run, its supervisor
    active,    \* CommandService._active: the handle this host holds for a run
    pump,      \* the watcher threads
    renewing,  \* a lease thread runs for this run
    starter,   \* where start() stands, per run
    call,      \* what each request thread is doing
    crashes,   \* crashes so far
    faults     \* supervisor deaths so far

vars == <<row, proc, active, pump, renewing, starter, call, crashes, faults>>

RowType == [state : States,
            receipt : {"none"} \cup Terminal,
            kind : {"none"} \cup AllKinds,
            handle : BOOLEAN,
            lease : {"none", "held", "lapsed"},
            chunks : Nat]

ProcType == [child : {"none", "alive", "exited"},
             outcome : {"none", "running"} \cup Outcomes,
             finished : BOOLEAN,
             sup : {"none", "up", "gone"},
             released : BOOLEAN,
             journal : Nat]

PumpType == [at : {"off", "watch", "page", "load", "mark", "clear", "receipt", "pop", "done"},
             run : Runs,
             saw : {"none"} \cup Outcomes,
             cur : States,
             seq : Nat,
             page : Nat,
             last : BOOLEAN]

StarterType == [at : {"new", "queued", "launch", "contain", "refuse", "running", "handle",
                      "activate", "lease", "done"},
                pump : Pumps \cup {NoPump}]

CallType == [at : {"idle", "check", "load", "attach", "set", "lease", "pop", "reload", "queue",
                   "mark", "receipt", "kill"},
             op : AllOps,
             run : Runs,
             snap : States,
             seq : Nat,
             pump : Pumps \cup {NoPump}]

\* Every variable holds values of its kind, in every interleaving of starters, watchers,
\* callers, supervisors and crashes (the rows and handles of execution/commands).
CommandsTypeOK ==
    /\ row \in [Runs -> RowType]
    /\ proc \in [Runs -> ProcType]
    /\ active \in [Runs -> Pumps \cup {NoPump}]
    /\ pump \in [Pumps -> PumpType]
    /\ renewing \in [Runs -> BOOLEAN]
    /\ starter \in [Runs -> StarterType]
    /\ call \in [Workers -> CallType]
    /\ crashes \in 0 .. MaxCrashes
    /\ faults \in 0 .. MaxFaults

AnyRun == CHOOSE r \in Runs : TRUE

\* A watcher of r that has read seq records.
Watcher(r, at, saw, seq) ==
    [at |-> at, run |-> r, saw |-> saw, cur |-> "none", seq |-> seq, page |-> seq,
     last |-> FALSE]
IdlePump == Watcher(AnyRun, "off", "none", 0)
NewCall(at, op, r, snap, p) ==
    [at |-> at, op |-> op, run |-> r, snap |-> snap, seq |-> 0, pump |-> p]
IdleCall == NewCall("idle", "poll", AnyRun, "none", NoPump)

NewProcess(child, outcome, sup) ==
    [child |-> child, outcome |-> outcome, finished |-> FALSE, sup |-> sup,
     released |-> FALSE, journal |-> 0]

Init ==
    /\ row = [r \in Runs |-> [state |-> "none", receipt |-> "none", kind |-> "none",
                              handle |-> FALSE, lease |-> "none", chunks |-> 0]]
    /\ proc = [r \in Runs |-> NewProcess("none", "none", "none")]
    /\ active = [r \in Runs |-> NoPump]
    /\ pump = [p \in Pumps |-> IdlePump]
    /\ renewing = [r \in Runs |-> FALSE]
    /\ starter = [r \in Runs |-> [at |-> "new", pump |-> NoPump]]
    /\ call = [w \in Workers |-> IdleCall]
    /\ crashes = 0
    /\ faults = 0

(***************************************************************************)
(* The store                                                               *)
(***************************************************************************)
Supervised(r) == row[r].kind = "supervised"

\* CommandStore.transition: a compare-and-set whose answer no caller reads.
Transition(r, current, target) ==
    row' = IF row[r].state = current THEN [row EXCEPT ![r].state = target] ELSE row

\* Mutant: the second receipt replaces the first.
CanFinalizeAgain(r) == row[r].state = "finalizing" \/ row[r].state \in Terminal

CanFinalize(r) == row[r].receipt = "none" /\ row[r].state = "finalizing"

\* CommandStore.finalize_with_receipt: the state and the receipt in one transaction.
FinalizeWithReceipt(r, v) ==
    /\ CanFinalize(r)
    /\ row' = [row EXCEPT ![r].state = v, ![r].receipt = v]

\* The supervisor serves its socket until it is released or gone.
Answers(r) == proc[r].sup = "up" /\ ~proc[r].released

\* A watcher thread that is not running and that no handle refers to.
Free(p) ==
    /\ pump[p].at \in {"off", "done"}
    /\ \A r \in Runs : p # active[r] /\ p # starter[r].pump
    /\ \A w \in Workers : p # call[w].pump

\* A new watcher: the first free name.
Spawn(p, r, seq) ==
    /\ Free(p)
    /\ \A q \in Pumps : q < p => ~Free(q)
    /\ pump' = [pump EXCEPT ![p] = Watcher(r, "watch", "none", seq)]

\* handle.poll() is not None.
Ended(p) == pump[p].at = "done" /\ pump[p].saw # "none"

(***************************************************************************)
(* CommandService.start                                                    *)
(***************************************************************************)
StarterGoes(r, at) == starter' = [starter EXCEPT ![r].at = at]

Create(r, k) ==
    /\ starter[r].at = "new"
    /\ row' = [row EXCEPT ![r].state = "queued", ![r].kind = k]
    /\ StarterGoes(r, "queued")
    /\ UNCHANGED <<proc, active, pump, renewing, call, crashes, faults>>

MarkStarting(r) ==
    /\ starter[r].at = "queued"
    /\ Transition(r, "queued", "starting")
    /\ StarterGoes(r, "launch")
    /\ UNCHANGED <<proc, active, pump, renewing, call, crashes, faults>>

\* backend.start: the process, its supervisor for a supervised run, and a watcher.
Launch(r) ==
    /\ starter[r].at = "launch"
    /\ \E p \in Pumps :
          /\ Spawn(p, r, 0)
          /\ starter' = [starter EXCEPT ![r] = [at |-> "running", pump |-> p]]
    /\ proc' = [proc EXCEPT ![r] = NewProcess("alive", "running",
                                              IF Supervised(r) THEN "up" ELSE "none")]
    /\ UNCHANGED <<row, active, renewing, call, crashes, faults>>

LaunchFails(r) ==
    /\ starter[r].at = "launch"
    /\ StarterGoes(r, "contain")
    /\ UNCHANGED <<row, proc, active, pump, renewing, call, crashes, faults>>

\* _contain_start_failure, in its two transactions.
Contain(r) ==
    /\ starter[r].at = "contain"
    /\ Transition(r, "starting", "finalizing")
    /\ StarterGoes(r, "refuse")
    /\ UNCHANGED <<proc, active, pump, renewing, call, crashes, faults>>

Refuse(r) ==
    /\ starter[r].at = "refuse"
    /\ \/ FinalizeWithReceipt(r, "contained")
       \/ ~CanFinalize(r) /\ UNCHANGED row
    /\ StarterGoes(r, "done")
    /\ UNCHANGED <<proc, active, pump, renewing, call, crashes, faults>>

MarkRunning(r) ==
    /\ starter[r].at = "running"
    /\ Transition(r, "starting", "running")
    /\ StarterGoes(r, IF Supervised(r) THEN "handle" ELSE "activate")
    /\ UNCHANGED <<proc, active, pump, renewing, call, crashes, faults>>

RecordHandle(r) ==
    /\ starter[r].at = "handle"
    /\ row' = [row EXCEPT ![r].handle = TRUE]
    /\ StarterGoes(r, "activate")
    /\ UNCHANGED <<proc, active, pump, renewing, call, crashes, faults>>

Activate(r) ==
    /\ starter[r].at = "activate"
    /\ active' = [active EXCEPT ![r] = IF Ended(starter[r].pump) THEN NoPump ELSE starter[r].pump]
    /\ starter' = [starter EXCEPT ![r] =
                     [at |-> IF row[r].kind = "foreground" THEN "done" ELSE "lease", pump |-> NoPump]]
    /\ UNCHANGED <<row, proc, pump, renewing, call, crashes, faults>>

StartLease(r) ==
    /\ starter[r].at = "lease"
    /\ row' = [row EXCEPT ![r].lease = "held"]
    /\ renewing' = [renewing EXCEPT ![r] = TRUE]
    /\ StarterGoes(r, "done")
    /\ UNCHANGED <<proc, active, pump, call, crashes, faults>>

Start(r) ==
    \/ MarkStarting(r)
    \/ Launch(r)
    \/ LaunchFails(r)
    \/ Contain(r)
    \/ Refuse(r)
    \/ MarkRunning(r)
    \/ RecordHandle(r)
    \/ Activate(r)
    \/ StartLease(r)

(***************************************************************************)
(* The watcher: RunningProcess._pump and SupervisedProcess._pump, then     *)
(* CommandService._finalize                                                *)
(***************************************************************************)
PumpGoes(p, at) == pump' = [pump EXCEPT ![p].at = at]

\* The watcher has seen the end, and _finalize begins.
PumpSees(p, outcome) ==
    pump' = [pump EXCEPT ![p] = Watcher(pump[p].run, "load", outcome, 0)]

\* The thread is over; poll() still answers what it saw.
PumpEnds(p) ==
    pump' = [pump EXCEPT ![p] = Watcher(pump[p].run, "done", pump[p].saw, 0)]

Watched(r) == \E p \in Pumps : pump[p].run = r /\ pump[p].at \notin {"off", "done"}

\* A run in this host's own process: the watcher sees the exit.
PumpExit(p) ==
    LET r == pump[p].run IN
    /\ pump[p].at = "watch"
    /\ ~Supervised(r)
    /\ proc[r].finished
    /\ PumpSees(p, proc[r].outcome)
    /\ UNCHANGED <<row, proc, active, renewing, starter, call, crashes, faults>>

\* _drain: the supervisor reads a page of its journal ...
PumpRead(p) ==
    LET r == pump[p].run IN
    /\ pump[p].at = "watch"
    /\ Answers(r)
    /\ pump' = [pump EXCEPT ![p].page = IF proc[r].journal < pump[p].seq + PageSize
                                          THEN proc[r].journal ELSE pump[p].seq + PageSize,
                            ![p].at = "page"]
    /\ UNCHANGED <<row, proc, active, renewing, starter, call, crashes, faults>>

\* Mutant: the first status that says the run is over ends the watch, with no last drain.
PumpPageOnce(p) ==
    LET r == pump[p].run
        fresh == pump[p].page > pump[p].seq
    IN
    /\ pump[p].at = "page"
    /\ Answers(r)
    /\ IF fresh /\ row[r].chunks # pump[p].seq
       THEN PumpEnds(p) /\ UNCHANGED row
       ELSE /\ row' = [row EXCEPT ![r].chunks = IF fresh THEN pump[p].page ELSE @]
            /\ IF proc[r].finished
               THEN PumpSees(p, proc[r].outcome)
               ELSE pump' = [pump EXCEPT ![p].at = "watch", ![p].seq = pump[p].page]
    /\ UNCHANGED <<proc, active, renewing, starter, call, crashes, faults>>

\* ... and then its status.  A chunk another watcher has stored already ends this one
\* (SequenceConflict); once the run is over there is one more drain.
PumpPage(p) ==
    LET r == pump[p].run
        fresh == pump[p].page > pump[p].seq
    IN
    /\ pump[p].at = "page"
    /\ Answers(r)
    /\ IF fresh /\ row[r].chunks # pump[p].seq
       THEN PumpEnds(p) /\ UNCHANGED row
       ELSE /\ row' = [row EXCEPT ![r].chunks = IF fresh THEN pump[p].page ELSE @]
            /\ IF proc[r].finished /\ pump[p].last
               THEN PumpSees(p, proc[r].outcome)
               ELSE pump' = [pump EXCEPT ![p].at = "watch", ![p].seq = pump[p].page,
                                         ![p].last = proc[r].finished]
    /\ UNCHANGED <<proc, active, renewing, starter, call, crashes, faults>>

\* SupervisorUnavailable: the watcher ends with no state, and says nothing.
PumpLosesSupervisor(p) ==
    /\ pump[p].at \in {"watch", "page"}
    /\ Supervised(pump[p].run)
    /\ ~Answers(pump[p].run)
    /\ PumpEnds(p)
    /\ UNCHANGED <<row, proc, active, renewing, starter, call, crashes, faults>>

Release(r) == proc' = [proc EXCEPT ![r].released = Supervised(r)]

PumpLoad(p) ==
    LET r == pump[p].run IN
    /\ pump[p].at = "load"
    /\ \/ /\ row[r].state \in Terminal
          /\ PumpEnds(p)
          /\ Release(r)
       \/ /\ row[r].state \notin Terminal
          /\ pump' = [pump EXCEPT ![p].cur = row[r].state, ![p].at = "mark"]
          /\ UNCHANGED proc
    /\ UNCHANGED <<row, active, renewing, starter, call, crashes, faults>>

PumpMark(p) ==
    /\ pump[p].at = "mark"
    /\ IF pump[p].cur \in {"starting", "running"}
       THEN Transition(pump[p].run, pump[p].cur, "finalizing") ELSE UNCHANGED row
    /\ pump' = [pump EXCEPT ![p].at = "clear", ![p].cur = "none"]
    /\ UNCHANGED <<proc, active, renewing, starter, call, crashes, faults>>

ClearHandle(p) ==
    /\ pump[p].at = "clear"
    /\ row' = [row EXCEPT ![pump[p].run].handle = FALSE]
    /\ PumpGoes(p, "receipt")
    /\ UNCHANGED <<proc, active, renewing, starter, call, crashes, faults>>

\* A refused receipt is an exception that ends the watcher: nothing popped or released.
PumpReceipt(p) ==
    LET r == pump[p].run IN
    /\ pump[p].at = "receipt"
    /\ \/ FinalizeWithReceipt(r, pump[p].saw) /\ PumpGoes(p, "pop")
       \/ ~CanFinalize(r) /\ PumpEnds(p) /\ UNCHANGED row
    /\ UNCHANGED <<proc, active, renewing, starter, call, crashes, faults>>

PumpPop(p) ==
    LET r == pump[p].run IN
    /\ pump[p].at = "pop"
    /\ active' = [active EXCEPT ![r] = NoPump]
    /\ Release(r)
    /\ PumpEnds(p)
    /\ UNCHANGED <<row, renewing, starter, call, crashes, faults>>

PumpStep(p) ==
    \/ PumpExit(p)
    \/ PumpRead(p)
    \/ PumpPage(p)
    \/ PumpLosesSupervisor(p)
    \/ PumpLoad(p)
    \/ PumpMark(p)
    \/ ClearHandle(p)
    \/ PumpReceipt(p)
    \/ PumpPop(p)

(***************************************************************************)
(* The lease (CommandService._hold_lease and its thread)                   *)
(***************************************************************************)
Renewable(r) == renewing[r] /\ active[r] # NoPump /\ ~Ended(active[r])

SetLease(r, lease) == row' = [row EXCEPT ![r].lease = lease]

Renew(r) ==
    /\ Renewable(r)
    /\ row[r].lease = "lapsed"
    /\ row[r].state \notin Terminal
    /\ SetLease(r, "held")
    /\ UNCHANGED <<proc, active, pump, renewing, starter, call, crashes, faults>>

StopRenewing(r) ==
    /\ renewing[r]
    /\ ~Renewable(r)
    /\ renewing' = [renewing EXCEPT ![r] = FALSE]
    /\ UNCHANGED <<row, proc, active, pump, starter, call, crashes, faults>>

\* Thirty seconds without a renewal; a live thread renews every ten.  Nobody reads the
\* lease of a finished run.
Lapse(r) ==
    /\ row[r].lease = "held"
    /\ row[r].state \notin Terminal
    /\ ~Renewable(r) \/ MayMiss
    /\ SetLease(r, "lapsed")
    /\ UNCHANGED <<proc, active, pump, renewing, starter, call, crashes, faults>>

(***************************************************************************)
(* The callers: recover_owner ("recover", each listing of the runs),       *)
(* reconcile_leases ("reclaim", each use of the background_run tool), stop *)
(* and poll.  reattach is "load" to "lease", _recover_run "queue" to       *)
(* "receipt".                                                              *)
(***************************************************************************)
CallGoes(w, at) == call' = [call EXCEPT ![w].at = at]
CallEnds(w) == call' = [call EXCEPT ![w] = IdleCall]

\* Mutant: a run found queued is treated like one that had started.
RecoverAtMark(snap) == "mark"

RecoverAt(snap) == IF snap = "queued" THEN "queue" ELSE "mark"

\* The run is listed or loaded, and found unfinished.
Call(w, op, r) ==
    /\ call[w].at = "idle"
    /\ row[r].state \notin Terminal \cup {"none"}
    /\ op = "reclaim" => row[r].lease = "lapsed"
    /\ call' = [call EXCEPT ![w] = NewCall("check", op, r, row[r].state, NoPump)]
    /\ UNCHANGED <<row, proc, active, pump, renewing, starter, crashes, faults>>

CheckActive(w) ==
    LET c == call[w] IN
    /\ c.at = "check"
    /\ \/ active[c.run] = NoPump /\ CallGoes(w, "load")
       \/ active[c.run] # NoPump /\ c.op \in {"recover", "poll"} /\ CallEnds(w)
       \/ active[c.run] # NoPump /\ c.op = "reclaim" /\ CallGoes(w, "pop")
       \/ /\ active[c.run] # NoPump /\ c.op = "stop"
          /\ call' = [call EXCEPT ![w].at = "kill", ![w].pump = active[c.run]]
    /\ UNCHANGED <<row, proc, active, pump, renewing, starter, crashes, faults>>

\* reattach returned None.
NotReattached(w) ==
    \/ call[w].op \in {"recover", "stop"} /\ CallGoes(w, RecoverAt(call[w].snap))
    \/ call[w].op = "reclaim" /\ CallGoes(w, "pop")
    \/ call[w].op = "poll" /\ CallEnds(w)

LoadHandle(w) ==
    LET c == call[w] IN
    /\ c.at = "load"
    /\ \/ /\ row[c.run].handle
          /\ call' = [call EXCEPT ![w].at = "attach", ![w].seq = row[c.run].chunks]
       \/ ~row[c.run].handle /\ NotReattached(w)
    /\ UNCHANGED <<row, proc, active, pump, renewing, starter, crashes, faults>>

Attach(w) ==
    LET c == call[w] IN
    /\ c.at = "attach"
    /\ \/ /\ Answers(c.run)
          /\ \E p \in Pumps :
                /\ Spawn(p, c.run, c.seq)
                /\ call' = [call EXCEPT ![w] = NewCall("set", c.op, c.run, c.snap, p)]
       \/ ~Answers(c.run) /\ NotReattached(w) /\ UNCHANGED pump
    /\ UNCHANGED <<row, proc, active, renewing, starter, crashes, faults>>

SetActive(w) ==
    /\ call[w].at = "set"
    /\ active' = [active EXCEPT ![call[w].run] = call[w].pump]
    /\ CallGoes(w, "lease")
    /\ UNCHANGED <<row, proc, pump, renewing, starter, crashes, faults>>

AttachLease(w) ==
    LET c == call[w] IN
    /\ c.at = "lease"
    /\ SetLease(c.run, "held")
    /\ renewing' = [renewing EXCEPT ![c.run] = TRUE]
    /\ IF c.op = "stop" THEN CallGoes(w, "kill") ELSE CallEnds(w)
    /\ UNCHANGED <<proc, active, pump, starter, crashes, faults>>

\* reconcile_leases takes the handle out, and reads the row again.
PopActive(w) ==
    LET r == call[w].run IN
    /\ call[w].at = "pop"
    /\ call' = [call EXCEPT ![w].at = "reload", ![w].pump = active[r]]
    /\ active' = [active EXCEPT ![r] = NoPump]
    /\ UNCHANGED <<row, proc, pump, renewing, starter, crashes, faults>>

Reload(w) ==
    LET c == call[w] IN
    /\ c.at = "reload"
    /\ \/ row[c.run].state \in Terminal /\ c.pump # NoPump /\ CallGoes(w, "kill")
       \/ row[c.run].state \in Terminal /\ c.pump = NoPump /\ CallEnds(w)
       \/ /\ row[c.run].state \notin Terminal
          /\ call' = [call EXCEPT ![w].at = RecoverAt(row[c.run].state),
                                  ![w].snap = row[c.run].state]
    /\ UNCHANGED <<row, proc, active, pump, renewing, starter, crashes, faults>>

RecoverQueued(w) ==
    /\ call[w].at = "queue"
    /\ Transition(call[w].run, "queued", "starting")
    /\ call' = [call EXCEPT ![w].at = "mark", ![w].snap = "starting"]
    /\ UNCHANGED <<proc, active, pump, renewing, starter, crashes, faults>>

RecoverMark(w) ==
    LET c == call[w] IN
    /\ c.at = "mark"
    /\ IF c.snap \in {"starting", "running"}
       THEN Transition(c.run, c.snap, "finalizing") ELSE UNCHANGED row
    /\ call' = [call EXCEPT ![w].at = "receipt", ![w].snap = "none"]
    /\ UNCHANGED <<proc, active, pump, renewing, starter, crashes, faults>>

RecoverReceipt(w) ==
    LET c == call[w] IN
    /\ c.at = "receipt"
    /\ \/ /\ FinalizeWithReceipt(c.run, "lost")
          /\ IF c.pump # NoPump THEN CallGoes(w, "kill") ELSE CallEnds(w)
       \/ ~CanFinalize(c.run) /\ CallEnds(w) /\ UNCHANGED row
    /\ UNCHANGED <<proc, active, pump, renewing, starter, crashes, faults>>

\* Mutant: a killed process gets an outcome the run table has no state for.
KilledUnnamed(pr) ==
    IF pr.finished \/ pr.child = "none" THEN pr
    ELSE [pr EXCEPT !.outcome = IF @ = "running" THEN "killed" ELSE @, !.child = "exited"]

\* handle.terminate(): the outcome is decided at once unless it already was, the child
\* dies.  A supervisor that is gone hears nothing.
Killed(pr) ==
    IF pr.finished \/ pr.child = "none" THEN pr
    ELSE [pr EXCEPT !.outcome = IF @ = "running" THEN "cancelled" ELSE @, !.child = "exited"]

Reaches(p) ==
    IF Supervised(pump[p].run) THEN Answers(pump[p].run) ELSE pump[p].at \notin {"off", "done"}

Terminate(w) ==
    LET r == pump[call[w].pump].run IN
    /\ call[w].at = "kill"
    /\ proc' = IF Reaches(call[w].pump) THEN [proc EXCEPT ![r] = Killed(@)] ELSE proc
    /\ CallEnds(w)
    /\ UNCHANGED <<row, active, pump, renewing, starter, crashes, faults>>

CallStep(w) ==
    \/ CheckActive(w)
    \/ LoadHandle(w)
    \/ Attach(w)
    \/ SetActive(w)
    \/ AttachLease(w)
    \/ PopActive(w)
    \/ Reload(w)
    \/ RecoverQueued(w)
    \/ RecoverMark(w)
    \/ RecoverReceipt(w)
    \/ Terminate(w)

(***************************************************************************)
(* The process and its supervisor                                          *)
(***************************************************************************)
\* Whoever reads the child's output is there to read it.
Read(r) == IF Supervised(r) THEN proc[r].sup = "up" ELSE Watched(r)

ChildWrites(r) ==
    /\ proc[r].sup = "up"
    /\ ~proc[r].finished
    /\ proc[r].journal < MaxJournal
    /\ proc' = [proc EXCEPT ![r].journal = @ + 1]
    /\ UNCHANGED <<row, active, pump, renewing, starter, call, crashes, faults>>

ChildExits(r) ==
    /\ proc[r].child = "alive"
    /\ proc' = [proc EXCEPT ![r].child = "exited"]
    /\ UNCHANGED <<row, active, pump, renewing, starter, call, crashes, faults>>

\* The exit code names the outcome, unless a kill or the deadline already has.
Finish(r) ==
    /\ proc[r].child = "exited"
    /\ ~proc[r].finished
    /\ Read(r)
    /\ \E o \in Exits :
          proc' = [proc EXCEPT ![r].finished = TRUE,
                               ![r].outcome = IF @ = "running" THEN o ELSE @]
    /\ UNCHANGED <<row, active, pump, renewing, starter, call, crashes, faults>>

Deadline(r) ==
    /\ proc[r].child # "none"
    /\ ~proc[r].finished
    /\ Read(r)
    /\ proc[r].outcome = "running" \/ proc[r].child = "alive"
    /\ proc' = [proc EXCEPT ![r].outcome = IF @ = "running" THEN "timed_out" ELSE @,
                            ![r].child = "exited"]
    /\ UNCHANGED <<row, active, pump, renewing, starter, call, crashes, faults>>

\* The supervisor exits when it is released, or when nobody has come for the outcome
\* within LINGER_SECONDS_AFTER_EXIT; a watcher that is there polls far more often.
SupervisorLeaves(r) ==
    /\ proc[r].sup = "up"
    /\ proc[r].finished
    /\ proc[r].released \/ ~Watched(r)
    /\ proc' = [proc EXCEPT ![r].sup = "gone"]
    /\ UNCHANGED <<row, active, pump, renewing, starter, call, crashes, faults>>

SupervisorDies(r) ==
    /\ faults < MaxFaults
    /\ proc[r].sup = "up"
    /\ faults' = faults + 1
    /\ proc' = [proc EXCEPT ![r].sup = "gone", ![r].child = "exited"]
    /\ UNCHANGED <<row, active, pump, renewing, starter, call, crashes>>

World(r) ==
    \/ ChildWrites(r)
    \/ ChildExits(r)
    \/ Finish(r)
    \/ Deadline(r)
    \/ SupervisorLeaves(r)
    \/ SupervisorDies(r)

(***************************************************************************)
(* The host stops: what was in memory is gone, and so are the processes it *)
(* ran itself.  A supervised process stays.                                *)
(***************************************************************************)
HostStops ==
    /\ crashes < MaxCrashes
    /\ crashes' = crashes + 1
    /\ active' = [r \in Runs |-> NoPump]
    /\ pump' = [p \in Pumps |-> IdlePump]
    /\ renewing' = [r \in Runs |-> FALSE]
    /\ starter' = [r \in Runs |-> [at |-> IF starter[r].at = "new" THEN "new" ELSE "done",
                                   pump |-> NoPump]]
    /\ call' = [w \in Workers |-> IdleCall]
    /\ UNCHANGED <<row, faults>>

OwnExit(r, pr) ==
    IF Supervised(r) \/ pr.child = "none" THEN pr ELSE [pr EXCEPT !.child = "exited"]

Crash ==
    /\ HostStops
    /\ proc' = [r \in Runs |-> OwnExit(r, proc[r])]

\* CommandService.shutdown: every handle held is terminated, and its supervisor released.
Shutdown ==
    /\ HostStops
    /\ proc' = [r \in Runs |->
          IF active[r] = NoPump THEN OwnExit(r, proc[r])
          ELSE [(IF Reaches(active[r]) THEN Killed(proc[r]) ELSE OwnExit(r, proc[r]))
                   EXCEPT !.released = Supervised(r)]]

Next ==
    \/ \E r \in Runs : \E k \in Kinds : Create(r, k)
    \/ \E r \in Runs : Start(r) \/ Renew(r) \/ StopRenewing(r) \/ Lapse(r) \/ World(r)
    \/ \E p \in Pumps : PumpStep(p)
    \/ \E w \in Workers, op \in Ops, r \in Runs : Call(w, op, r)
    \/ \E w \in Workers : CallStep(w)
    \/ Crash
    \/ Shutdown

Spec == Init /\ [][Next]_vars

\* Threads run; a process reaches its deadline; a lease nobody renews lapses; and the
\* owner keeps listing the runs and asking after the background ones, the only places
\* from which recovery is called.
Fairness ==
    /\ \A r \in Runs :
          /\ WF_vars(Start(r))
          /\ WF_vars(Renew(r))
          /\ WF_vars(StopRenewing(r))
          /\ WF_vars(Lapse(r) /\ ~Renewable(r))
          /\ WF_vars(Deadline(r))
          /\ WF_vars(Finish(r))
          /\ SF_vars(\E w \in Workers : Call(w, "recover", r))
          /\ SF_vars(\E w \in Workers : Call(w, "reclaim", r))
    /\ \A p \in Pumps : WF_vars(PumpStep(p))
    /\ \A w \in Workers : WF_vars(CallStep(w))

FairSpec == Spec /\ Fairness

(***************************************************************************)
(* Properties                                                              *)
(***************************************************************************)
\* The run table refines CommandReceipts: whatever the interleaving of the watcher, the
\* starter, the callers and the crashes, a run is settled once, and its receipt names
\* the outcome of its process, or lost, or contained when nothing was launched
\* (_finalize, _recover_run, _contain_start_failure).
Receipts == INSTANCE CommandReceipts
              WITH outcome <- [r \in Runs |-> proc[r].outcome],
                   receipt <- [r \in Runs |-> row[r].receipt]

ReceiptsHold == Receipts!Spec

\* A supervised run that its watcher settled has every record of the journal in the
\* store, although the watcher may be the second one, started after a restart
\* (SupervisedProcess._drain and the drain after the exit).
OutputComplete ==
    \A r \in Runs :
        Supervised(r) /\ row[r].receipt \in Outcomes => row[r].chunks = proc[r].journal

\* A run that this host neither watches nor is starting, because the host died or its
\* watcher ended too early, is taken back or declared lost, and gets its receipt
\* (recover_owner, reconcile_leases, reattach).
Unattended(r) ==
    /\ row[r].state \notin Terminal \cup {"none"}
    /\ starter[r].at = "done"
    /\ active[r] = NoPump
    /\ ~Watched(r)

UnattendedSettles == \A r \in Runs : Unattended(r) ~> row[r].receipt # "none"

\* Every run that was filed gets a receipt (start, _finalize).
EveryCommandSettles == \A r \in Runs : row[r].state # "none" ~> row[r].receipt # "none"
=============================================================================
