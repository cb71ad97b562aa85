----------------------------- MODULE Approvals -----------------------------
(***************************************************************************)
(* Decisions and what they set off: an approval is raised by a turn that   *)
(* parks on it, is decided once, may execute the action it approved, and   *)
(* its outcome is handed to the parked turn, which is continued once       *)
(* (raiker/api/routes_approvals.py and routes_channels.py over             *)
(* raiker/approvals, the execution relay, held sends and the approvals and *)
(* suspended_turns tables).                                                *)
(*                                                                         *)
(* The routes are coroutines of one event loop: from one await to the next *)
(* they hold it (loop).  An execution runs on a worker thread, and so does *)
(* the expiry sweep, so each store call of a route is a step of its own.   *)
(* A request that has answered may be sent again.                          *)
(***************************************************************************)
EXTENDS Naturals

CONSTANTS
    Ids,            \* approvals
    Relayable,      \* of a tool in EXECUTABLE_ON_APPROVAL
    Sends,          \* of a connector write, filed with an intent
    Questions,      \* of ask_owner_question
    Criticals,      \* of a critical action
    Edits,          \* raised by a reviewer's edit, not by a turn
    Parking,        \* whose turn parks on them
    Relayed,        \* announced on a channel the owner may answer on
    Raising,        \* whose executor may raise
    Requests,       \* requests the host is serving
    Decisions,      \* what the owner presses, a subset of {TRUE, FALSE}
    DecideUnparked, \* may a decision arrive before its turn has parked?
    MaxCrashes      \* bound: crashes of the host

ASSUME ApprovalSets ==
    /\ Relayable \subseteq Ids /\ Sends \subseteq Ids
    /\ Questions \subseteq Ids /\ Criticals \subseteq Ids
    /\ Relayable \cap Sends = {} /\ Criticals \cap Sends = {}
    /\ Questions \cap (Relayable \union Sends \union Criticals) = {}
    /\ Criticals \cap Relayable = {}
    /\ Edits \subseteq Relayable /\ Relayed \subseteq Ids
    /\ Parking \subseteq Ids \ (Edits \union Criticals)
    /\ Raising \subseteq Relayable \union Criticals
ASSUME ApprovalBounds ==
    /\ Decisions \subseteq BOOLEAN /\ DecideUnparked \in BOOLEAN
    /\ MaxCrashes \in Nat
ASSUME SomeApproval == Ids # {}

NoRequest == "none"
ASSUME NoRequestIsNoRequest == NoRequest \notin Requests

Statuses == {"absent", "pending", "executing", "approved", "denied", "answered",
             "expired", "executed", "execution_failed"}
Decided == {"approved", "denied", "answered", "executed", "execution_failed"}
Intents == {"none", "pending_approval", "held", "executing", "executed",
            "failed", "denied", "undone"}
TurnStates == {"none", "suspended", "resuming", "resumed", "resume_failed",
               "authority_changed", "target_changed"}
\* What the parked turn is told (approval_outcome, owner_answer_outcome).
Told == {"none", "executed", "failed", "denied", "not_run", "answered"}
Routes == {"inbox", "send", "channel", "answer", "critical"}
Locations == {"idle", "check", "write", "record", "hold", "held", "sending",
              "refuse_intent", "relay", "claim", "target", "settle", "report", "reply"}
\* How an execution ended: "blocked" when governance refused the target before
\* any executor ran, "refused" when the relay never claimed the approval.
Results == {"none", "executed", "failed", "blocked", "refused"}

Request == [id : Ids, approve : BOOLEAN, route : Routes]
NoDecision == [id |-> CHOOSE a \in Ids : TRUE, approve |-> FALSE, route |-> "inbox"]

VARIABLES
    status, overdue, intent, answerable,  \* approvals, intents, channel relays
    turn, outcome,                        \* suspended_turns
    gates,                                \* the relay's and the tool's gates
    pc, req, res, loop, crashes,          \* the requests and their host
    attempts                              \* history: executions begun

rows == <<status, overdue, intent, answerable, turn, outcome>>
work == <<pc, req, res, loop>>
vars == <<rows, gates, work, crashes, attempts>>

ApprovalsTypeOK ==
    /\ status \in [Ids -> Statuses] /\ overdue \in [Ids -> BOOLEAN]
    /\ intent \in [Ids -> Intents] /\ answerable \in [Ids -> BOOLEAN]
    /\ turn \in [Ids -> TurnStates] /\ outcome \in [Ids -> Told]
    /\ gates \in BOOLEAN
    /\ pc \in [Requests -> Locations] /\ req \in [Requests -> Request]
    /\ res \in [Requests -> Results]
    /\ loop \in Requests \union {NoRequest} /\ crashes \in Nat
    /\ attempts \in [Ids -> Nat]

Init ==
    /\ status = [a \in Ids |-> "absent"] /\ overdue = [a \in Ids |-> FALSE]
    /\ intent = [a \in Ids |-> "none"]
    /\ answerable = [a \in Ids |-> FALSE]
    /\ turn = [a \in Ids |-> "none"] /\ outcome = [a \in Ids |-> "none"]
    /\ gates \in BOOLEAN
    /\ pc = [r \in Requests |-> "idle"] /\ req = [r \in Requests |-> NoDecision]
    /\ res = [r \in Requests |-> "none"]
    /\ loop = NoRequest /\ crashes = 0
    /\ attempts = [a \in Ids |-> 0]

\* The approval a request is about.
Of(r) == req[r].id

Goto(r, l) == pc' = [pc EXCEPT ![r] = l]
Release(r) == loop' = IF loop = r THEN NoRequest ELSE loop

\* The request has answered its caller.
Done(r) ==
    /\ Goto(r, "idle") /\ Release(r)
    /\ req' = [req EXCEPT ![r] = NoDecision] /\ res' = [res EXCEPT ![r] = "none"]

----------------------------------------------------------------------------
(***************************************************************************)
(* Raising an approval: the broker files it on a worker thread, the turn   *)
(* then parks itself on the loop.                                          *)
(***************************************************************************)

Propose(a) ==
    /\ status[a] = "absent" /\ a \notin Edits
    /\ status' = [status EXCEPT ![a] = "pending"]
    /\ UNCHANGED <<overdue, intent, answerable, turn, outcome, gates, work, crashes, attempts>>

FileIntent(a) ==
    /\ a \in Sends /\ status[a] # "absent" /\ intent[a] = "none"
    /\ intent' = [intent EXCEPT ![a] = "pending_approval"]
    /\ UNCHANGED <<status, overdue, answerable, turn, outcome, gates, work, crashes, attempts>>

Filed(a) == status[a] # "absent" /\ (a \in Sends => intent[a] # "none")

\* _suspend_turn.
Park(a) ==
    /\ a \in Parking /\ Filed(a) /\ turn[a] = "none" /\ loop = NoRequest
    /\ turn' = [turn EXCEPT ![a] = "suspended"]
    /\ UNCHANGED <<status, overdue, intent, answerable, outcome, gates, work, crashes, attempts>>

\* The owner is asked on a paired channel, whatever the action is:
\* insert_approval_relay.
Announce(a) ==
    /\ a \in Relayed /\ status[a] # "absent" /\ ~answerable[a]
    /\ answerable' = [answerable EXCEPT ![a] = TRUE]
    /\ UNCHANGED <<status, overdue, intent, turn, outcome, gates, work, crashes, attempts>>

TimeLimit(a) ==
    /\ status[a] = "pending" /\ ~overdue[a]
    /\ overdue' = [overdue EXCEPT ![a] = TRUE]
    /\ UNCHANGED <<status, intent, answerable, turn, outcome, gates, work, crashes, attempts>>

\* expire_due_approvals, on a thread of the tick: a conditional update per row.
ExpireDue(a) ==
    /\ status[a] = "pending" /\ overdue[a]
    /\ status' = [status EXCEPT ![a] = "expired"]
    /\ UNCHANGED <<overdue, intent, answerable, turn, outcome, gates, work, crashes, attempts>>

FlipGates ==
    /\ gates' = ~gates
    /\ UNCHANGED <<rows, work, crashes, attempts>>

----------------------------------------------------------------------------
(***************************************************************************)
(* The routes that take a decision.                                        *)
(***************************************************************************)

\* A decision arrives for an approval the owner has been shown.
Shown(a) == status[a] # "absent" /\ (DecideUnparked \/ a \notin Parking \/ turn[a] # "none")

Arrives(r, a, d, route) ==
    /\ pc[r] = "idle" /\ loop = NoRequest /\ Shown(a)
    /\ req' = [req EXCEPT ![r] = [id |-> a, approve |-> d, route |-> route]]
    /\ UNCHANGED <<res, crashes, gates, overdue, turn, outcome, attempts>>

\* executes_on_resolution: approving goes to the relay on a worker thread.
Executes(a, d) == d /\ a \in Relayable /\ gates

Dispatch(r, a, d) ==
    IF Executes(a, d) THEN Goto(r, "relay") /\ UNCHANGED loop
                      ELSE Goto(r, "check") /\ loop' = r

\* POST resolve.  A filed intent makes it a send, which the relay never sees.
Resolve(r, a, d) ==
    /\ a \notin Questions \union Criticals
    /\ Arrives(r, a, d, IF intent[a] = "none" THEN "inbox" ELSE "send")
    /\ IF intent[a] = "none" THEN Dispatch(r, a, d) ELSE Goto(r, "check") /\ loop' = r
    /\ UNCHANGED <<status, intent, answerable>>

\* The owner's reply on a channel: the relay record is claimed first.
ChannelAnswer(r, a, d) ==
    /\ answerable[a] /\ intent[a] = "none" /\ a \notin Criticals
    /\ Arrives(r, a, d, "channel")
    /\ answerable' = [answerable EXCEPT ![a] = FALSE]
    /\ Dispatch(r, a, d)
    /\ UNCHANGED <<status, intent>>

\* POST replace: the reviewer's edit is raised as b, then a is denied.
Replace(r, a, b) ==
    /\ a \in Relayable /\ status[a] = "pending" /\ b \in Edits /\ status[b] = "absent"
    /\ Arrives(r, a, FALSE, "inbox")
    /\ status' = [status EXCEPT ![b] = "pending"]
    /\ Goto(r, "check") /\ loop' = r
    /\ UNCHANGED <<intent, answerable>>

\* POST resolve-critical runs the relay without leaving the loop.
ResolveCritical(r, a, d) ==
    /\ a \in Criticals
    /\ Arrives(r, a, d, "critical")
    /\ Goto(r, "check") /\ loop' = r
    /\ UNCHANGED <<status, intent, answerable>>

\* POST answer: answer_owner_question is one conditional update.
AnswerQuestion(r, a) ==
    /\ a \in Questions /\ status[a] = "pending"
    /\ Arrives(r, a, TRUE, "answer")
    /\ status' = [status EXCEPT ![a] = "answered"]
    /\ Goto(r, "record") /\ loop' = r
    /\ UNCHANGED <<intent, answerable>>

\* ApprovalInbox.resolve reads the row, and resolve_critical_approval does.  A
\* payload that changed, or a critical decision's posture, refuses it as it is.
Check(r) ==
    /\ pc[r] = "check"
    /\ \/ ~overdue[Of(r)] /\ Done(r) /\ UNCHANGED status
       \/ status[Of(r)] # "pending" /\ Done(r) /\ UNCHANGED status
       \/ /\ status[Of(r)] = "pending" /\ overdue[Of(r)]
          /\ status' = [status EXCEPT ![Of(r)] = "expired"] /\ Done(r)
       \/ /\ status[Of(r)] = "pending" /\ ~overdue[Of(r)]
          /\ Goto(r, IF req[r].route = "critical" /\ req[r].approve THEN "relay" ELSE "write")
          /\ UNCHANGED <<status, req, res, loop>>
    /\ UNCHANGED <<overdue, intent, answerable, turn, outcome, gates, crashes, attempts>>

ResolvedAnyway(a, s) == [status EXCEPT ![a] = s]  \* fault: the row's state is not a condition
\* resolve_approval: a conditional update whose count the caller never sees.
Resolved(a, s) == [status EXCEPT ![a] = IF @ = "pending" THEN s ELSE @]

AfterWrite(r) == CASE req[r].route = "send" -> IF req[r].approve THEN "hold" ELSE "refuse_intent"
                   [] req[r].route = "critical" -> "reply"
                   [] OTHER -> "record"

Write(r) ==
    /\ pc[r] = "write"
    /\ status' = Resolved(Of(r), IF req[r].approve THEN "approved" ELSE "denied")
    /\ Goto(r, AfterWrite(r))
    /\ UNCHANGED <<overdue, intent, answerable, turn, outcome, gates, req, res, loop, crashes, attempts>>

\* record_suspended_turn_outcome: only while the turn is still parked.
Recorded(a, o) == [outcome EXCEPT ![a] = IF turn[a] = "suspended" THEN o ELSE @]

AnswerIgnoresResult(r) ==                    \* fault: what was sent is not told
    IF req[r].approve THEN "not_run" ELSE "denied"
\* What a decision the relay had no part in tells the turn.
Answer(r) == IF req[r].route = "answer" THEN "answered"
             ELSE IF res[r] = "executed" THEN "executed"
             ELSE IF req[r].approve THEN "not_run" ELSE "denied"

Record(r) ==
    /\ pc[r] = "record"
    /\ outcome' = Recorded(Of(r), Answer(r))
    /\ Done(r)
    /\ UNCHANGED <<status, overdue, intent, answerable, turn, gates, crashes, attempts>>

----------------------------------------------------------------------------
(***************************************************************************)
(* Held sends.                                                             *)
(***************************************************************************)

RefuseIntent(r) ==
    /\ pc[r] = "refuse_intent"
    /\ intent' = [intent EXCEPT ![Of(r)] = IF @ = "pending_approval" THEN "denied" ELSE @]
    /\ Goto(r, "record")
    /\ UNCHANGED <<status, overdue, answerable, turn, outcome, gates, req, res, loop, crashes, attempts>>

Hold(r) ==
    /\ pc[r] = "hold"
    /\ \/ /\ intent[Of(r)] = "pending_approval"
          /\ intent' = [intent EXCEPT ![Of(r)] = "held"]
          /\ Goto(r, "held") /\ Release(r) /\ UNCHANGED <<req, res>>
       \/ intent[Of(r)] # "pending_approval" /\ Done(r) /\ UNCHANGED intent
    /\ UNCHANGED <<status, overdue, answerable, turn, outcome, gates, crashes, attempts>>

\* Undo, and Stop on the conversation.
Undo(a) ==
    /\ intent[a] = "held" /\ loop = NoRequest
    /\ intent' = [intent EXCEPT ![a] = "undone"]
    /\ UNCHANGED <<status, overdue, answerable, turn, outcome, gates, work, crashes, attempts>>

ReleasableAnyway(a) == TRUE                  \* fault: the claim is not conditional
\* wait_for_release: held -> executing, in one conditional update.
Releasable(a) == intent[a] = "held"

HoldOver(r) ==
    /\ pc[r] = "held" /\ loop = NoRequest
    /\ \/ /\ Releasable(Of(r))
          /\ intent' = [intent EXCEPT ![Of(r)] = "executing"]
          /\ attempts' = [attempts EXCEPT ![Of(r)] = @ + 1]
          /\ Goto(r, "sending") /\ UNCHANGED <<req, res, loop, outcome>>
       \/ /\ ~Releasable(Of(r))
          /\ outcome' = Recorded(Of(r), "not_run") /\ Done(r)
          /\ UNCHANGED <<intent, attempts>>
    /\ UNCHANGED <<status, overdue, answerable, turn, gates, crashes>>

\* A service that refuses the send, or a transport that fails, whose error
\* nobody catches, ends the request before the turn is told.
SendEndings == {"executed", "failed", "executing"}

SendEnds(r, x) ==
    /\ pc[r] = "sending" /\ loop = NoRequest
    /\ intent' = [intent EXCEPT ![Of(r)] = x]
    /\ \/ x = "executed" /\ Goto(r, "record") /\ loop' = r
                         /\ res' = [res EXCEPT ![r] = x] /\ UNCHANGED req
       \/ x # "executed" /\ Done(r)
    /\ UNCHANGED <<status, overdue, answerable, turn, outcome, gates, crashes, attempts>>

----------------------------------------------------------------------------
(***************************************************************************)
(* The execution relay.                                                    *)
(***************************************************************************)

\* The relay's own checks: the row, its time limit, then intent and posture.
RelayCheck(r) ==
    /\ pc[r] = "relay"
    /\ \/ /\ status[Of(r)] = "pending" /\ ~overdue[Of(r)]
          /\ Goto(r, "claim") /\ UNCHANGED <<status, res>>
       \/ /\ status' = IF overdue[Of(r)] THEN Resolved(Of(r), "expired") ELSE status
          /\ Goto(r, "report") /\ res' = [res EXCEPT ![r] = "refused"]
    /\ UNCHANGED <<overdue, intent, answerable, turn, outcome, gates, req, loop, crashes, attempts>>

ClaimableAnyway(a) == TRUE                   \* fault: the claim is not conditional
\* claim_approval_for_execution's condition.
Claimable(a) == status[a] = "pending"

RelayClaim(r) ==
    /\ pc[r] = "claim"
    /\ \/ /\ Claimable(Of(r))
          /\ status' = [status EXCEPT ![Of(r)] = "executing"]
          /\ Goto(r, "target") /\ UNCHANGED res
       \/ /\ ~Claimable(Of(r))
          /\ Goto(r, "report") /\ res' = [res EXCEPT ![r] = "refused"]
          /\ UNCHANGED status
    /\ UNCHANGED <<overdue, intent, answerable, turn, outcome, gates, req, loop, crashes, attempts>>

\* The target is governed again: blocked before it ran, or run to an end.
TargetRuns(r, x) ==
    /\ pc[r] = "target"
    /\ attempts' = [attempts EXCEPT ![Of(r)] = IF x = "blocked" THEN @ ELSE @ + 1]
    /\ res' = [res EXCEPT ![r] = x] /\ Goto(r, "settle")
    /\ UNCHANGED <<rows, gates, req, loop, crashes>>

\* An error from the target's governance, its executor or the audit trail is
\* caught by nobody: the request ends, and the row stays as its claim left it.
TargetRaises(r, ran) ==
    /\ pc[r] = "target" /\ Of(r) \in Raising
    /\ attempts' = [attempts EXCEPT ![Of(r)] = IF ran THEN @ + 1 ELSE @]
    /\ Done(r)
    /\ UNCHANGED <<rows, gates, crashes>>

ReleasedOnFailure(x) == CASE x = "executed" -> "executed"  \* fault: a failed run is released
                          [] OTHER          -> "pending"
NeverReleased(x) == CASE x = "executed" -> "executed"      \* fault: a blocked one is kept
                      [] x = "failed"   -> "execution_failed"
                      [] OTHER          -> "executing"
RawSettlement(x) == IF x = "blocked" THEN "pending" ELSE x \* fault: a result as a status
\* finalize_approval_execution, or release_approval_claim when nothing ran.
Settlement(x) == CASE x = "executed" -> "executed"
                   [] x = "failed"   -> "execution_failed"
                   [] OTHER          -> "pending"

RelaySettle(r) ==
    /\ pc[r] = "settle"
    /\ status' = [status EXCEPT ![Of(r)] = IF @ = "executing" THEN Settlement(res[r]) ELSE @]
    /\ Goto(r, "report")
    /\ UNCHANGED <<overdue, intent, answerable, turn, outcome, gates, req, res, loop, crashes, attempts>>

\* ApprovalExecutionBridge.execute reads the row back to say how it ended.
RelayReport(r) ==
    /\ pc[r] = "report"
    /\ res' = [res EXCEPT ![r] = IF @ = "executed" THEN @
                                 ELSE IF status[Of(r)] = "execution_failed" THEN "failed"
                                 ELSE "refused"]
    /\ Goto(r, "reply")
    /\ UNCHANGED <<rows, gates, req, loop, crashes, attempts>>

TurnHearsSuccess(r) ==                       \* fault: a failed run is not told
    req[r].route \in {"inbox", "channel"} /\ res[r] = "executed"
\* The inbox tells the turn of a run that failed; a channel and a critical
\* decision do not.
TurnHears(r) == \/ req[r].route = "inbox" /\ res[r] \in {"executed", "failed"}
                \/ req[r].route = "channel" /\ res[r] = "executed"

\* Back on the loop.
Reply(r) ==
    /\ pc[r] = "reply" /\ loop \in {NoRequest, r}
    /\ outcome' = IF TurnHears(r) THEN Recorded(Of(r), res[r]) ELSE outcome
    /\ Done(r)
    /\ UNCHANGED <<status, overdue, intent, answerable, turn, gates, crashes, attempts>>

----------------------------------------------------------------------------
(***************************************************************************)
(* Continuing the parked turn, from a tab or from the scheduler.           *)
(***************************************************************************)

\* _restore_suspended_turn
Resumable(a) == turn[a] = "suspended" /\ outcome[a] # "none"

\* claim_suspended_turn, in the same stretch as the read.
ResumeTurn(a) ==
    /\ Resumable(a) /\ loop = NoRequest
    /\ turn' = [turn EXCEPT ![a] = "resuming"]
    /\ UNCHANGED <<status, overdue, intent, answerable, outcome, gates, work, crashes, attempts>>

\* finalize_suspended_turn: replayed, raised, or refused because what the turn
\* started on has moved.
ResumeEnds(a, s) ==
    /\ turn[a] = "resuming"
    /\ turn' = [turn EXCEPT ![a] = s]
    /\ UNCHANGED <<status, overdue, intent, answerable, outcome, gates, work, crashes, attempts>>

Ends == {"resumed", "resume_failed", "authority_changed", "target_changed"}

\* The host dies; its requests, threads and continuations with it.
Crash ==
    /\ crashes < MaxCrashes /\ crashes' = crashes + 1
    /\ pc' = [r \in Requests |-> "idle"] /\ req' = [r \in Requests |-> NoDecision]
    /\ res' = [r \in Requests |-> "none"] /\ loop' = NoRequest
    /\ UNCHANGED <<rows, gates, attempts>>

----------------------------------------------------------------------------
Decides(r) ==
    \E a \in Ids :
        \/ \E d \in Decisions : Resolve(r, a, d) \/ ChannelAnswer(r, a, d) \/ ResolveCritical(r, a, d)
        \/ \E b \in Edits : Replace(r, a, b)
        \/ AnswerQuestion(r, a)

Relays(r) == \/ RelayCheck(r) \/ RelayClaim(r) \/ RelaySettle(r) \/ RelayReport(r) \/ Reply(r)
             \/ \E x \in {"executed", "failed", "blocked"} : TargetRuns(r, x)
             \/ \E ran \in BOOLEAN : TargetRaises(r, ran)

\* The steps of a request that has arrived.
Serves(r) == \/ Check(r) \/ Write(r) \/ Record(r)
             \/ RefuseIntent(r) \/ Hold(r) \/ HoldOver(r)
             \/ \E x \in SendEndings : SendEnds(r, x)
             \/ Relays(r)

Files(a) == Propose(a) \/ FileIntent(a) \/ Park(a)
Continues(a) == \E s \in Ends : ResumeEnds(a, s)

Next ==
    \/ \E r \in Requests : Decides(r) \/ Serves(r)
    \/ \E a \in Ids : \/ Files(a) \/ Announce(a) \/ TimeLimit(a) \/ ExpireDue(a)
                      \/ Undo(a) \/ ResumeTurn(a) \/ Continues(a)
    \/ FlipGates \/ Crash

(***************************************************************************)
(* A request goes on once it has arrived, and is served when it waits for  *)
(* the loop; a turn that has filed an approval parks; whoever continues    *)
(* turns comes round.                                                      *)
(***************************************************************************)
Fairness ==
    /\ \A r \in Requests : SF_vars(Serves(r))
    /\ \A a \in Ids : SF_vars(ResumeTurn(a)) /\ WF_vars(Continues(a))

Spec == Init /\ [][Next]_vars /\ Fairness

----------------------------------------------------------------------------
(***************************************************************************)
(* Properties.                                                             *)
(***************************************************************************)

\* An approved action or send is performed at most once, whoever answers, how
\* often, and wherever the host dies ("an approved action executes at most
\* once").
RunsOnce == \A a \in Ids : attempts[a] <= 1

\* Nothing has run for an approval that is pending, denied, expired or only
\* answered ("a stale grant can never execute").
OnlyApprovedRuns ==
    \A a \in Ids : attempts[a] > 0 =>
        status[a] \in {"executing", "executed", "execution_failed", "approved"}

\* What a continued turn was told is what happened ("The result handed back
\* names what actually happened").
TruthfulResume ==
    \A a \in Ids : turn[a] \in {"resuming", "resumed", "resume_failed"} =>
        attempts[a] = IF outcome[a] \in {"executed", "failed"} THEN 1 ELSE 0

\* A send taken back inside its window stays taken back and is never made
\* ("never both").
UndoneNeverSent ==
    [][\A a \in Ids : intent[a] = "undone" => intent'[a] = "undone" /\ attempts'[a] = 0]_vars

\* A turn that was told its action ran is told nothing else, however many tabs
\* and channels still decide it: no refusal, no later run and no other ending
\* takes the place of the result ("The result handed back names what actually
\* happened").
ResultStands ==
    [][\A a \in Ids : outcome[a] \in {"executed", "failed"} => outcome'[a] = outcome[a]]_vars

\* A decision reaches the turn that waits for it.
DecisionReachesTurn ==
    \A a \in Ids : (status[a] \in Decided /\ turn[a] = "suspended") ~> (turn[a] # "suspended")

\* An approval being executed is settled or handed back, unless its executor
\* raised (ApprovalExecutionRelay.execute).
ExecutionSettles ==
    \A a \in Ids \ Raising : (status[a] = "executing") ~> (status[a] # "executing")
=============================================================================
