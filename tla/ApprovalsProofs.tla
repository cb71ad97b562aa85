-------------------------- MODULE ApprovalsProofs --------------------------
(***************************************************************************)
(* What holds of Approvals for every set of approvals of every kind, every *)
(* number of concurrent requests and every number of crashes.              *)
(***************************************************************************)
EXTENDS Approvals, TLAPS

(***************************************************************************)
(* Why an action runs once.  Two kinds of row guard two kinds of action,   *)
(* and no approval is guarded by both: an intent belongs to a send, and    *)
(* the relay only ever works on what is no send.                           *)
(***************************************************************************)

OnlySendsHaveIntents == \A a \in Ids : intent[a] # "none" => a \in Sends

\* A request that performs a send has an intent to settle.
SendersSend == \A r \in Requests : pc[r] = "sending" => Of(r) \in Sends

\* A critical request keeps to its approval, and the relay to what it may run.
RelayWorks == {"relay", "claim", "target", "settle"}
NeverRelaysSends ==
    \A r \in Requests :
        /\ pc[r] \in RelayWorks => Of(r) \notin Sends
        /\ req[r].route = "critical" => Of(r) \notin Sends

\* From its claim to its settlement a request owns its row, and nobody else
\* owns the same one.
ClaimHeld ==
    \A r \in Requests : pc[r] \in {"target", "settle"} => status[Of(r)] = "executing"

ClaimExclusive ==
    \A r, s \in Requests :
        r # s /\ pc[r] \in {"target", "settle"} /\ pc[s] \in {"target", "settle"}
            => Of(r) # Of(s)

\* Its target has not run before it does, nor when it was blocked.
NotYetRun ==
    \A r \in Requests :
        /\ pc[r] = "target" => attempts[Of(r)] = 0
        /\ pc[r] = "settle" => \/ res[r] \in {"executed", "failed"}
                               \/ attempts[Of(r)] = 0

\* A relayed action that has run has a row that says so.
RanIsOnTheRow ==
    \A a \in Ids \ Sends :
        status[a] \notin {"executing", "executed", "execution_failed"} => attempts[a] = 0

\* So has a send.
SentIsOnTheIntent ==
    \A a \in Sends : intent[a] \notin {"executing", "executed", "failed"} => attempts[a] = 0

Claims == ClaimHeld /\ ClaimExclusive /\ NotYetRun
SafetyInv ==
    /\ OnlySendsHaveIntents /\ SendersSend /\ NeverRelaysSends /\ Claims
    /\ RanIsOnTheRow /\ SentIsOnTheIntent /\ RunsOnce

----------------------------------------------------------------------------
\* What an idle request holds is a request like any other.
LEMMA NoDecisionIsRequest == NoDecision \in Request
<1>1. (CHOOSE a \in Ids : TRUE) \in Ids
  BY SomeApproval
<1> QED BY <1>1 DEF NoDecision, Request, Routes

\* The approval in a request's hand is an approval.
LEMMA OfType ==
  ASSUME ApprovalsTypeOK, NEW r \in Requests
  PROVE  Of(r) \in Ids /\ req[r].approve \in BOOLEAN /\ req[r].route \in Routes
  BY DEF ApprovalsTypeOK, Of, Request

\* Answering the caller keeps the requests well typed.
LEMMA DoneType ==
  ASSUME ApprovalsTypeOK, NEW r \in Requests, Done(r)
  PROVE  /\ pc' \in [Requests -> Locations] /\ req' \in [Requests -> Request]
         /\ res' \in [Requests -> Results] /\ loop' \in Requests \union {NoRequest}
  BY NoDecisionIsRequest DEF ApprovalsTypeOK, Done, Goto, Release, Locations, Results

\* So does the arrival of a decision.
LEMMA ArrivesType ==
  ASSUME ApprovalsTypeOK, NEW r \in Requests, NEW a \in Ids, NEW d \in BOOLEAN,
         NEW route \in Routes, Arrives(r, a, d, route)
  PROVE  req' \in [Requests -> Request]
<1>1. [id |-> a, approve |-> d, route |-> route] \in Request
  BY DEF Request
<1> QED BY <1>1 DEF Arrives, ApprovalsTypeOK

\* Where a decision is dispatched to is a location.
LEMMA DispatchType ==
  ASSUME ApprovalsTypeOK, NEW r \in Requests, NEW a, NEW d, Dispatch(r, a, d)
  PROVE  pc' \in [Requests -> Locations] /\ loop' \in Requests \union {NoRequest}
  BY DEF Dispatch, Goto, ApprovalsTypeOK, Locations

\* The turn is told something it can be told.
LEMMA RecordedType ==
  ASSUME ApprovalsTypeOK, NEW a \in Ids, NEW o \in Told
  PROVE  Recorded(a, o) \in [Ids -> Told]
  BY DEF ApprovalsTypeOK, Recorded

\* A resolved row has a status.
LEMMA ResolvedType ==
  ASSUME ApprovalsTypeOK, NEW a \in Ids, NEW s \in Statuses
  PROVE  Resolved(a, s) \in [Ids -> Statuses]
  BY DEF ApprovalsTypeOK, Resolved

\* Initial states are well typed.
LEMMA InitTypeOK == Init => ApprovalsTypeOK
<1> SUFFICES ASSUME Init PROVE ApprovalsTypeOK
  OBVIOUS
<1> QED BY NoDecisionIsRequest DEF Init, ApprovalsTypeOK, Statuses, Intents, TurnStates, Told,
           Locations, Results

\* Every step keeps the state well typed: what a settlement, a decision or a
\* send writes is a status its column knows, and what a turn is told is an
\* outcome.
LEMMA StepTypeOK == ApprovalsTypeOK /\ [Next]_vars => ApprovalsTypeOK'
<1> SUFFICES ASSUME ApprovalsTypeOK, [Next]_vars PROVE ApprovalsTypeOK'
  OBVIOUS
<1> USE ApprovalSets, ApprovalBounds DEF rows, work
<1>1. ASSUME NEW a \in Ids, Files(a) \/ Announce(a) \/ TimeLimit(a) \/ ExpireDue(a) \/ Undo(a)
                            \/ ResumeTurn(a) \/ Continues(a)
      PROVE  ApprovalsTypeOK'
  <2>1. CASE Files(a)
    BY <2>1 DEF Files, Propose, FileIntent, Park, ApprovalsTypeOK, Statuses, Intents, TurnStates
  <2>2. CASE Announce(a) \/ TimeLimit(a)
    <3>1. answerable' \in [Ids -> BOOLEAN] /\ overdue' \in [Ids -> BOOLEAN]
      BY <2>2, Zenon DEF Announce, TimeLimit, ApprovalsTypeOK
    <3> QED BY <2>2, <3>1 DEF Announce, TimeLimit, ApprovalsTypeOK
  <2>3. CASE ExpireDue(a) \/ Undo(a)
    BY <2>3 DEF ExpireDue, Undo, ApprovalsTypeOK, Statuses, Intents
  <2>4. CASE ResumeTurn(a) \/ Continues(a)
    BY <2>4 DEF ResumeTurn, Continues, ResumeEnds, Ends, ApprovalsTypeOK, TurnStates
  <2> QED BY <1>1, <2>1, <2>2, <2>3, <2>4
<1>2. ASSUME FlipGates \/ Crash PROVE ApprovalsTypeOK'
  <2>1. CASE FlipGates
    <3>1. gates' \in BOOLEAN
      BY <2>1, Zenon DEF FlipGates
    <3> QED BY <2>1, <3>1 DEF FlipGates, ApprovalsTypeOK
  <2>2. CASE Crash
    BY <2>2, NoDecisionIsRequest DEF Crash, ApprovalsTypeOK, Locations, Results
  <2> QED BY <1>2, <2>1, <2>2
<1>3. ASSUME NEW r \in Requests, NEW a \in Ids, NEW d \in Decisions, Resolve(r, a, d)
      PROVE  ApprovalsTypeOK'
  <2>1. req' \in [Requests -> Request]
    BY <1>3, ArrivesType DEF Resolve, Routes
  <2>2. pc' \in [Requests -> Locations] /\ loop' \in Requests \union {NoRequest}
    BY <1>3, DispatchType DEF Resolve, Goto, ApprovalsTypeOK, Locations
  <2> QED BY <1>3, <2>1, <2>2 DEF Resolve, Arrives, ApprovalsTypeOK
<1>4. ASSUME NEW r \in Requests, NEW a \in Ids, NEW d \in Decisions, ChannelAnswer(r, a, d)
      PROVE  ApprovalsTypeOK'
  <2>1. req' \in [Requests -> Request]
    BY <1>4, ArrivesType DEF ChannelAnswer, Routes
  <2>2. pc' \in [Requests -> Locations] /\ loop' \in Requests \union {NoRequest}
    BY <1>4, DispatchType DEF ChannelAnswer
  <2> QED BY <1>4, <2>1, <2>2 DEF ChannelAnswer, Arrives, ApprovalsTypeOK
<1>5. ASSUME NEW r \in Requests, NEW a \in Ids, NEW d \in Decisions, ResolveCritical(r, a, d)
      PROVE  ApprovalsTypeOK'
  <2>1. req' \in [Requests -> Request]
    BY <1>5, ArrivesType DEF ResolveCritical, Routes
  <2> QED BY <1>5, <2>1 DEF ResolveCritical, Arrives, Goto, ApprovalsTypeOK, Locations
<1>6. ASSUME NEW r \in Requests, NEW a \in Ids, NEW b \in Edits, Replace(r, a, b)
      PROVE  ApprovalsTypeOK'
  <2>1. req' \in [Requests -> Request]
    BY <1>6, ArrivesType DEF Replace, Routes
  <2>2. b \in Ids
    OBVIOUS
  <2> QED BY <1>6, <2>1, <2>2 DEF Replace, Arrives, Goto, ApprovalsTypeOK, Locations, Statuses
<1>7. ASSUME NEW r \in Requests, NEW a \in Ids, AnswerQuestion(r, a)
      PROVE  ApprovalsTypeOK'
  <2>1. req' \in [Requests -> Request]
    BY <1>7, ArrivesType DEF AnswerQuestion, Routes
  <2> QED BY <1>7, <2>1 DEF AnswerQuestion, Arrives, Goto, ApprovalsTypeOK, Locations, Statuses
<1>8. ASSUME NEW r \in Requests, Check(r) PROVE ApprovalsTypeOK'
  <2>1. status' \in [Ids -> Statuses]
    BY <1>8, OfType DEF Check, ApprovalsTypeOK, Statuses
  <2>2. CASE Done(r)
    BY <1>8, <2>1, <2>2, DoneType DEF Check, ApprovalsTypeOK
  <2>3. CASE /\ Goto(r, IF req[r].route = "critical" /\ req[r].approve THEN "relay" ELSE "write")
             /\ UNCHANGED <<status, req, res, loop>>
    BY <1>8, <2>1, <2>3 DEF Check, Goto, ApprovalsTypeOK, Locations
  <2> QED BY <1>8, <2>2, <2>3 DEF Check
<1>9. ASSUME NEW r \in Requests, Write(r) PROVE ApprovalsTypeOK'
  <2>1. status' \in [Ids -> Statuses]
    BY <1>9, OfType, ResolvedType DEF Write, Statuses
  <2>2. AfterWrite(r) \in Locations
    BY DEF AfterWrite, Locations
  <2> QED BY <1>9, <2>1, <2>2 DEF Write, Goto, ApprovalsTypeOK
<1>10. ASSUME NEW r \in Requests, Record(r) PROVE ApprovalsTypeOK'
  <2>1. Answer(r) \in Told
    BY DEF Answer, Told
  <2>2. outcome' \in [Ids -> Told]
    BY <1>10, <2>1, OfType, RecordedType DEF Record
  <2> QED BY <1>10, <2>2, DoneType DEF Record, ApprovalsTypeOK
<1>11. ASSUME NEW r \in Requests, RefuseIntent(r) PROVE ApprovalsTypeOK'
  BY <1>11, OfType DEF RefuseIntent, Goto, ApprovalsTypeOK, Intents, Locations
<1>12. ASSUME NEW r \in Requests, Hold(r) PROVE ApprovalsTypeOK'
  <2>1. intent' \in [Ids -> Intents]
    BY <1>12, OfType DEF Hold, ApprovalsTypeOK, Intents
  <2>2. CASE Done(r)
    BY <1>12, <2>1, <2>2, DoneType DEF Hold, ApprovalsTypeOK
  <2>3. CASE Goto(r, "held") /\ Release(r) /\ UNCHANGED <<req, res>>
    BY <1>12, <2>1, <2>3 DEF Hold, Goto, Release, ApprovalsTypeOK, Locations
  <2> QED BY <1>12, <2>2, <2>3 DEF Hold
<1>13. ASSUME NEW r \in Requests, HoldOver(r) PROVE ApprovalsTypeOK'
  <2>1. CASE Releasable(Of(r))
    BY <1>13, <2>1, OfType DEF HoldOver, Goto, ApprovalsTypeOK, Intents, Locations
  <2>2. CASE ~Releasable(Of(r))
    <3>1. outcome' \in [Ids -> Told]
      BY <1>13, <2>2, OfType, RecordedType DEF HoldOver, Told
    <3> QED BY <1>13, <2>2, <3>1, DoneType DEF HoldOver, ApprovalsTypeOK
  <2> QED BY <2>1, <2>2
<1>14. ASSUME NEW r \in Requests, NEW x \in SendEndings, SendEnds(r, x)
       PROVE  ApprovalsTypeOK'
  <2>1. intent' \in [Ids -> Intents]
    BY <1>14, OfType DEF SendEnds, SendEndings, ApprovalsTypeOK, Intents
  <2>2. CASE Done(r)
    BY <1>14, <2>1, <2>2, DoneType DEF SendEnds, ApprovalsTypeOK
  <2>3. CASE x = "executed" /\ Goto(r, "record") /\ loop' = r /\ res' = [res EXCEPT ![r] = x] /\ UNCHANGED req
    BY <1>14, <2>1, <2>3 DEF SendEnds, SendEndings, Goto, ApprovalsTypeOK, Locations, Results
  <2> QED BY <1>14, <2>2, <2>3 DEF SendEnds
<1>15. ASSUME NEW r \in Requests, RelayCheck(r) PROVE ApprovalsTypeOK'
  <2>1. status' \in [Ids -> Statuses]
    BY <1>15, OfType, ResolvedType DEF RelayCheck, ApprovalsTypeOK, Statuses
  <2> QED BY <1>15, <2>1 DEF RelayCheck, Goto, ApprovalsTypeOK, Locations, Results
<1>16. ASSUME NEW r \in Requests, RelayClaim(r) PROVE ApprovalsTypeOK'
  BY <1>16, OfType DEF RelayClaim, Goto, ApprovalsTypeOK, Statuses, Locations, Results
<1>17. ASSUME NEW r \in Requests, NEW x \in {"executed", "failed", "blocked"}, TargetRuns(r, x)
       PROVE  ApprovalsTypeOK'
  BY <1>17, OfType DEF TargetRuns, Goto, ApprovalsTypeOK, Locations, Results
<1>18. ASSUME NEW r \in Requests, RelaySettle(r) PROVE ApprovalsTypeOK'
  <2>1. Settlement(res[r]) \in Statuses
    BY DEF Settlement, Statuses
  <2> QED BY <1>18, <2>1, OfType DEF RelaySettle, Goto, ApprovalsTypeOK, Locations
<1>19. ASSUME NEW r \in Requests, RelayReport(r) PROVE ApprovalsTypeOK'
  BY <1>19 DEF RelayReport, Goto, ApprovalsTypeOK, Locations, Results
<1>20. ASSUME NEW r \in Requests, Reply(r) PROVE ApprovalsTypeOK'
  <2>1. TurnHears(r) => res[r] \in Told
    BY DEF TurnHears, Told
  <2>2. outcome' \in [Ids -> Told]
    BY <1>20, <2>1, OfType, RecordedType DEF Reply, ApprovalsTypeOK
  <2> QED BY <1>20, <2>2, DoneType DEF Reply, ApprovalsTypeOK
<1>21. ASSUME NEW r \in Requests, NEW ran \in BOOLEAN, TargetRaises(r, ran)
       PROVE  ApprovalsTypeOK'
  <2>1. attempts' \in [Ids -> Nat]
    BY <1>21, OfType DEF TargetRaises, ApprovalsTypeOK
  <2> QED BY <1>21, <2>1, DoneType DEF TargetRaises, ApprovalsTypeOK
<1>22. CASE UNCHANGED vars
  BY <1>22 DEF vars, ApprovalsTypeOK
<1> QED
  BY <1>1, <1>2, <1>3, <1>4, <1>5, <1>6, <1>7, <1>8, <1>9, <1>10, <1>11, <1>12, <1>13, <1>14,
     <1>15, <1>16, <1>17, <1>18, <1>19, <1>20, <1>21, <1>22
  DEF Next, Decides, Serves, Relays

\* Every reachable state is well typed: in particular a settlement writes a
\* status the approvals table knows (finalize_approval_execution), and a turn
\* is only told what _restore_suspended_turn can read.
THEOREM TypeCorrect == Spec => []ApprovalsTypeOK
<1> QED BY InitTypeOK, StepTypeOK, PTL DEF Spec

----------------------------------------------------------------------------
\* A step that begins no execution moves rows only on from where nothing has
\* run, or ends a send, and brings a request at most to the relay's door.
QuietRows ==
    /\ attempts' = attempts
    /\ \A a \in Ids : status'[a] = status[a] \/ status[a] \in {"absent", "pending"}
    /\ \A a \in Ids : \/ intent'[a] = intent[a]
                      \/ a \in Sends /\ intent[a] \in {"none", "pending_approval", "held"}
                      \/ a \in Sends /\ intent'[a] \in SendEndings

Stays(r) == pc'[r] = pc[r] /\ req'[r] = req[r] /\ res'[r] = res[r]

QuietRequest(r) ==
    \/ Stays(r)
    \/ /\ pc'[r] \in Locations \ {"target", "settle", "sending"}
       /\ pc'[r] \in RelayWorks => req'[r].id \notin Sends
       /\ req'[r].route = "critical" => req'[r].id \notin Sends

\* Such a step keeps the invariant.
LEMMA QuietStep ==
  ASSUME ApprovalsTypeOK, ApprovalsTypeOK', SafetyInv, QuietRows,
         \A r \in Requests : QuietRequest(r)
  PROVE  SafetyInv'
<1> USE DEF SafetyInv
<1>1. OnlySendsHaveIntents' /\ SentIsOnTheIntent'
  BY ApprovalSets DEF OnlySendsHaveIntents, SentIsOnTheIntent, QuietRows, SendEndings
<1>2. SendersSend' /\ NeverRelaysSends'
  BY DEF SendersSend, NeverRelaysSends, QuietRequest, Stays, Of, RelayWorks
<1>3. RanIsOnTheRow' /\ RunsOnce'
  BY DEF RanIsOnTheRow, RunsOnce, QuietRows
<1>4. ASSUME NEW r \in Requests, pc'[r] \in {"target", "settle"}
      PROVE  Stays(r)
  BY <1>4 DEF QuietRequest
<1>5. ClaimHeld' /\ NotYetRun'
  <2> SUFFICES ASSUME NEW r \in Requests, pc'[r] \in {"target", "settle"}
               PROVE  /\ status'[req'[r].id] = "executing"
                      /\ pc'[r] = "target" => attempts'[req'[r].id] = 0
                      /\ pc'[r] = "settle" => \/ res'[r] \in {"executed", "failed"}
                                              \/ attempts'[req'[r].id] = 0
    BY DEF ClaimHeld, NotYetRun, Of
  <2>1. Stays(r) /\ req[r].id \in Ids
    BY <1>4, OfType DEF Of
  <2> QED BY <2>1 DEF Stays, Claims, ClaimHeld, NotYetRun, Of, QuietRows
<1>6. ClaimExclusive'
  BY <1>4 DEF Claims, ClaimExclusive, Stays, Of
<1> QED BY <1>1, <1>2, <1>3, <1>5, <1>6 DEF Claims

\* A request that has answered is a quiet one.
LEMMA DoneIsQuiet ==
  ASSUME ApprovalsTypeOK, NEW r \in Requests, Done(r)
  PROVE  \A s \in Requests : QuietRequest(s)
  BY DEF ApprovalsTypeOK, Done, Goto, NoDecision, QuietRequest, Stays, RelayWorks, Locations

\* So is one that has arrived.
LEMMA ArrivalIsQuiet ==
  ASSUME ApprovalsTypeOK, NEW r \in Requests, NEW a \in Ids, NEW d, NEW route,
         NEW l \in {"relay", "check", "record"}, Arrives(r, a, d, route), Goto(r, l),
         l = "relay" \/ route = "critical" => a \notin Sends
  PROVE  \A s \in Requests : QuietRequest(s)
  BY DEF ApprovalsTypeOK, Arrives, Goto, QuietRequest, Stays, RelayWorks, Locations

\* Only what is no send is dispatched to the relay.
LEMMA DispatchIsQuiet ==
  ASSUME ApprovalsTypeOK, NEW r \in Requests, NEW a \in Ids, NEW d, NEW route,
         Arrives(r, a, d, route), Dispatch(r, a, d), route # "critical"
  PROVE  \A s \in Requests : QuietRequest(s)
<1>1. CASE Executes(a, d)
  BY <1>1, ArrivalIsQuiet, ApprovalSets DEF Dispatch, Executes
<1>2. CASE ~Executes(a, d)
  BY <1>2, ArrivalIsQuiet DEF Dispatch
<1> QED BY <1>1, <1>2

\* A request that moves on with the same approval, short of an execution.
LEMMA MoveIsQuiet ==
  ASSUME ApprovalsTypeOK, SafetyInv, NEW r \in Requests,
         NEW l \in Locations \ {"target", "settle", "sending"}, Goto(r, l),
         req' = req, \A s \in Requests \ {r} : res'[s] = res[s],
         l \in RelayWorks => Of(r) \notin Sends
  PROVE  \A s \in Requests : QuietRequest(s)
  BY DEF ApprovalsTypeOK, SafetyInv, NeverRelaysSends, Goto, QuietRequest, Stays, Of

\* A claim is taken where nothing has run, by a request that then owns it.
LEMMA ClaimStep ==
  ASSUME ApprovalsTypeOK, ApprovalsTypeOK', SafetyInv, NEW r \in Requests,
         RelayClaim(r), Claimable(Of(r))
  PROVE  SafetyInv'
<1> USE DEF SafetyInv
<1> DEFINE a == Of(r)
<1>1. /\ a \in Ids \ Sends /\ status[a] = "pending" /\ attempts[a] = 0
      /\ pc[r] = "claim"
  BY OfType DEF RelayClaim, Claimable, NeverRelaysSends, RelayWorks, RanIsOnTheRow
<1>2. /\ status' = [status EXCEPT ![a] = "executing"]
      /\ pc' = [pc EXCEPT ![r] = "target"]
      /\ UNCHANGED <<req, res, intent, attempts>>
  BY DEF RelayClaim, Goto
<1> USE <1>1, <1>2
<1>3. OnlySendsHaveIntents' /\ SentIsOnTheIntent' /\ RunsOnce'
  BY DEF OnlySendsHaveIntents, SentIsOnTheIntent, RunsOnce
<1>4. SendersSend' /\ NeverRelaysSends'
  BY DEF SendersSend, NeverRelaysSends, Of, RelayWorks, ApprovalsTypeOK
<1>5. RanIsOnTheRow'
  BY DEF RanIsOnTheRow, ApprovalsTypeOK
<1>6. \A s \in Requests : pc[s] \in {"target", "settle"} => Of(s) # a
  BY DEF Claims, ClaimHeld
<1>7. ClaimHeld' /\ NotYetRun' /\ ClaimExclusive'
  BY <1>6 DEF Claims, ClaimHeld, NotYetRun, ClaimExclusive, Of, ApprovalsTypeOK
<1> QED BY <1>3, <1>4, <1>5, <1>7 DEF Claims

\* The owner of a claim runs its target, once.
LEMMA TargetStep ==
  ASSUME ApprovalsTypeOK, ApprovalsTypeOK', SafetyInv, NEW r \in Requests,
         NEW x \in {"executed", "failed", "blocked"}, TargetRuns(r, x)
  PROVE  SafetyInv'
<1> USE DEF SafetyInv
<1> DEFINE a == Of(r)
<1>1. /\ a \in Ids \ Sends /\ status[a] = "executing" /\ attempts[a] = 0
      /\ pc[r] = "target"
  BY OfType DEF TargetRuns, NeverRelaysSends, RelayWorks, Claims, ClaimHeld, NotYetRun
<1>2. /\ attempts' = [attempts EXCEPT ![a] = IF x = "blocked" THEN 0 ELSE 1]
      /\ pc' = [pc EXCEPT ![r] = "settle"] /\ res' = [res EXCEPT ![r] = x]
      /\ UNCHANGED <<req, intent, status>>
  BY <1>1 DEF TargetRuns, Goto, rows, ApprovalsTypeOK
<1> USE <1>1, <1>2
<1>3. OnlySendsHaveIntents' /\ SentIsOnTheIntent' /\ RunsOnce'
  BY ApprovalSets DEF OnlySendsHaveIntents, SentIsOnTheIntent, RunsOnce, ApprovalsTypeOK
<1>4. SendersSend' /\ NeverRelaysSends'
  BY DEF SendersSend, NeverRelaysSends, Of, RelayWorks, ApprovalsTypeOK
<1>5. RanIsOnTheRow'
  BY DEF RanIsOnTheRow, ApprovalsTypeOK
<1>6. \A s \in Requests \ {r} : pc[s] \in {"target", "settle"} => Of(s) # a /\ Of(s) \in Ids
  BY OfType DEF Claims, ClaimExclusive
<1>7. ClaimHeld' /\ ClaimExclusive'
  BY DEF Claims, ClaimHeld, ClaimExclusive, Of, ApprovalsTypeOK
<1>8. NotYetRun'
  BY <1>6 DEF Claims, NotYetRun, Of, ApprovalsTypeOK
<1> QED BY <1>3, <1>4, <1>5, <1>7, <1>8 DEF Claims

\* A claim whose target raised is left as it is, and nobody owns it any more.
LEMMA RaiseStep ==
  ASSUME ApprovalsTypeOK, ApprovalsTypeOK', SafetyInv, NEW r \in Requests,
         NEW ran \in BOOLEAN, TargetRaises(r, ran)
  PROVE  SafetyInv'
<1> USE DEF SafetyInv
<1> DEFINE a == Of(r)
<1>1. /\ a \in Ids \ Sends /\ status[a] = "executing" /\ attempts[a] = 0
      /\ pc[r] = "target"
  BY OfType DEF TargetRaises, NeverRelaysSends, RelayWorks, Claims, ClaimHeld, NotYetRun
<1>2. /\ attempts' = [attempts EXCEPT ![a] = IF ran THEN 1 ELSE 0]
      /\ UNCHANGED <<intent, status>>
  BY <1>1 DEF TargetRaises, rows, ApprovalsTypeOK
<1>3. pc'[r] = "idle" /\ req'[r].route = "inbox" /\ \A s \in Requests \ {r} : Stays(s)
  BY DEF TargetRaises, Done, Goto, NoDecision, Stays, ApprovalsTypeOK
<1>4. OnlySendsHaveIntents' /\ SentIsOnTheIntent' /\ RunsOnce' /\ RanIsOnTheRow'
  BY <1>1, <1>2, ApprovalSets
  DEF OnlySendsHaveIntents, SentIsOnTheIntent, RunsOnce, RanIsOnTheRow, ApprovalsTypeOK
<1>5. SendersSend' /\ NeverRelaysSends'
  BY <1>3 DEF SendersSend, NeverRelaysSends, Of, RelayWorks, Stays
<1>6. \A s \in Requests \ {r} : pc[s] \in {"target", "settle"} => Of(s) # a /\ Of(s) \in Ids
  BY <1>1, OfType DEF Claims, ClaimExclusive
<1>7. ClaimHeld' /\ ClaimExclusive'
  BY <1>2, <1>3 DEF Claims, ClaimHeld, ClaimExclusive, Of, Stays
<1>8. NotYetRun'
  BY <1>2, <1>3, <1>6 DEF Claims, NotYetRun, Of, Stays, ApprovalsTypeOK
<1> QED BY <1>4, <1>5, <1>7, <1>8 DEF Claims

\* Its owner settles a claim, and hands back only what has not run.
LEMMA SettleStep ==
  ASSUME ApprovalsTypeOK, ApprovalsTypeOK', SafetyInv, NEW r \in Requests, RelaySettle(r)
  PROVE  SafetyInv'
<1> USE DEF SafetyInv
<1> DEFINE a == Of(r)
<1>1. /\ a \in Ids \ Sends /\ status[a] = "executing" /\ pc[r] = "settle"
      /\ res[r] \in {"executed", "failed"} \/ attempts[a] = 0
  BY OfType DEF RelaySettle, NeverRelaysSends, RelayWorks, Claims, ClaimHeld, NotYetRun
<1>2. /\ status' = [status EXCEPT ![a] = Settlement(res[r])]
      /\ pc' = [pc EXCEPT ![r] = "report"]
      /\ UNCHANGED <<req, res, intent, attempts>>
  BY <1>1 DEF RelaySettle, Goto, ApprovalsTypeOK
<1> USE <1>1, <1>2
<1>3. OnlySendsHaveIntents' /\ SentIsOnTheIntent' /\ RunsOnce'
  BY DEF OnlySendsHaveIntents, SentIsOnTheIntent, RunsOnce
<1>4. SendersSend' /\ NeverRelaysSends'
  BY DEF SendersSend, NeverRelaysSends, Of, RelayWorks, ApprovalsTypeOK
<1>5. RanIsOnTheRow'
  BY DEF RanIsOnTheRow, Settlement, ApprovalsTypeOK
<1>6. \A s \in Requests \ {r} : pc[s] \in {"target", "settle"} => Of(s) # a /\ Of(s) \in Ids
  BY OfType DEF Claims, ClaimExclusive
<1>7. ClaimHeld' /\ ClaimExclusive' /\ NotYetRun'
  BY <1>6 DEF Claims, ClaimHeld, ClaimExclusive, NotYetRun, Of, ApprovalsTypeOK
<1> QED BY <1>3, <1>4, <1>5, <1>7 DEF Claims

\* A held send is released where nothing was sent.
LEMMA ReleaseStep ==
  ASSUME ApprovalsTypeOK, ApprovalsTypeOK', SafetyInv, NEW r \in Requests,
         HoldOver(r), Releasable(Of(r))
  PROVE  SafetyInv'
<1> USE DEF SafetyInv
<1> DEFINE a == Of(r)
<1>1. a \in Ids /\ intent[a] = "held" /\ pc[r] = "held"
  BY OfType DEF HoldOver, Releasable
<1>2. a \in Sends /\ attempts[a] = 0
  BY <1>1 DEF OnlySendsHaveIntents, SentIsOnTheIntent
<1>3. /\ attempts' = [attempts EXCEPT ![a] = 1]
      /\ intent' = [intent EXCEPT ![a] = "executing"]
      /\ pc' = [pc EXCEPT ![r] = "sending"]
      /\ UNCHANGED <<req, res, status>>
  BY <1>1, <1>2 DEF HoldOver, Goto, ApprovalsTypeOK
<1> USE <1>1, <1>2, <1>3
<1>4. OnlySendsHaveIntents' /\ SentIsOnTheIntent' /\ RunsOnce'
  BY ApprovalSets DEF OnlySendsHaveIntents, SentIsOnTheIntent, RunsOnce, ApprovalsTypeOK
<1>5. SendersSend' /\ NeverRelaysSends'
  BY DEF SendersSend, NeverRelaysSends, Of, RelayWorks, ApprovalsTypeOK
<1>6. RanIsOnTheRow'
  BY DEF RanIsOnTheRow, ApprovalsTypeOK
<1>7. ClaimHeld' /\ ClaimExclusive'
  BY DEF Claims, ClaimHeld, ClaimExclusive, Of, ApprovalsTypeOK
<1>8. \A s \in Requests : pc[s] \in {"target", "settle"} => Of(s) # a /\ Of(s) \in Ids
  BY OfType DEF NeverRelaysSends, RelayWorks
<1>9. NotYetRun'
  BY <1>8 DEF Claims, NotYetRun, Of, ApprovalsTypeOK
<1> QED BY <1>4, <1>5, <1>6, <1>7, <1>9 DEF Claims

\* Initially nothing has run and nobody has claimed anything.
LEMMA InitSafety == Init => SafetyInv
<1> SUFFICES ASSUME Init PROVE SafetyInv
  OBVIOUS
<1>1. /\ \A r \in Requests : pc[r] = "idle" /\ req[r].route = "inbox"
      /\ \A a \in Ids : intent[a] = "none" /\ attempts[a] = 0
  BY DEF Init, NoDecision
<1>2. OnlySendsHaveIntents /\ SendersSend /\ NeverRelaysSends /\ Claims
  BY <1>1 DEF OnlySendsHaveIntents, SendersSend, NeverRelaysSends, RelayWorks,
              Claims, ClaimHeld, ClaimExclusive, NotYetRun
<1>3. RanIsOnTheRow /\ SentIsOnTheIntent /\ RunsOnce
  BY <1>1, ApprovalSets DEF RanIsOnTheRow, SentIsOnTheIntent, RunsOnce
<1> QED BY <1>2, <1>3 DEF SafetyInv

\* Every step keeps the invariant: six actions begin, end, settle or abandon
\* an execution, all others are quiet.
LEMMA StepSafety == ApprovalsTypeOK /\ SafetyInv /\ [Next]_vars => SafetyInv'
<1> SUFFICES ASSUME ApprovalsTypeOK, SafetyInv, [Next]_vars PROVE SafetyInv'
  OBVIOUS
<1>0. ApprovalsTypeOK'
  BY StepTypeOK
<1> USE DEF rows, work
<1>1. ASSUME NEW a \in Ids, Files(a) \/ Announce(a) \/ TimeLimit(a) \/ ExpireDue(a) \/ Undo(a)
                            \/ ResumeTurn(a) \/ Continues(a)
      PROVE  SafetyInv'
  <2>1. UNCHANGED <<pc, req, res, attempts>>
    BY <1>1 DEF Files, Propose, FileIntent, Park, Announce, TimeLimit, ExpireDue, Undo, ResumeTurn,
                Continues, ResumeEnds
  <2>2. \A b \in Ids : status'[b] = status[b] \/ status[b] \in {"absent", "pending"}
    <3>1. CASE Files(a) \/ ExpireDue(a)
      BY <3>1 DEF Files, Propose, FileIntent, Park, ExpireDue, ApprovalsTypeOK
    <3>2. CASE Announce(a) \/ TimeLimit(a) \/ Undo(a) \/ ResumeTurn(a) \/ Continues(a)
      BY <3>2 DEF Announce, TimeLimit, Undo, ResumeTurn, Continues, ResumeEnds
    <3> QED BY <1>1, <3>1, <3>2
  <2>3. \A b \in Ids : \/ intent'[b] = intent[b]
                       \/ b \in Sends /\ intent[b] \in {"none", "pending_approval", "held"}
    <3>1. CASE Undo(a)
      BY <3>1 DEF Undo, ApprovalsTypeOK, SafetyInv, OnlySendsHaveIntents
    <3>2. CASE Files(a)
      BY <3>2 DEF Files, Propose, FileIntent, Park, ApprovalsTypeOK
    <3>3. CASE Announce(a) \/ TimeLimit(a) \/ ExpireDue(a) \/ ResumeTurn(a) \/ Continues(a)
      BY <3>3 DEF Announce, TimeLimit, ExpireDue, ResumeTurn, Continues, ResumeEnds
    <3> QED BY <1>1, <3>1, <3>2, <3>3
  <2>4. QuietRows /\ \A r \in Requests : QuietRequest(r)
    BY <2>1, <2>2, <2>3 DEF QuietRows, QuietRequest, Stays
  <2> QED BY <2>4, <1>0, QuietStep
<1>2. CASE FlipGates
  <2>1. QuietRows /\ \A r \in Requests : QuietRequest(r)
    BY <1>2 DEF FlipGates, QuietRows, QuietRequest, Stays
  <2> QED BY <2>1, <1>0, QuietStep
<1>3. CASE Crash
  <2>1. \A r \in Requests : QuietRequest(r)
    BY <1>3 DEF Crash, NoDecision, QuietRequest, RelayWorks, Locations
  <2>2. QuietRows
    BY <1>3 DEF Crash, QuietRows
  <2> QED BY <2>1, <2>2, <1>0, QuietStep
<1>4. ASSUME NEW r \in Requests, NEW a \in Ids, NEW d \in Decisions, Resolve(r, a, d)
      PROVE  SafetyInv'
  <2>1. QuietRows
    BY <1>4 DEF Resolve, Arrives, QuietRows
  <2>2. CASE intent[a] = "none"
    <3>1. \A s \in Requests : QuietRequest(s)
      BY <1>4, <2>2, DispatchIsQuiet DEF Resolve
    <3> QED BY <2>1, <3>1, <1>0, QuietStep
  <2>3. CASE intent[a] # "none"
    <3>1. \A s \in Requests : QuietRequest(s)
      BY <1>4, <2>3, ArrivalIsQuiet DEF Resolve
    <3> QED BY <2>1, <3>1, <1>0, QuietStep
  <2> QED BY <2>2, <2>3
<1>5. ASSUME NEW r \in Requests, NEW a \in Ids, NEW d \in Decisions, ChannelAnswer(r, a, d)
      PROVE  SafetyInv'
  <2>1. QuietRows
    BY <1>5 DEF ChannelAnswer, Arrives, QuietRows
  <2>2. \A s \in Requests : QuietRequest(s)
    BY <1>5, DispatchIsQuiet DEF ChannelAnswer
  <2> QED BY <2>1, <2>2, <1>0, QuietStep
<1>6. ASSUME NEW r \in Requests, NEW a \in Ids, NEW d \in Decisions, ResolveCritical(r, a, d)
      PROVE  SafetyInv'
  <2>1. QuietRows
    BY <1>6 DEF ResolveCritical, Arrives, QuietRows
  <2>2. \A s \in Requests : QuietRequest(s)
    BY <1>6, ArrivalIsQuiet, ApprovalSets DEF ResolveCritical
  <2> QED BY <2>1, <2>2, <1>0, QuietStep
<1>7. ASSUME NEW r \in Requests, NEW a \in Ids, NEW b \in Edits, Replace(r, a, b)
      PROVE  SafetyInv'
  <2>1. \A s \in Requests : QuietRequest(s)
    BY <1>7, ArrivalIsQuiet DEF Replace
  <2>2. QuietRows
    BY <1>7 DEF Replace, Arrives, QuietRows, ApprovalsTypeOK
  <2> QED BY <2>1, <2>2, <1>0, QuietStep
<1>8. ASSUME NEW r \in Requests, NEW a \in Ids, AnswerQuestion(r, a)
      PROVE  SafetyInv'
  <2>1. \A s \in Requests : QuietRequest(s)
    BY <1>8, ArrivalIsQuiet DEF AnswerQuestion
  <2>2. QuietRows
    BY <1>8 DEF AnswerQuestion, Arrives, QuietRows, ApprovalsTypeOK
  <2> QED BY <2>1, <2>2, <1>0, QuietStep
<1>9. ASSUME NEW r \in Requests, Check(r) PROVE SafetyInv'
  <2>1. QuietRows
    BY <1>9, OfType DEF Check, QuietRows, ApprovalsTypeOK
  <2>2. CASE Done(r)
    BY <2>1, <2>2, DoneIsQuiet, <1>0, QuietStep
  <2>3. CASE /\ Goto(r, IF req[r].route = "critical" /\ req[r].approve THEN "relay" ELSE "write")
             /\ UNCHANGED <<status, req, res, loop>>
    <3> DEFINE l == IF req[r].route = "critical" /\ req[r].approve THEN "relay" ELSE "write"
    <3>1. l \in Locations \ {"target", "settle", "sending"}
      BY DEF Locations
    <3>2. l \in RelayWorks => Of(r) \notin Sends
      BY DEF SafetyInv, NeverRelaysSends, RelayWorks
    <3>3. Goto(r, l) /\ req' = req /\ res' = res
      BY <2>3
    <3> HIDE DEF l
    <3>4. \A s \in Requests : QuietRequest(s)
      BY <3>1, <3>2, <3>3, MoveIsQuiet
    <3> QED BY <2>1, <3>4, <1>0, QuietStep
  <2> QED BY <1>9, <2>2, <2>3 DEF Check
<1>10. ASSUME NEW r \in Requests, Write(r) PROVE SafetyInv'
  <2>1. AfterWrite(r) \in Locations \ (RelayWorks \union {"sending"})
    BY DEF AfterWrite, Locations, RelayWorks
  <2>2. \A s \in Requests : QuietRequest(s)
    BY <1>10, <2>1, MoveIsQuiet DEF Write, RelayWorks
  <2>3. QuietRows
    BY <1>10, OfType DEF Write, Resolved, QuietRows, ApprovalsTypeOK
  <2> QED BY <2>2, <2>3, <1>0, QuietStep
<1>11. ASSUME NEW r \in Requests, Record(r) PROVE SafetyInv'
  <2>1. QuietRows
    BY <1>11 DEF Record, QuietRows
  <2>2. \A s \in Requests : QuietRequest(s)
    BY <1>11, DoneIsQuiet DEF Record
  <2> QED BY <2>1, <2>2, <1>0, QuietStep
<1>12. ASSUME NEW r \in Requests, RefuseIntent(r) PROVE SafetyInv'
  <2>1. \A s \in Requests : QuietRequest(s)
    BY <1>12, MoveIsQuiet DEF RefuseIntent, RelayWorks, Locations
  <2>2. QuietRows
    BY <1>12, OfType DEF RefuseIntent, QuietRows, ApprovalsTypeOK, SafetyInv, OnlySendsHaveIntents
  <2> QED BY <2>1, <2>2, <1>0, QuietStep
<1>13. ASSUME NEW r \in Requests, Hold(r) PROVE SafetyInv'
  <2>1. QuietRows
    BY <1>13, OfType DEF Hold, QuietRows, ApprovalsTypeOK, SafetyInv, OnlySendsHaveIntents
  <2>2. CASE Done(r)
    BY <2>1, <2>2, DoneIsQuiet, <1>0, QuietStep
  <2>3. CASE Goto(r, "held") /\ Release(r) /\ UNCHANGED <<req, res>>
    <3>1. \A s \in Requests : QuietRequest(s)
      BY <2>3, MoveIsQuiet DEF RelayWorks, Locations
    <3> QED BY <2>1, <3>1, <1>0, QuietStep
  <2> QED BY <1>13, <2>2, <2>3 DEF Hold
<1>14. ASSUME NEW r \in Requests, HoldOver(r) PROVE SafetyInv'
  <2>1. CASE ~Releasable(Of(r))
    <3>1. QuietRows
      BY <1>14, <2>1 DEF HoldOver, QuietRows
    <3>2. \A s \in Requests : QuietRequest(s)
      BY <1>14, <2>1, DoneIsQuiet DEF HoldOver
    <3> QED BY <3>1, <3>2, <1>0, QuietStep
  <2> QED BY <1>14, <2>1, <1>0, ReleaseStep
<1>15. ASSUME NEW r \in Requests, NEW x \in SendEndings, SendEnds(r, x)
       PROVE  SafetyInv'
  <2>1. Of(r) \in Sends
    BY <1>15 DEF SendEnds, SafetyInv, SendersSend
  <2>2. QuietRows
    BY <1>15, <2>1 DEF SendEnds, QuietRows, ApprovalsTypeOK
  <2>3. CASE Done(r)
    BY <2>2, <2>3, DoneIsQuiet, <1>0, QuietStep
  <2>4. CASE Goto(r, "record") /\ res' = [res EXCEPT ![r] = x] /\ UNCHANGED req
    <3>1. \A s \in Requests \ {r} : res'[s] = res[s]
      BY <2>4 DEF ApprovalsTypeOK
    <3>2. \A s \in Requests : QuietRequest(s)
      BY <2>4, <3>1, MoveIsQuiet DEF RelayWorks, Locations
    <3> QED BY <2>2, <3>2, <1>0, QuietStep
  <2> QED BY <1>15, <2>3, <2>4 DEF SendEnds
<1>16. ASSUME NEW r \in Requests, RelayCheck(r) PROVE SafetyInv'
  <2>1. QuietRows
    BY <1>16, OfType DEF RelayCheck, Resolved, QuietRows, ApprovalsTypeOK
  <2>2. Of(r) \notin Sends
    BY <1>16 DEF RelayCheck, SafetyInv, NeverRelaysSends, RelayWorks
  <2>3. \A s \in Requests \ {r} : res'[s] = res[s]
    BY <1>16 DEF RelayCheck, ApprovalsTypeOK
  <2>4. \A s \in Requests : QuietRequest(s)
    BY <1>16, <2>2, <2>3, MoveIsQuiet DEF RelayCheck, Locations
  <2> QED BY <2>1, <2>4, <1>0, QuietStep
<1>17. ASSUME NEW r \in Requests, RelayClaim(r) PROVE SafetyInv'
  <2>1. CASE ~Claimable(Of(r))
    <3>1. \A s \in Requests \ {r} : res'[s] = res[s]
      BY <1>17 DEF RelayClaim, ApprovalsTypeOK
    <3>2. \A s \in Requests : QuietRequest(s)
      BY <1>17, <2>1, <3>1, MoveIsQuiet DEF RelayClaim, Locations, RelayWorks
    <3>3. QuietRows
      BY <1>17, <2>1 DEF RelayClaim, QuietRows
    <3> QED BY <3>2, <3>3, <1>0, QuietStep
  <2> QED BY <1>17, <2>1, <1>0, ClaimStep
<1>18. ASSUME NEW r \in Requests, NEW x \in {"executed", "failed", "blocked"}, TargetRuns(r, x)
       PROVE  SafetyInv'
  BY <1>18, <1>0, TargetStep
<1>19. ASSUME NEW r \in Requests, RelaySettle(r) PROVE SafetyInv'
  BY <1>19, <1>0, SettleStep
<1>20. ASSUME NEW r \in Requests, RelayReport(r) PROVE SafetyInv'
  <2>1. \A s \in Requests \ {r} : res'[s] = res[s]
    BY <1>20 DEF RelayReport, ApprovalsTypeOK
  <2>2. \A s \in Requests : QuietRequest(s)
    BY <1>20, <2>1, MoveIsQuiet DEF RelayReport, Locations, RelayWorks
  <2>3. QuietRows
    BY <1>20 DEF RelayReport, QuietRows
  <2> QED BY <2>2, <2>3, <1>0, QuietStep
<1>21. ASSUME NEW r \in Requests, Reply(r) PROVE SafetyInv'
  <2>1. QuietRows
    BY <1>21 DEF Reply, QuietRows
  <2>2. \A s \in Requests : QuietRequest(s)
    BY <1>21, DoneIsQuiet DEF Reply
  <2> QED BY <2>1, <2>2, <1>0, QuietStep
<1>22. ASSUME NEW r \in Requests, NEW ran \in BOOLEAN, TargetRaises(r, ran) PROVE SafetyInv'
  BY <1>22, <1>0, RaiseStep
<1>23. CASE UNCHANGED vars
  <2>1. QuietRows /\ \A r \in Requests : QuietRequest(r)
    BY <1>23 DEF vars, QuietRows, QuietRequest, Stays
  <2> QED BY <2>1, <1>0, QuietStep
<1> QED
  BY <1>1, <1>2, <1>3, <1>4, <1>5, <1>6, <1>7, <1>8, <1>9, <1>10, <1>11, <1>12, <1>13, <1>14,
     <1>15, <1>16, <1>17, <1>18, <1>19, <1>20, <1>21, <1>22, <1>23
  DEF Next, Decides, Serves, Relays

\* The invariant holds in every reachable state.
LEMMA Safe == Spec => []SafetyInv
<1> QED BY TypeCorrect, InitSafety, StepSafety, PTL DEF Spec

\* An approved action or send is performed at most once, for any number of
\* requests, decisions and crashes: claim_approval_for_execution and
\* wait_for_release each let one request through, and release_approval_claim
\* hands back only what has not run.
THEOREM ExecutesOnce == Spec => []RunsOnce
<1>1. SafetyInv => RunsOnce
  BY DEF SafetyInv
<1> QED BY <1>1, Safe, PTL

\* Whoever is sending owns the intent: the end of a send writes without a
\* condition, so it must not find an intent that was taken back.
SendHeld == \A r \in Requests : pc[r] = "sending" => intent[Of(r)] = "executing"
SendExclusive ==
    \A r, s \in Requests : r # s /\ pc[r] = "sending" /\ pc[s] = "sending" => Of(r) # Of(s)
SendInv == SendHeld /\ SendExclusive

\* A step that starts no send and writes no intent a sender owns keeps SendInv.
KeepsSends ==
    /\ \A r \in Requests : pc'[r] = "sending" => pc[r] = "sending" /\ req'[r] = req[r]
    /\ \A a \in Ids : intent[a] = "executing" => intent'[a] = "executing"

LEMMA KeepsSendsStep ==
  ASSUME ApprovalsTypeOK, SendInv, KeepsSends
  PROVE  SendInv'
  BY DEF ApprovalsTypeOK, SendInv, SendHeld, SendExclusive, KeepsSends, Of, Request

\* Only one request sends, and its intent says so.
LEMMA StepSends ==
  ASSUME ApprovalsTypeOK, SendInv, [Next]_vars
  PROVE  SendInv'
<1> USE ApprovalBounds DEF rows, work
<1>1. ASSUME NEW r \in Requests, Decides(r) PROVE KeepsSends
  BY <1>1 DEF Decides, Resolve, ChannelAnswer, ResolveCritical, Replace, AnswerQuestion, Arrives,
              Dispatch, Goto, KeepsSends, ApprovalsTypeOK
<1>2. ASSUME NEW r \in Requests, Check(r) \/ Write(r) \/ Record(r) PROVE KeepsSends
  <2>1. AfterWrite(r) # "sending"
    BY DEF AfterWrite
  <2> QED BY <1>2, <2>1 DEF Check, Write, Record, Done, Goto, KeepsSends, ApprovalsTypeOK
<1>3. ASSUME NEW r \in Requests, RefuseIntent(r) \/ Hold(r) PROVE KeepsSends
  BY <1>3, OfType DEF RefuseIntent, Hold, Done, Goto, KeepsSends, ApprovalsTypeOK
<1>4. ASSUME NEW r \in Requests, HoldOver(r) PROVE SendInv'
  <2>1. CASE Releasable(Of(r))
    <3>1. /\ pc' = [pc EXCEPT ![r] = "sending"] /\ UNCHANGED req
          /\ intent' = [intent EXCEPT ![Of(r)] = "executing"]
      BY <1>4, <2>1 DEF HoldOver, Goto
    <3>2. \A s \in Requests : pc[s] = "sending" => Of(s) # Of(r)
      BY <2>1 DEF Releasable, SendInv, SendHeld
    <3> QED BY <3>1, <3>2, OfType DEF ApprovalsTypeOK, SendInv, SendHeld, SendExclusive, Of
  <2>2. CASE ~Releasable(Of(r))
    <3>1. KeepsSends
      BY <1>4, <2>2 DEF HoldOver, Done, Goto, KeepsSends, ApprovalsTypeOK
    <3> QED BY <3>1, KeepsSendsStep
  <2> QED BY <2>1, <2>2
<1>5. ASSUME NEW r \in Requests, NEW x \in SendEndings, SendEnds(r, x) PROVE SendInv'
  <2>1. /\ \A s \in Requests : pc'[s] = "sending" => s # r /\ pc[s] = "sending" /\ req'[s] = req[s]
        /\ intent' = [intent EXCEPT ![Of(r)] = x]
        /\ pc[r] = "sending"
    BY <1>5 DEF SendEnds, Done, Goto, ApprovalsTypeOK
  <2> QED BY <2>1, OfType DEF ApprovalsTypeOK, SendInv, SendHeld, SendExclusive, Of
<1>6. ASSUME NEW r \in Requests, Relays(r) PROVE KeepsSends
  BY <1>6 DEF Relays, RelayCheck, RelayClaim, RelaySettle, RelayReport, Reply, TargetRuns,
              TargetRaises, Done, Goto, KeepsSends, ApprovalsTypeOK
<1>7. ASSUME NEW a \in Ids, Files(a) \/ Announce(a) \/ TimeLimit(a) \/ ExpireDue(a)
                            \/ Undo(a) \/ ResumeTurn(a) \/ Continues(a)
      PROVE  KeepsSends
  BY <1>7 DEF Files, Propose, FileIntent, Park, Announce, TimeLimit, ExpireDue, Undo, ResumeTurn,
              Continues, ResumeEnds, KeepsSends, ApprovalsTypeOK
<1>8. ASSUME FlipGates \/ Crash \/ UNCHANGED vars PROVE KeepsSends
  BY <1>8 DEF FlipGates, Crash, vars, KeepsSends
<1> QED
  BY <1>1, <1>2, <1>3, <1>4, <1>5, <1>6, <1>7, <1>8, KeepsSendsStep DEF Next, Serves

\* A send that was taken back was never made, and never will be: undo and
\* wait_for_release are conditional updates of the same row, and the end of a
\* send writes only the intent it released.
THEOREM UndoHolds == Spec => UndoneNeverSent
<1>1. ASSUME ApprovalsTypeOK, SendInv, SafetyInv, SafetyInv', [Next]_vars
      PROVE  [\A a \in Ids : intent[a] = "undone" => intent'[a] = "undone" /\ attempts'[a] = 0]_vars
  <2> SUFFICES ASSUME NEW a \in Ids, intent[a] = "undone", Next
               PROVE  intent'[a] = "undone" /\ attempts'[a] = 0
    BY <1>1
  <2> USE <1>1 DEF rows, work
  <2>1. ASSUME NEW r \in Requests, Decides(r) PROVE intent'[a] = "undone"
    BY <2>1 DEF Decides, Resolve, ChannelAnswer, ResolveCritical, Replace, AnswerQuestion
  <2>2. ASSUME NEW r \in Requests, Check(r) \/ Write(r) \/ Record(r) \/ Relays(r)
        PROVE  intent'[a] = "undone"
    BY <2>2 DEF Check, Write, Record, Relays, RelayCheck, RelayClaim, RelaySettle, RelayReport,
                Reply, TargetRuns, TargetRaises
  <2>3. ASSUME NEW r \in Requests, RefuseIntent(r) \/ Hold(r) \/ HoldOver(r)
        PROVE  intent'[a] = "undone"
    BY <2>3, OfType DEF RefuseIntent, Hold, HoldOver, Releasable, ApprovalsTypeOK
  <2>4. ASSUME NEW r \in Requests, NEW x \in SendEndings, SendEnds(r, x)
        PROVE  intent'[a] = "undone"
    <3>1. Of(r) # a
      BY <2>4 DEF SendEnds, SendInv, SendHeld
    <3> QED BY <2>4, <3>1, OfType DEF SendEnds, ApprovalsTypeOK
  <2>5. ASSUME NEW b \in Ids, Files(b) \/ Announce(b) \/ TimeLimit(b) \/ ExpireDue(b)
                              \/ Undo(b) \/ ResumeTurn(b) \/ Continues(b)
        PROVE  intent'[a] = "undone"
    BY <2>5 DEF Files, Propose, FileIntent, Park, Announce, TimeLimit, ExpireDue, Undo, ResumeTurn,
                Continues, ResumeEnds, ApprovalsTypeOK
  <2>6. ASSUME FlipGates \/ Crash PROVE intent'[a] = "undone"
    BY <2>6 DEF FlipGates, Crash
  <2>7. intent'[a] = "undone"
    BY <2>1, <2>2, <2>3, <2>4, <2>5, <2>6 DEF Next, Serves
  <2> QED BY <2>7 DEF SafetyInv, OnlySendsHaveIntents, SentIsOnTheIntent
<1>2. Init => SendInv
  BY DEF Init, SendInv, SendHeld, SendExclusive
<1> QED BY <1>1, <1>2, StepSends, Safe, TypeCorrect, PTL DEF Spec, UndoneNeverSent

\* Where nothing is a connector send, what has run was approved and its row
\* says so: no denied, expired, pending or answered approval has run.  (For
\* sends it fails: resolve_approval's lost update goes unnoticed.)
THEOREM StaleGrantNeverRuns == Sends = {} => (Spec => []OnlyApprovedRuns)
<1> SUFFICES ASSUME Sends = {} PROVE Spec => []OnlyApprovedRuns
  OBVIOUS
<1>1. SafetyInv /\ ApprovalsTypeOK => OnlyApprovedRuns
  BY DEF SafetyInv, RanIsOnTheRow, OnlyApprovedRuns, ApprovalsTypeOK
<1> QED BY <1>1, Safe, TypeCorrect, PTL

----------------------------------------------------------------------------
(***************************************************************************)
(* What a continued turn was told.  A request that has read a pending row  *)
(* and is on its way to write it tells the turn what the owner pressed,    *)
(* whether or not its write took (resolve_approval's count is not seen).   *)
(* That is the truth as long as no relay claims the row between the two:   *)
(* where one request is served at a time, or where nothing is relayed.     *)
(***************************************************************************)
OneAtATime == Relayable = {} \/ \A r, s \in Requests : r = s

\* The requests that decide an approval on the loop, and those that have written.
Deciding == {"check", "write", "record", "hold", "refuse_intent"}
Written == {"record", "hold", "refuse_intent", "held", "sending"}
Writing(r) == pc[r] \in Written \/ (pc[r] = "write" /\ Of(r) \notin Criticals)
Sent(r) == pc[r] = "sending" \/ (pc[r] = "record" /\ res[r] = "executed")

Ran == {"executed", "execution_failed"}
Touched == {"held", "executing", "executed", "failed", "undone"}

ToldTruth ==
    \A a \in Ids : outcome[a] # "none" =>
        attempts[a] = IF outcome[a] \in {"executed", "failed"} THEN 1 ELSE 0
TurnTold == \A a \in Ids : turn[a] \notin {"none", "suspended"} => outcome[a] # "none"
TellsClosed == \A a \in Ids : outcome[a] # "none" => status[a] \notin {"absent", "pending", "executing"}
IntentFollows == \A a \in Ids : status[a] \in {"absent", "pending"} => intent[a] \notin Touched
RanOnce == \A a \in Ids : status[a] \in Ran => attempts[a] = 1

\* What a request holds: the loop, an approval of its kind, and nothing of an earlier one.
Holds(r) ==
    /\ pc[r] \in Deciding => loop = r
    /\ pc[r] \notin {"record", "settle", "report", "reply"} => res[r] = "none"
    /\ pc[r] # "idle" => (req[r].route = "critical" <=> Of(r) \in Criticals)
    /\ pc[r] \in Written => Of(r) \notin Criticals
    /\ pc[r] \in {"hold", "held"} \/ Sent(r) => req[r].route = "send"
    /\ pc[r] \in RelayWorks => Of(r) \in Relayable \union Criticals

\* A row that is being written, or was, is nobody's to execute.
WritesAlone(r) ==
    Writing(r) => /\ status[Of(r)] \notin {"absent", "executing"} \union Ran
                  /\ pc[r] \in Written => status[Of(r)] # "pending"
                  /\ outcome[Of(r)] = "none"
                  /\ pc[r] \notin {"held", "sending"} /\ ~Sent(r) =>
                        intent[Of(r)] \notin {"executing", "executed", "failed"}
                  /\ pc[r] = "held" => intent[Of(r)] \in {"held", "undone"}

\* What a request reports of an execution has happened.
Reports(r) ==
    /\ Sent(r) => attempts[Of(r)] = 1
    /\ pc[r] = "record" => res[r] \in {"none", "executed"}
    /\ pc[r] = "settle" /\ res[r] \in {"executed", "failed"} => attempts[Of(r)] = 1
    /\ pc[r] = "report" /\ res[r] = "executed" => status[Of(r)] = "executed"
    /\ pc[r] = "reply" /\ res[r] \in {"executed", "failed"} => status[Of(r)] \in Ran

WritersApart ==
    \A r, s \in Requests : r # s /\ Writing(r) /\ Writing(s) => Of(r) # Of(s)

TruthRows == ToldTruth /\ TurnTold /\ TellsClosed /\ IntentFollows /\ RanOnce
TruthInv ==
    /\ TruthRows /\ WritersApart
    /\ \A r \in Requests : Holds(r) /\ WritesAlone(r) /\ Reports(r)

Fits(r) == Holds(r) /\ WritesAlone(r) /\ Reports(r)

\* A row that is filed, decided or taken back, and of which nothing is told or run.
RowQuiet(a) ==
    /\ \/ status'[a] = status[a]
       \/ status[a] = "absent" /\ status'[a] = "pending"
       \/ status[a] = "pending" /\ status'[a] \in {"approved", "denied", "answered", "expired"}
    /\ \/ intent'[a] = intent[a]
       \/ /\ intent'[a] \notin {"executing", "executed", "failed"} /\ intent[a] # "undone"
          /\ intent[a] = "held" => intent'[a] = "undone"
          /\ intent'[a] \in Touched => \/ intent[a] \in Touched
                                       \/ status[a] \notin {"absent", "pending"}
    /\ outcome'[a] = outcome[a] /\ attempts'[a] = attempts[a]

RowsQuiet ==
    /\ \A a \in Ids : RowQuiet(a)
    /\ \A a \in Ids : turn'[a] \notin {"none", "suspended"} =>
                         turn[a] \notin {"none", "suspended"} \/ outcome[a] # "none"

\* Only r moves, and nobody who holds the loop loses it.
Only(r) == \A s \in Requests \ {r} : Stays(s) /\ (pc[s] \in Deciding => loop' = s)

LEMMA RowsKept ==
  ASSUME TruthRows, RowsQuiet
  PROVE  TruthRows'
<1> USE DEF RowsQuiet, RowQuiet
<1>1. ToldTruth' /\ TurnTold'
  BY DEF TruthRows, ToldTruth, TurnTold
<1>2. TellsClosed'
  BY DEF TruthRows, TellsClosed
<1>3. IntentFollows'
  BY DEF TruthRows, IntentFollows
<1>4. RanOnce'
  BY DEF TruthRows, RanOnce, Ran
<1> QED BY <1>1, <1>2, <1>3, <1>4 DEF TruthRows

\* A request beside a quiet row, or one that does not write beside a row that runs.
LEMMA BesideQuiet ==
  ASSUME NEW r \in Requests, Fits(r), Stays(r), RowQuiet(Of(r)), pc[r] \in Deciding => loop' = r
  PROVE  Fits(r)'
<1>1. pc'[r] = pc[r] /\ req'[r] = req[r] /\ res'[r] = res[r]
  BY DEF Stays
<1>2. Holds(r)'
  BY <1>1 DEF Fits, Holds, Sent, Of
<1>3. Reports(r)'
  BY <1>1 DEF Fits, Reports, RowQuiet, Sent, Of, Ran
<1>4. WritesAlone(r)'
  BY <1>1 DEF Fits, WritesAlone, Writing, RowQuiet, Sent, Of, Ran, Written
<1> QED BY <1>2, <1>3, <1>4 DEF Fits

LEMMA BesideRun ==
  ASSUME NEW r \in Requests, Fits(r), Stays(r), ~Writing(r), pc[r] \in Deciding => loop' = r,
         status'[Of(r)] = status[Of(r)] \/ status[Of(r)] \notin Ran,
         attempts'[Of(r)] = attempts[Of(r)] \/ attempts[Of(r)] = 0
  PROVE  Fits(r)'
<1>1. pc'[r] = pc[r] /\ req'[r] = req[r] /\ res'[r] = res[r]
  BY DEF Stays
<1>2. Holds(r)' /\ WritesAlone(r)'
  BY <1>1 DEF Fits, Holds, WritesAlone, Writing, Sent, Of
<1>3. Reports(r)'
  BY <1>1 DEF Fits, Reports, Writing, Written, Sent, Of, Ran
<1> QED BY <1>2, <1>3 DEF Fits

LEMMA ApartKept ==
  ASSUME WritersApart, \A r \in Requests : Writing(r)' => Writing(r) /\ Of(r)' = Of(r)
  PROVE  WritersApart'
  BY DEF WritersApart

\* A quiet step of one request, which fits where it goes.
LEMMA QuietMove ==
  ASSUME ApprovalsTypeOK, TruthInv, RowsQuiet, NEW r \in Requests, Only(r), Fits(r)',
         WritersApart' \/ (Writing(r)' => Writing(r) /\ Of(r)' = Of(r))
  PROVE  TruthInv'
<1>1. TruthRows'
  BY RowsKept DEF TruthInv
<1>2. ASSUME NEW s \in Requests PROVE Fits(s)'
  <2>1. CASE s = r
    BY <2>1
  <2>2. CASE s # r
    <3>1. Fits(s) /\ Stays(s) /\ (pc[s] \in Deciding => loop' = s) /\ RowQuiet(Of(s))
      BY <2>2, OfType DEF TruthInv, Fits, Only, RowsQuiet
    <3> QED BY <3>1, BesideQuiet
  <2> QED BY <2>1, <2>2
<1>3. WritersApart'
  <2>1. ASSUME Writing(r)' => Writing(r) /\ Of(r)' = Of(r)
        PROVE  WritersApart'
    <3>1. ASSUME NEW s \in Requests, s # r PROVE Writing(s)' => Writing(s) /\ Of(s)' = Of(s)
      BY <3>1 DEF Only, Stays, Writing, Of
    <3> QED BY <2>1, <3>1, ApartKept DEF TruthInv
  <2> QED BY <2>1
<1> QED BY <1>1, <1>2, <1>3 DEF TruthInv, Fits

\* A step of nobody.
LEMMA QuietWorld ==
  ASSUME ApprovalsTypeOK, TruthInv, RowsQuiet, UNCHANGED <<pc, req, res, loop>>
  PROVE  TruthInv'
<1>1. TruthRows'
  BY RowsKept DEF TruthInv
<1>2. ASSUME NEW s \in Requests PROVE Fits(s)'
  <2>1. Fits(s) /\ Stays(s) /\ (pc[s] \in Deciding => loop' = s) /\ RowQuiet(Of(s))
    BY OfType DEF TruthInv, Fits, Holds, Stays, RowsQuiet
  <2> QED BY <2>1, BesideQuiet
<1>3. WritersApart'
  BY ApartKept DEF TruthInv, Writing, Of
<1> QED BY <1>1, <1>2, <1>3 DEF TruthInv, Fits

\* A request that has answered holds nothing.
LEMMA DoneFits ==
  ASSUME ApprovalsTypeOK, TruthInv, NEW r \in Requests, Done(r)
  PROVE  Only(r) /\ Fits(r)' /\ ~Writing(r)'
<1>1. pc'[r] = "idle" /\ res'[r] = "none"
  BY DEF Done, Goto, ApprovalsTypeOK
<1>2. Fits(r)' /\ ~Writing(r)'
  BY <1>1 DEF Fits, Holds, WritesAlone, Reports, Writing, Sent, Written, Deciding, RelayWorks
<1>3. \A s \in Requests \ {r} : Stays(s)
  BY DEF Done, Goto, ApprovalsTypeOK, Stays
<1>4. \A s \in Requests \ {r} : pc[s] \in Deciding => loop' = s
  BY DEF Done, Release, TruthInv, Holds
<1> QED BY <1>2, <1>3, <1>4 DEF Only

\* One that goes on keeps the others where they are.
LEMMA GotoOnly ==
  ASSUME ApprovalsTypeOK, TruthInv, NEW r \in Requests, NEW l, Goto(r, l), UNCHANGED req,
         \A s \in Requests \ {r} : res'[s] = res[s],
         loop' = loop \/ Release(r) \/ (loop' = r /\ loop = NoRequest)
  PROVE  Only(r) /\ pc'[r] = l
<1>1. \A s \in Requests \ {r} : Stays(s)
  BY DEF Goto, ApprovalsTypeOK, Stays
<1>2. \A s \in Requests \ {r} : pc[s] \in Deciding => loop' = s
  BY NoRequestIsNoRequest DEF Release, TruthInv, Holds
<1> QED BY <1>1, <1>2 DEF Only, Goto, ApprovalsTypeOK

----------------------------------------------------------------------------
\* The rows, when no row changes, or only one.
LEMMA RowsSame ==
  ASSUME UNCHANGED <<status, intent, outcome, attempts, turn>>
  PROVE  RowsQuiet
  BY DEF RowsQuiet, RowQuiet

\* The turns, the sweep and the undo.
LEMMA WorldTruth ==
  ASSUME ApprovalsTypeOK, TruthInv, NEW a \in Ids,
         Files(a) \/ Announce(a) \/ TimeLimit(a) \/ ExpireDue(a) \/ Undo(a) \/ ResumeTurn(a) \/ Continues(a)
  PROVE  TruthInv'
<1> USE DEF rows, work
<1>1. UNCHANGED <<pc, req, res, loop, outcome, attempts>>
  BY DEF Files, Propose, FileIntent, Park, Announce, TimeLimit, ExpireDue, Undo, ResumeTurn, Continues,
         ResumeEnds
<1>2. \A b \in Ids : RowQuiet(b)
  <2>1. CASE Propose(a) \/ ExpireDue(a)
    BY <1>1, <2>1 DEF Propose, ExpireDue, RowQuiet, ApprovalsTypeOK
  <2>2. CASE FileIntent(a) \/ Undo(a)
    BY <1>1, <2>2 DEF FileIntent, Undo, RowQuiet, Touched, ApprovalsTypeOK
  <2>3. CASE UNCHANGED <<status, intent>>
    BY <1>1, <2>3 DEF RowQuiet
  <2> QED BY <2>1, <2>2, <2>3 DEF Files, Park, Announce, TimeLimit, ResumeTurn, Continues, ResumeEnds
<1>3. \A b \in Ids : turn'[b] \notin {"none", "suspended"} =>
                        turn[b] \notin {"none", "suspended"} \/ outcome[b] # "none"
  BY DEF Files, Propose, FileIntent, Park, Announce, TimeLimit, ExpireDue, Undo, ResumeTurn, Continues,
         ResumeEnds, Resumable, ApprovalsTypeOK
<1> QED BY <1>1, <1>2, <1>3, QuietWorld DEF RowsQuiet

\* The host dies, and so does everything a request held.
LEMMA CrashTruth ==
  ASSUME ApprovalsTypeOK, TruthInv, Crash
  PROVE  TruthInv'
<1> USE DEF rows, work
<1>1. \A r \in Requests : pc'[r] = "idle" /\ res'[r] = "none"
  BY DEF Crash
<1>2. \A r \in Requests : Fits(r)' /\ ~Writing(r)'
  BY <1>1 DEF Fits, Holds, WritesAlone, Reports, Writing, Sent, Written, Deciding, RelayWorks
<1>3. TruthRows'
  BY RowsSame, RowsKept DEF Crash, TruthInv
<1> QED BY <1>2, <1>3 DEF TruthInv, Fits, WritersApart

\* A decision arrives while nobody holds the loop.
LEMMA ArriveFits ==
  ASSUME ApprovalsTypeOK, TruthInv, NEW r \in Requests, NEW a \in Ids, NEW d, NEW route,
         NEW l \in {"relay", "check"}, Arrives(r, a, d, route), Goto(r, l),
         loop' = IF l = "check" THEN r ELSE loop,
         route = "critical" <=> a \in Criticals,
         l = "relay" => a \in Relayable \union Criticals
  PROVE  Only(r) /\ Fits(r)' /\ ~(Writing(r)')
<1>1. pc'[r] = l /\ res'[r] = "none" /\ req'[r].id = a /\ req'[r].route = route
  BY DEF Arrives, Goto, ApprovalsTypeOK, TruthInv, Holds
<1>2. Fits(r)' /\ ~(Writing(r)')
  BY <1>1 DEF Fits, Holds, WritesAlone, Reports, Writing, Sent, Written, Deciding, RelayWorks, Of
<1>3. \A s \in Requests \ {r} : Stays(s)
  BY DEF Arrives, Goto, ApprovalsTypeOK, Stays
<1>4. \A s \in Requests : pc[s] \notin Deciding
  BY NoRequestIsNoRequest DEF Arrives, TruthInv, Holds
<1> QED BY <1>2, <1>3, <1>4 DEF Only

LEMMA DecideTruth ==
  ASSUME ApprovalsTypeOK, TruthInv, NEW r \in Requests, Decides(r)
  PROVE  TruthInv'
<1> USE ApprovalSets DEF rows, work
<1>1. ASSUME NEW a \in Ids, NEW d \in Decisions, Resolve(r, a, d) PROVE TruthInv'
  <2> DEFINE route == IF intent[a] = "none" THEN "inbox" ELSE "send"
  <2>1. Arrives(r, a, d, route) /\ route # "critical" /\ a \notin Criticals
    BY <1>1 DEF Resolve
  <2> HIDE DEF route
  <2>2. \/ a \in Relayable /\ Goto(r, "relay") /\ loop' = loop
        \/ Goto(r, "check") /\ loop' = r
    BY <1>1 DEF Resolve, Dispatch, Executes
  <2>3. RowsQuiet
    BY <1>1, RowsSame DEF Resolve, Arrives
  <2>4. Only(r) /\ Fits(r)' /\ ~(Writing(r)')
    BY <2>1, <2>2, ArriveFits
  <2> QED BY <2>3, <2>4, QuietMove
<1>2. ASSUME NEW a \in Ids, NEW d \in Decisions, ChannelAnswer(r, a, d) PROVE TruthInv'
  <2>1. Arrives(r, a, d, "channel") /\ a \notin Criticals
    BY <1>2 DEF ChannelAnswer
  <2>2. \/ a \in Relayable /\ Goto(r, "relay") /\ loop' = loop
        \/ Goto(r, "check") /\ loop' = r
    BY <1>2 DEF ChannelAnswer, Dispatch, Executes
  <2>3. RowsQuiet
    BY <1>2, RowsSame DEF ChannelAnswer, Arrives
  <2>4. Only(r) /\ Fits(r)' /\ ~(Writing(r)')
    BY <2>1, <2>2, ArriveFits
  <2> QED BY <2>3, <2>4, QuietMove
<1>3. ASSUME NEW a \in Ids, NEW d \in Decisions, ResolveCritical(r, a, d) PROVE TruthInv'
  <2>1. Only(r) /\ Fits(r)' /\ ~(Writing(r)')
    BY <1>3, ArriveFits DEF ResolveCritical
  <2>2. RowsQuiet
    BY <1>3, RowsSame DEF ResolveCritical, Arrives
  <2> QED BY <2>1, <2>2, QuietMove
<1>4. ASSUME NEW a \in Ids, NEW b \in Edits, Replace(r, a, b) PROVE TruthInv'
  <2>1. Only(r) /\ Fits(r)' /\ ~(Writing(r)')
    BY <1>4, ArriveFits DEF Replace
  <2>2. RowsQuiet
    BY <1>4 DEF Replace, Arrives, RowsQuiet, RowQuiet, ApprovalsTypeOK
  <2> QED BY <2>1, <2>2, QuietMove
<1>5. ASSUME NEW a \in Ids, AnswerQuestion(r, a) PROVE TruthInv'
  <2>1. /\ pc'[r] = "record" /\ res'[r] = "none" /\ req'[r].id = a /\ req'[r].route = "answer"
        /\ loop' = r /\ loop = NoRequest /\ a \notin Criticals /\ status[a] = "pending"
        /\ status' = [status EXCEPT ![a] = "answered"]
        /\ UNCHANGED <<intent, outcome, attempts, turn>>
    BY <1>5 DEF AnswerQuestion, Arrives, Goto, ApprovalsTypeOK, TruthInv, Holds
  <2>2. \A s \in Requests : pc[s] \notin Deciding
    BY <2>1, NoRequestIsNoRequest DEF TruthInv, Holds
  <2>3. Only(r)
    BY <1>5, <2>2 DEF AnswerQuestion, Arrives, Goto, ApprovalsTypeOK, Only, Stays
  <2>4. outcome[a] = "none" /\ intent[a] \notin Touched
    BY <2>1 DEF TruthInv, TruthRows, TellsClosed, IntentFollows
  <2>5. status'[a] = "answered"
    BY <2>1 DEF ApprovalsTypeOK
  <2>6. Fits(r)'
    BY <2>1, <2>4, <2>5 DEF Fits, Holds, WritesAlone, Reports, Writing, Sent, Written, Deciding,
                            RelayWorks, Of, Touched, Ran
  <2>7. WritersApart'
    <3>1. ASSUME NEW s \in Requests \ {r}, Writing(s)' PROVE Of(s)' # a /\ Writing(s) /\ Of(s)' = Of(s)
      <4>1. Writing(s) /\ Of(s)' = Of(s) /\ pc[s] \notin Deciding
        BY <2>2, <2>3, <3>1 DEF Only, Stays, Writing, Of
      <4>2. status[Of(s)] # "pending"
        BY <4>1 DEF TruthInv, WritesAlone, Writing, Deciding, Written
      <4> QED BY <2>1, <4>1, <4>2
    <3>2. Of(r)' = a
      BY <2>1 DEF Of
    <3> QED BY <3>1, <3>2 DEF TruthInv, WritersApart
  <2>8. RowsQuiet
    BY <2>1 DEF RowsQuiet, RowQuiet, ApprovalsTypeOK
  <2> QED BY <2>3, <2>6, <2>7, <2>8, QuietMove
<1> QED BY <1>1, <1>2, <1>3, <1>4, <1>5 DEF Decides

\* It is read on the loop: what is pending then is nobody's.
LEMMA CheckTruth ==
  ASSUME ApprovalsTypeOK, TruthInv, NEW r \in Requests, Check(r)
  PROVE  TruthInv'
<1> DEFINE a == Of(r)
<1>0. a \in Ids /\ pc[r] = "check" /\ UNCHANGED <<intent, outcome, attempts, turn>>
  BY OfType DEF Check
<1>1. RowsQuiet
  BY <1>0 DEF Check, RowsQuiet, RowQuiet, ApprovalsTypeOK
<1>2. CASE Done(r)
  BY <1>1, <1>2, DoneFits, QuietMove
<1>3. CASE ~Done(r)
  <2> DEFINE l == IF req[r].route = "critical" /\ req[r].approve THEN "relay" ELSE "write"
  <2>1. status[a] = "pending" /\ Goto(r, l) /\ UNCHANGED <<status, req, res, loop>>
    BY <1>3 DEF Check
  <2>2. Only(r) /\ pc'[r] = l
    BY <2>1, GotoOnly
  <2>3. /\ outcome[a] = "none" /\ intent[a] \notin Touched /\ res[r] = "none" /\ loop = r
        /\ req[r].route = "critical" <=> a \in Criticals
    BY <1>0, <2>1 DEF TruthInv, TruthRows, TellsClosed, IntentFollows, Holds, Deciding
  <2>4. Fits(r)'
    BY <1>0, <2>1, <2>2, <2>3 DEF Fits, Holds, WritesAlone, Reports, Writing, Sent, Written, Deciding,
                                  RelayWorks, Of, Touched, Ran
  <2>5. WritersApart'
    <3>1. ASSUME NEW s \in Requests \ {r}, Writing(s)' PROVE Writing(s) /\ Of(s)' = Of(s) /\ Of(s) # a
      <4>1. Writing(s) /\ Of(s)' = Of(s)
        BY <2>2, <3>1 DEF Only, Stays, Writing, Of
      <4>2. pc[s] \notin Deciding
        BY <2>3 DEF TruthInv, Holds
      <4>3. status[Of(s)] # "pending"
        BY <4>1, <4>2 DEF TruthInv, WritesAlone, Writing, Deciding, Written
      <4> QED BY <2>1, <4>1, <4>3
    <3>2. Of(r)' = a
      BY <2>1 DEF Of
    <3> QED BY <3>1, <3>2 DEF TruthInv, WritersApart
  <2> QED BY <1>1, <2>2, <2>4, <2>5, QuietMove
<1> QED BY <1>2, <1>3

----------------------------------------------------------------------------
\* A step of r that changes the row of a, on which nobody else writes.
LEMMA LoudMove ==
  ASSUME ApprovalsTypeOK, TruthInv, NEW r \in Requests, NEW a \in Ids, Only(r), Fits(r)',
         Writing(r)' => Writing(r) /\ Of(r)' = Of(r),
         \A b \in Ids \ {a} : RowQuiet(b),
         \A s \in Requests \ {r} : Writing(s) => Of(s) # a,
         status'[a] = status[a] \/ status[a] \notin Ran,
         attempts'[a] = attempts[a] \/ attempts[a] = 0,
         TruthRows'
  PROVE  TruthInv'
<1>1. ASSUME NEW s \in Requests PROVE Fits(s)'
  <2>1. CASE s = r
    BY <2>1
  <2>2. CASE s # r
    <3>1. Fits(s) /\ Stays(s) /\ (pc[s] \in Deciding => loop' = s) /\ Of(s) \in Ids
      BY <2>2, OfType DEF TruthInv, Fits, Only
    <3>2. CASE Of(s) = a
      BY <2>2, <3>1, <3>2, BesideRun
    <3>3. CASE Of(s) # a
      BY <3>1, <3>3, BesideQuiet
    <3> QED BY <3>2, <3>3
  <2> QED BY <2>1, <2>2
<1>2. WritersApart'
  <2>1. ASSUME NEW s \in Requests, s # r PROVE Writing(s)' => Writing(s) /\ Of(s)' = Of(s)
    BY <2>1 DEF Only, Stays, Writing, Of
  <2> QED BY <2>1, ApartKept DEF TruthInv
<1> QED BY <1>1, <1>2 DEF TruthInv, Fits

\* A request tells the turn what is true of its row, and has answered.
LEMMA TellsTruth ==
  ASSUME ApprovalsTypeOK, TruthInv, NEW r \in Requests, NEW a \in Ids, NEW o \in Told \ {"none"},
         outcome' = Recorded(a, o), UNCHANGED <<status, intent, attempts, turn>>, Done(r),
         status[a] \notin {"absent", "pending", "executing"},
         attempts[a] = IF o \in {"executed", "failed"} THEN 1 ELSE 0,
         \A s \in Requests \ {r} : Writing(s) => Of(s) # a
  PROVE  TruthInv'
<1>1. Only(r) /\ Fits(r)' /\ ~(Writing(r)')
  BY DoneFits
<1>2. /\ outcome'[a] = outcome[a] \/ outcome'[a] = o
      /\ \A b \in Ids \ {a} : outcome'[b] = outcome[b]
      /\ \A b \in Ids : outcome[b] # "none" => outcome'[b] # "none"
  BY DEF Recorded, ApprovalsTypeOK
<1>3. \A b \in Ids \ {a} : RowQuiet(b)
  BY <1>2 DEF RowQuiet
<1>4. TruthRows'
  BY <1>2 DEF TruthInv, TruthRows, ToldTruth, TurnTold, TellsClosed, IntentFollows, RanOnce
<1> QED BY <1>1, <1>3, <1>4, LoudMove

\* The write lands, or is lost on a row the sweep has closed.
LEMMA WriteTruth ==
  ASSUME ApprovalsTypeOK, TruthInv, NEW r \in Requests, Write(r)
  PROVE  TruthInv'
<1> DEFINE a == Of(r)
           l == AfterWrite(r)
<1>0. a \in Ids /\ pc[r] = "write" /\ UNCHANGED <<intent, outcome, attempts, turn, req, res, loop>>
  BY OfType DEF Write
<1>1. status' = Resolved(a, IF req[r].approve THEN "approved" ELSE "denied") /\ Goto(r, l)
  BY DEF Write
<1>2. RowsQuiet /\ status'[a] # "pending" /\ (status[a] # "pending" => status'[a] = status[a])
      /\ (status[a] = "pending" => status'[a] \in {"approved", "denied"})
  BY <1>0, <1>1 DEF Resolved, RowsQuiet, RowQuiet, ApprovalsTypeOK
<1>3. Only(r) /\ pc'[r] = l
  BY <1>0, <1>1, GotoOnly
<1>4. /\ res[r] = "none" /\ loop = r /\ (req[r].route = "critical" <=> a \in Criticals)
      /\ a \notin Criticals => WritesAlone(r) /\ Writing(r)
  BY <1>0 DEF TruthInv, Holds, Deciding, Writing
<1>5. /\ l \in {"hold", "refuse_intent", "record", "reply"}
      /\ l = "hold" => req[r].route = "send"
      /\ l = "reply" <=> req[r].route = "critical"
  BY DEF AfterWrite
<1> HIDE DEF l
<1>6. Holds(r)' /\ Reports(r)'
  BY <1>0, <1>3, <1>4, <1>5 DEF Holds, Reports, Sent, Written, Deciding, RelayWorks, Of
<1>7. WritesAlone(r)' /\ (Writing(r)' => Writing(r) /\ Of(r)' = Of(r))
  BY <1>0, <1>2, <1>3, <1>4, <1>5 DEF WritesAlone, Writing, Sent, Written, Of, Ran
<1> QED BY <1>2, <1>3, <1>6, <1>7, QuietMove DEF Fits

\* What the owner pressed, or what was sent, is what the row says.
LEMMA RecordTruth ==
  ASSUME ApprovalsTypeOK, SafetyInv, TruthInv, NEW r \in Requests, Record(r)
  PROVE  TruthInv'
<1> DEFINE a == Of(r)
           o == Answer(r)
<1>0. /\ a \in Ids /\ pc[r] = "record" /\ Done(r) /\ outcome' = Recorded(a, o)
      /\ UNCHANGED <<status, intent, attempts, turn>>
  BY OfType DEF Record
<1>1. Writing(r) /\ WritesAlone(r) /\ Reports(r) /\ Holds(r)
  BY <1>0 DEF TruthInv, Writing, Written
<1>2. status[a] \notin {"absent", "pending", "executing"} \union Ran
  BY <1>0, <1>1 DEF WritesAlone, Written
<1>3. \A s \in Requests \ {r} : Writing(s) => Of(s) # a
  BY <1>1 DEF TruthInv, WritersApart
<1>4. CASE res[r] = "executed"
  <2>0. Sent(r)
    BY <1>0, <1>4 DEF Sent
  <2>1. attempts[a] = 1 /\ req[r].route = "send"
    BY <1>1, <2>0 DEF Reports, Holds
  <2>2. o = "executed"
    BY <1>4, <2>1 DEF Answer
  <2> QED BY <1>0, <1>2, <1>3, <2>1, <2>2, TellsTruth DEF Told
<1>5. CASE res[r] # "executed"
  <2>1. o \in {"answered", "not_run", "denied"}
    BY <1>5 DEF Answer
  <2>2. attempts[a] = 0
    <3>1. CASE a \in Sends
      BY <1>0, <1>1, <1>5, <3>1 DEF WritesAlone, Sent, SafetyInv, SentIsOnTheIntent
    <3>2. CASE a \notin Sends
      BY <1>0, <1>2, <3>2 DEF Ran, SafetyInv, RanIsOnTheRow
    <3> QED BY <3>1, <3>2
  <2> HIDE DEF o
  <2> QED BY <1>0, <1>2, <1>3, <2>1, <2>2, TellsTruth DEF Told
<1> QED BY <1>4, <1>5

\* A refused send, and a held one.
LEMMA HoldTruth ==
  ASSUME ApprovalsTypeOK, TruthInv, NEW r \in Requests, RefuseIntent(r) \/ Hold(r)
  PROVE  TruthInv'
<1> DEFINE a == Of(r)
<1>0. /\ a \in Ids /\ pc[r] \in {"hold", "refuse_intent"}
      /\ UNCHANGED <<status, outcome, attempts, turn>>
  BY OfType DEF RefuseIntent, Hold
<1>1. Writing(r) /\ WritesAlone(r) /\ Holds(r)
  BY <1>0 DEF TruthInv, Writing, Written
<1>2. /\ status[a] \notin {"absent", "pending", "executing"} \union Ran /\ outcome[a] = "none"
      /\ intent[a] \notin {"executing", "executed", "failed"}
      /\ res[r] = "none" /\ a \notin Criticals /\ loop = r
  BY <1>0, <1>1 DEF WritesAlone, Holds, Sent, Written, Deciding
<1>3. RowsQuiet
  BY <1>0, <1>2 DEF RefuseIntent, Hold, RowsQuiet, RowQuiet, Touched, ApprovalsTypeOK
<1>4. CASE RefuseIntent(r)
  <2>1. Only(r) /\ pc'[r] = "record" /\ UNCHANGED <<req, res, loop>>
    BY <1>4, GotoOnly DEF RefuseIntent
  <2>2. intent'[a] \notin {"executing", "executed", "failed"}
    BY <1>0, <1>2, <1>4 DEF RefuseIntent, ApprovalsTypeOK
  <2>3. Fits(r)' /\ Writing(r)' /\ Of(r)' = Of(r)
    BY <1>0, <1>1, <1>2, <2>1, <2>2
    DEF Fits, Holds, WritesAlone, Reports, Writing, Sent, Written, Deciding, RelayWorks, Of
  <2> QED BY <1>1, <1>3, <2>1, <2>3, QuietMove
<1>5. CASE Hold(r) /\ Done(r)
  BY <1>3, <1>5, DoneFits, QuietMove
<1>6. CASE Hold(r) /\ ~Done(r)
  <2>1. /\ intent' = [intent EXCEPT ![a] = "held"] /\ Goto(r, "held") /\ Release(r)
        /\ UNCHANGED <<req, res>>
    BY <1>6 DEF Hold
  <2>2. Only(r) /\ pc'[r] = "held"
    BY <2>1, GotoOnly
  <2>3. intent'[a] = "held"
    BY <1>0, <2>1 DEF ApprovalsTypeOK
  <2>4. req[r].route = "send" /\ (req[r].route = "critical" <=> a \in Criticals)
    BY <1>0, <1>1, <1>6 DEF Holds, Hold
  <2>5. Fits(r)' /\ Of(r)' = Of(r)
    BY <1>0, <1>2, <2>1, <2>2, <2>3, <2>4
    DEF Fits, Holds, WritesAlone, Reports, Writing, Sent, Written, Deciding, RelayWorks, Of
  <2> QED BY <1>1, <1>3, <2>2, <2>5, QuietMove
<1> QED BY <1>4, <1>5, <1>6

\* A send that is released was told of nobody; one that was taken back has not run.
LEMMA HoldOverTruth ==
  ASSUME ApprovalsTypeOK, SafetyInv, TruthInv, NEW r \in Requests, HoldOver(r)
  PROVE  TruthInv'
<1> DEFINE a == Of(r)
<1>0. a \in Ids /\ pc[r] = "held" /\ loop = NoRequest /\ UNCHANGED <<status, turn>>
  BY OfType DEF HoldOver
<1>1. Writing(r) /\ WritesAlone(r) /\ Holds(r)
  BY <1>0 DEF TruthInv, Writing, Written
<1>2. /\ status[a] \notin {"absent", "pending", "executing"} \union Ran /\ outcome[a] = "none"
      /\ intent[a] \in {"held", "undone"} /\ res[r] = "none"
      /\ a \notin Criticals /\ req[r].route = "send"
  BY <1>0, <1>1 DEF WritesAlone, Holds, Written
<1>3. attempts[a] = 0
  BY <1>0, <1>2 DEF SafetyInv, OnlySendsHaveIntents, SentIsOnTheIntent
<1>4. \A s \in Requests \ {r} : Writing(s) => Of(s) # a
  BY <1>1 DEF TruthInv, WritersApart
<1>5. CASE ~Releasable(a)
  <2>1. outcome' = Recorded(a, "not_run") /\ Done(r) /\ UNCHANGED <<intent, attempts>>
    BY <1>5 DEF HoldOver
  <2> QED BY <1>0, <1>2, <1>3, <1>4, <2>1, TellsTruth DEF Told
<1>6. CASE Releasable(a)
  <2>1. /\ intent' = [intent EXCEPT ![a] = "executing"] /\ Goto(r, "sending")
        /\ attempts' = [attempts EXCEPT ![a] = @ + 1]
        /\ UNCHANGED <<req, res, loop, outcome>>
    BY <1>6 DEF HoldOver
  <2>2. Only(r) /\ pc'[r] = "sending"
    BY <2>1, GotoOnly
  <2>3. attempts'[a] = 1
    BY <1>0, <1>3, <2>1 DEF ApprovalsTypeOK
  <2>4. Fits(r)' /\ Of(r)' = Of(r)
    BY <1>0, <1>2, <2>1, <2>2, <2>3, <1>0
    DEF Fits, Holds, WritesAlone, Reports, Writing, Sent, Written, Deciding, RelayWorks, Of
  <2>5. \A b \in Ids \ {a} : attempts'[b] = attempts[b] /\ intent'[b] = intent[b] /\ RowQuiet(b)
    BY <1>0, <2>1 DEF RowQuiet, ApprovalsTypeOK
  <2>6. TruthRows'
    BY <1>0, <1>2, <2>1, <2>5 DEF TruthInv, TruthRows, ToldTruth, TurnTold, TellsClosed, IntentFollows,
                                  RanOnce, Ran
  <2> QED BY <1>0, <1>1, <1>3, <1>4, <2>2, <2>4, <2>5, <2>6, LoudMove
<1> QED BY <1>5, <1>6

\* The end of a send is written on the intent it released.
LEMMA SentTruth ==
  ASSUME ApprovalsTypeOK, TruthInv, NEW r \in Requests, NEW x \in SendEndings, SendEnds(r, x)
  PROVE  TruthInv'
<1> DEFINE a == Of(r)
<1>0. /\ a \in Ids /\ pc[r] = "sending" /\ loop = NoRequest
      /\ intent' = [intent EXCEPT ![a] = x]
      /\ UNCHANGED <<status, turn, outcome, attempts>>
  BY OfType DEF SendEnds
<1>1. Writing(r) /\ Sent(r) /\ WritesAlone(r) /\ Holds(r) /\ Reports(r)
  BY <1>0 DEF TruthInv, Writing, Written, Sent
<1>2. /\ status[a] \notin {"absent", "pending", "executing"} \union Ran /\ outcome[a] = "none"
      /\ attempts[a] = 1 /\ a \notin Criticals /\ req[r].route = "send"
  BY <1>0, <1>1 DEF WritesAlone, Holds, Reports, Written
<1>3. \A s \in Requests \ {r} : Writing(s) => Of(s) # a
  BY <1>1 DEF TruthInv, WritersApart
<1>4. Only(r) /\ Fits(r)' /\ (Writing(r)' => Of(r)' = Of(r))
  <2>1. CASE Done(r)
    BY <2>1, DoneFits
  <2>2. CASE ~Done(r)
    <3>1. Goto(r, "record") /\ loop' = r /\ res' = [res EXCEPT ![r] = "executed"] /\ UNCHANGED req
      BY <2>2 DEF SendEnds
    <3>2. res'[r] = "executed" /\ \A s \in Requests \ {r} : res'[s] = res[s]
      BY <3>1 DEF ApprovalsTypeOK
    <3>3. Only(r) /\ pc'[r] = "record"
      BY <1>0, <3>1, <3>2, GotoOnly
    <3>4. Fits(r)' /\ Of(r)' = Of(r)
      BY <1>0, <1>2, <3>1, <3>2, <3>3
      DEF Fits, Holds, WritesAlone, Reports, Writing, Sent, Written, Deciding, RelayWorks, Of
    <3> QED BY <3>3, <3>4
  <2> QED BY <2>1, <2>2
<1>5. \A b \in Ids \ {a} : intent'[b] = intent[b] /\ RowQuiet(b)
  BY <1>0 DEF RowQuiet, ApprovalsTypeOK
<1>6. TruthRows'
  BY <1>0, <1>2, <1>5 DEF TruthInv, TruthRows, ToldTruth, TurnTold, TellsClosed, IntentFollows, RanOnce
<1> QED BY <1>0, <1>1, <1>3, <1>4, <1>5, <1>6, LoudMove

----------------------------------------------------------------------------
\* The relay's checks, and what it reads back.
LEMMA RelayCheckTruth ==
  ASSUME ApprovalsTypeOK, TruthInv, NEW r \in Requests, RelayCheck(r)
  PROVE  TruthInv'
<1>0. /\ Of(r) \in Ids /\ pc[r] = "relay" /\ UNCHANGED <<intent, turn, outcome, attempts, req, loop>>
      /\ Holds(r)
  BY OfType DEF RelayCheck, TruthInv
<1>1. RowsQuiet
  BY <1>0 DEF RelayCheck, Resolved, RowsQuiet, RowQuiet, ApprovalsTypeOK
<1>2. PICK l \in {"claim", "report"} : Goto(r, l) /\ (l = "claim" => res' = res)
  BY DEF RelayCheck
<1>3. res'[r] \in {"none", "refused"} /\ \A s \in Requests \ {r} : res'[s] = res[s]
  BY <1>0 DEF RelayCheck, Holds, ApprovalsTypeOK
<1>4. Only(r) /\ pc'[r] = l
  BY <1>0, <1>2, <1>3, GotoOnly
<1>5. Fits(r)' /\ ~(Writing(r)')
  BY <1>0, <1>2, <1>3, <1>4
  DEF Fits, Holds, WritesAlone, Reports, Writing, Sent, Written, Deciding, RelayWorks, Of
<1> QED BY <1>1, <1>4, <1>5, QuietMove

LEMMA ReportTruth ==
  ASSUME ApprovalsTypeOK, TruthInv, NEW r \in Requests, RelayReport(r)
  PROVE  TruthInv'
<1> USE DEF rows
<1>0. /\ pc[r] = "report" /\ UNCHANGED <<status, intent, turn, outcome, attempts, req, loop>>
      /\ Goto(r, "reply") /\ Holds(r) /\ Reports(r)
  BY DEF RelayReport, TruthInv
<1>1. RowsQuiet
  BY <1>0, RowsSame
<1>2. /\ res'[r] = IF res[r] = "executed" THEN "executed"
                   ELSE IF status[Of(r)] = "execution_failed" THEN "failed" ELSE "refused"
      /\ \A s \in Requests \ {r} : res'[s] = res[s]
  BY DEF RelayReport, ApprovalsTypeOK
<1>3. Only(r) /\ pc'[r] = "reply"
  BY <1>0, <1>2, GotoOnly
<1>4. res'[r] \in {"executed", "failed"} => status[Of(r)] \in Ran
  BY <1>0, <1>2 DEF Reports, Ran
<1>5. Fits(r)' /\ ~(Writing(r)')
  BY <1>0, <1>3, <1>4
  DEF Fits, Holds, WritesAlone, Reports, Writing, Sent, Written, Deciding, RelayWorks, Of
<1> QED BY <1>1, <1>3, <1>5, QuietMove

\* The relay claims what nobody is writing.
LEMMA ClaimTruth ==
  ASSUME OneAtATime, ApprovalsTypeOK, SafetyInv, TruthInv, NEW r \in Requests, RelayClaim(r)
  PROVE  TruthInv'
<1> DEFINE a == Of(r)
<1>0. /\ a \in Ids /\ pc[r] = "claim" /\ UNCHANGED <<intent, turn, outcome, attempts, req, loop>>
      /\ Holds(r)
  BY OfType DEF RelayClaim, TruthInv
<1>1. CASE ~Claimable(a)
  <2>1. Goto(r, "report") /\ res' = [res EXCEPT ![r] = "refused"] /\ UNCHANGED status
    BY <1>1 DEF RelayClaim
  <2>2. res'[r] = "refused" /\ \A s \in Requests \ {r} : res'[s] = res[s]
    BY <2>1 DEF ApprovalsTypeOK
  <2>3. Only(r) /\ pc'[r] = "report"
    BY <1>0, <2>1, <2>2, GotoOnly
  <2>4. Fits(r)' /\ ~(Writing(r)')
    BY <1>0, <2>2, <2>3
    DEF Fits, Holds, WritesAlone, Reports, Writing, Sent, Written, Deciding, RelayWorks, Of
  <2> QED BY <1>0, <2>1, <2>3, <2>4, RowsSame, QuietMove
<1>2. CASE Claimable(a)
  <2>1. /\ status[a] = "pending" /\ status' = [status EXCEPT ![a] = "executing"]
        /\ Goto(r, "target") /\ UNCHANGED res
    BY <1>2 DEF RelayClaim, Claimable
  <2>2. Only(r) /\ pc'[r] = "target"
    BY <1>0, <2>1, GotoOnly
  <2>3. Fits(r)' /\ ~(Writing(r)')
    BY <1>0, <2>1, <2>2
    DEF Fits, Holds, WritesAlone, Reports, Writing, Sent, Written, Deciding, RelayWorks, Of
  <2>4. status'[a] = "executing" /\ \A b \in Ids \ {a} : status'[b] = status[b] /\ RowQuiet(b)
    BY <1>0, <2>1 DEF RowQuiet, ApprovalsTypeOK
  <2>5. \A s \in Requests \ {r} : Writing(s) => Of(s) # a
    <3>1. Relayable = {} => a \in Criticals
      BY <1>0 DEF Holds, RelayWorks
    <3>2. \A s \in Requests : Writing(s) => Of(s) \notin Criticals
      BY DEF TruthInv, Holds, Writing
    <3> QED BY <3>1, <3>2 DEF OneAtATime
  <2>6. TruthRows'
    BY <1>0, <2>1, <2>4 DEF TruthInv, TruthRows, ToldTruth, TurnTold, TellsClosed, IntentFollows,
                            RanOnce, Ran
  <2> QED BY <1>0, <2>1, <2>2, <2>3, <2>4, <2>5, <2>6, LoudMove DEF Ran
<1> QED BY <1>1, <1>2

\* A target runs of which no turn was told.
LEMMA TargetTruth ==
  ASSUME ApprovalsTypeOK, SafetyInv, TruthInv, NEW r \in Requests,
         NEW x \in {"executed", "failed", "blocked"}, TargetRuns(r, x)
  PROVE  TruthInv'
<1> DEFINE a == Of(r)
<1> USE DEF rows
<1>0. /\ a \in Ids /\ pc[r] = "target" /\ UNCHANGED <<status, intent, turn, outcome, req, loop>>
      /\ Goto(r, "settle") /\ Holds(r)
  BY OfType DEF TargetRuns, TruthInv
<1>1. status[a] = "executing" /\ attempts[a] = 0 /\ outcome[a] = "none"
  BY <1>0 DEF SafetyInv, Claims, ClaimHeld, NotYetRun, TruthInv, TruthRows, TellsClosed
<1>2. /\ res'[r] = x /\ \A s \in Requests \ {r} : res'[s] = res[s]
      /\ attempts'[a] = IF x = "blocked" THEN 0 ELSE 1
      /\ \A b \in Ids \ {a} : attempts'[b] = attempts[b]
  BY <1>0, <1>1 DEF TargetRuns, ApprovalsTypeOK
<1>3. Only(r) /\ pc'[r] = "settle"
  BY <1>0, <1>2, GotoOnly
<1>4. Fits(r)' /\ ~(Writing(r)')
  BY <1>0, <1>2, <1>3
  DEF Fits, Holds, WritesAlone, Reports, Writing, Sent, Written, Deciding, RelayWorks, Of
<1>5. \A b \in Ids \ {a} : RowQuiet(b)
  BY <1>0, <1>2 DEF RowQuiet
<1>6. \A s \in Requests \ {r} : Writing(s) => Of(s) # a
  BY <1>1 DEF TruthInv, WritesAlone
<1>7. TruthRows'
  BY <1>0, <1>1, <1>2 DEF TruthInv, TruthRows, ToldTruth, TurnTold, TellsClosed, IntentFollows,
                          RanOnce, Ran
<1> QED BY <1>0, <1>1, <1>3, <1>4, <1>5, <1>6, <1>7, LoudMove

\* Of one that raised no turn was told either.
LEMMA RaiseTruth ==
  ASSUME ApprovalsTypeOK, SafetyInv, TruthInv, NEW r \in Requests, NEW ran \in BOOLEAN,
         TargetRaises(r, ran)
  PROVE  TruthInv'
<1> DEFINE a == Of(r)
<1> USE DEF rows
<1>0. /\ a \in Ids /\ pc[r] = "target" /\ UNCHANGED <<status, intent, turn, outcome>>
      /\ Done(r)
  BY OfType DEF TargetRaises
<1>1. status[a] = "executing" /\ attempts[a] = 0 /\ outcome[a] = "none"
  BY <1>0 DEF SafetyInv, Claims, ClaimHeld, NotYetRun, TruthInv, TruthRows, TellsClosed
<1>2. \A b \in Ids \ {a} : attempts'[b] = attempts[b]
  BY <1>0 DEF TargetRaises, ApprovalsTypeOK
<1>3. Only(r) /\ Fits(r)' /\ ~(Writing(r)')
  BY <1>0, DoneFits
<1>4. \A b \in Ids \ {a} : RowQuiet(b)
  BY <1>0, <1>2 DEF RowQuiet
<1>5. \A s \in Requests \ {r} : Writing(s) => Of(s) # a
  BY <1>1 DEF TruthInv, WritesAlone
<1>6. TruthRows'
  BY <1>0, <1>1, <1>2 DEF TruthInv, TruthRows, ToldTruth, TurnTold, TellsClosed, IntentFollows,
                          RanOnce, Ran
<1> QED BY <1>0, <1>1, <1>3, <1>4, <1>5, <1>6, LoudMove

\* It is settled as it ended, or handed back as it was.
LEMMA SettleTruth ==
  ASSUME ApprovalsTypeOK, SafetyInv, TruthInv, NEW r \in Requests, RelaySettle(r)
  PROVE  TruthInv'
<1> DEFINE a == Of(r)
<1>0. /\ a \in Ids /\ pc[r] = "settle"
      /\ UNCHANGED <<intent, turn, outcome, attempts, req, res, loop>>
      /\ Goto(r, "report") /\ Holds(r) /\ Reports(r)
  BY OfType DEF RelaySettle, TruthInv
<1>1. status[a] = "executing" /\ outcome[a] = "none" /\ a \notin Sends /\ intent[a] = "none"
  BY <1>0 DEF SafetyInv, Claims, ClaimHeld, TruthInv, TruthRows, TellsClosed, NeverRelaysSends,
              RelayWorks, OnlySendsHaveIntents
<1>2. /\ status'[a] = Settlement(res[r])
      /\ \A b \in Ids \ {a} : status'[b] = status[b] /\ RowQuiet(b)
  BY <1>0, <1>1 DEF RelaySettle, RowQuiet, ApprovalsTypeOK
<1>3. /\ Settlement(res[r]) \in Ran => attempts[a] = 1
      /\ res[r] = "executed" => Settlement(res[r]) = "executed"
  BY <1>0 DEF Settlement, Reports, Ran
<1>4. Only(r) /\ pc'[r] = "report"
  BY <1>0, GotoOnly
<1>5. Fits(r)' /\ ~(Writing(r)')
  BY <1>0, <1>2, <1>3, <1>4
  DEF Fits, Holds, WritesAlone, Reports, Writing, Sent, Written, Deciding, RelayWorks, Of
<1>6. \A s \in Requests \ {r} : Writing(s) => Of(s) # a
  BY <1>1 DEF TruthInv, WritesAlone
<1>7. TruthRows'
  <2>1. ToldTruth' /\ TurnTold'
    BY <1>0 DEF TruthInv, TruthRows, ToldTruth, TurnTold
  <2>2. TellsClosed' /\ IntentFollows' /\ RanOnce'
    BY <1>0, <1>1, <1>2, <1>3 DEF TruthInv, TruthRows, TellsClosed, IntentFollows, RanOnce, Touched
  <2> QED BY <2>1, <2>2 DEF TruthRows
<1> QED BY <1>0, <1>1, <1>2, <1>4, <1>5, <1>6, <1>7, LoudMove DEF Ran

\* The turn is told of a run that is on the row.
LEMMA ReplyTruth ==
  ASSUME ApprovalsTypeOK, TruthInv, NEW r \in Requests, Reply(r)
  PROVE  TruthInv'
<1> DEFINE a == Of(r)
<1>0. /\ a \in Ids /\ pc[r] = "reply" /\ UNCHANGED <<status, intent, turn, attempts>>
      /\ Done(r) /\ Reports(r)
  BY OfType DEF Reply, TruthInv
<1>1. CASE TurnHears(r)
  <2>1. outcome' = Recorded(a, res[r]) /\ res[r] \in {"executed", "failed"}
    BY <1>1 DEF Reply, TurnHears
  <2>2. status[a] \in Ran
    BY <1>0, <2>1 DEF Reports
  <2>3. attempts[a] = 1
    BY <1>0, <2>2 DEF TruthInv, TruthRows, RanOnce
  <2>4. \A s \in Requests : Writing(s) => Of(s) # a
    BY <2>2 DEF TruthInv, WritesAlone
  <2> QED BY <1>0, <2>1, <2>2, <2>3, <2>4, TellsTruth DEF Told, Ran
<1>2. CASE ~TurnHears(r)
  <2>1. RowsQuiet
    BY <1>0, <1>2, RowsSame DEF Reply
  <2> QED BY <1>0, <2>1, DoneFits, QuietMove
<1> QED BY <1>1, <1>2

----------------------------------------------------------------------------
LEMMA InitTruth == Init => TruthInv
<1> SUFFICES ASSUME Init PROVE TruthInv
  OBVIOUS
<1>1. /\ \A r \in Requests : pc[r] = "idle" /\ res[r] = "none"
      /\ \A a \in Ids : /\ status[a] = "absent" /\ intent[a] = "none" /\ turn[a] = "none"
                        /\ outcome[a] = "none" /\ attempts[a] = 0
  BY DEF Init
<1>2. TruthRows
  BY <1>1 DEF TruthRows, ToldTruth, TurnTold, TellsClosed, IntentFollows, RanOnce, Touched, Ran
<1>3. \A r \in Requests : Fits(r) /\ ~Writing(r)
  BY <1>1 DEF Fits, Holds, WritesAlone, Reports, Writing, Sent, Written, Deciding, RelayWorks
<1> QED BY <1>2, <1>3 DEF TruthInv, WritersApart, Fits

LEMMA StepTruth ==
  ASSUME OneAtATime, ApprovalsTypeOK, SafetyInv, TruthInv, [Next]_vars
  PROVE  TruthInv'
<1>1. ASSUME NEW a \in Ids, Files(a) \/ Announce(a) \/ TimeLimit(a) \/ ExpireDue(a) \/ Undo(a)
                            \/ ResumeTurn(a) \/ Continues(a)
      PROVE  TruthInv'
  BY <1>1, WorldTruth
<1>2. ASSUME NEW r \in Requests, Decides(r) PROVE TruthInv'
  BY <1>2, DecideTruth
<1>3. ASSUME NEW r \in Requests, Relays(r) PROVE TruthInv'
  BY <1>3, RelayCheckTruth, ClaimTruth, TargetTruth, RaiseTruth, SettleTruth, ReportTruth, ReplyTruth DEF Relays
<1>4. ASSUME NEW r \in Requests, Serves(r) PROVE TruthInv'
  BY <1>3, <1>4, CheckTruth, WriteTruth, RecordTruth, HoldTruth, HoldOverTruth, SentTruth DEF Serves
<1>5. CASE FlipGates \/ UNCHANGED vars
  BY <1>5, RowsSame, QuietWorld DEF FlipGates, vars, rows, work
<1>6. CASE Crash
  BY <1>6, CrashTruth
<1> QED BY <1>1, <1>2, <1>4, <1>5, <1>6 DEF Next

\* What a continued turn was told is what happened, where requests are served one at a time
\* (any number of them, of every kind, with crashes and sweeps between their steps), and
\* where any number are served at once and none of them is relayed: connector sends,
\* questions, critical actions and refusals (record_suspended_turn_outcome against
\* resolve_approval, wait_for_release and the relay).
THEOREM ToldTheTruth ==
  ASSUME OneAtATime
  PROVE  Spec => []TruthfulResume
<1>1. TruthInv => TruthfulResume
  BY DEF TruthInv, TruthRows, ToldTruth, TurnTold, TruthfulResume
<1>2. ApprovalsTypeOK /\ SafetyInv /\ TruthInv /\ [Next]_vars => TruthInv'
  BY StepTruth
<1> QED BY <1>1, <1>2, InitTruth, Safe, TypeCorrect, PTL DEF Spec

----------------------------------------------------------------------------
(***************************************************************************)
(* Why a result stands, however many requests are served at once.  It is   *)
(* told by the request that has it, alone on the loop, when the row or the *)
(* intent says so already; what is settled there is never pending again,   *)
(* so nobody starts to decide it any more, and whoever decided it before   *)
(* has spoken before: the loop takes a decision and its record in one      *)
(* stretch, and a held send is in the hands of one request.                *)
(***************************************************************************)
RanOutcomes == {"executed", "failed"}

\* A request that will tell a turn of its decision, and one that has a send in hand.
Speaks(r) == pc[r] \in Written \union {"write"}
Sending(r) == pc[r] \in {"held", "sending"} \/ (pc[r] = "record" /\ res[r] = "executed")

\* A result that was told is on the row, or on the intent of a send.
ResultOnRow(a) ==
    /\ outcome[a] = "executed" => status[a] = "executed" \/ intent[a] = "executed"
    /\ outcome[a] = "failed" => status[a] = "execution_failed"

\* The relay never touches a send's row, and its intent moves once it is decided.
SendRow(a) ==
    /\ a \in Sends => status[a] \notin {"executing", "executed", "execution_failed"}
    /\ status[a] \in {"absent", "pending"} => intent[a] \notin Touched
StandRows == \A a \in Ids : ResultOnRow(a) /\ SendRow(a)

\* What a request will tell comes before any result, or is the one on the row.
Stands(r) ==
    /\ pc[r] \in Deciding => loop = r
    /\ pc[r] \notin {"record", "settle", "report", "reply"} => res[r] = "none"
    /\ Speaks(r) => outcome[Of(r)] \notin RanOutcomes /\ status[Of(r)] # "absent"
    /\ pc[r] \in Written /\ Of(r) \in Sends => status[Of(r)] # "pending"
    /\ pc[r] = "held" => intent[Of(r)] \in {"held", "undone"}
    /\ pc[r] = "sending" => intent[Of(r)] = "executing"
    /\ pc[r] = "record" => \/ res[r] = "none"
                           \/ res[r] = "executed" /\ intent[Of(r)] = "executed"
    /\ pc[r] \in {"report", "reply"} /\ res[r] = "executed" => status[Of(r)] = "executed"
    /\ pc[r] = "reply" /\ res[r] = "failed" => status[Of(r)] = "execution_failed"

SendingApart == \A r, s \in Requests : r # s /\ Sending(r) /\ Sending(s) => Of(r) # Of(s)

StandInv == StandRows /\ SendingApart /\ \A r \in Requests : Stands(r)

\* A row that moves on without a result being told, or a send leaving its window.
StatusCalm(a) ==
    \/ status'[a] = status[a]
    \/ status[a] = "absent" /\ status'[a] = "pending"
    \/ status[a] = "pending" /\ status'[a] \in {"approved", "denied", "answered", "expired"}
    \/ /\ a \notin Sends /\ intent[a] = "none"
       /\ status[a] \in {"pending", "executing"} /\ status'[a] # "absent"
IntentCalm(a) ==
    \/ intent'[a] = intent[a]
    \/ intent[a] = "none" /\ intent'[a] = "pending_approval"
    \/ intent[a] = "pending_approval" /\ intent'[a] = "denied"
    \/ /\ intent[a] = "pending_approval" /\ intent'[a] = "held"
       /\ status[a] \notin {"absent", "pending"} /\ status'[a] = status[a]
    \/ intent[a] = "held" /\ intent'[a] = "undone"
Calm(a) ==
    /\ StatusCalm(a) /\ IntentCalm(a)
    /\ outcome'[a] = outcome[a] \/ outcome'[a] \notin RanOutcomes

\* Calm rows go on agreeing with what was told.
LEMMA CalmRows ==
  ASSUME StandRows, \A a \in Ids : Calm(a)
  PROVE  StandRows'
<1> SUFFICES ASSUME NEW a \in Ids PROVE ResultOnRow(a)' /\ SendRow(a)'
  BY DEF StandRows
<1> USE DEF StandRows, Calm
<1>1. ResultOnRow(a)'
  BY DEF ResultOnRow, StatusCalm, IntentCalm, RanOutcomes
<1>2. SendRow(a)'
  BY DEF SendRow, StatusCalm, IntentCalm, Touched
<1> QED BY <1>1, <1>2

\* A request beside a calm row goes on standing.
LEMMA BesideCalm ==
  ASSUME NEW r \in Requests, Stands(r), Stays(r), Calm(Of(r)), pc[r] \in Deciding => loop' = r
  PROVE  Stands(r)'
<1>1. pc'[r] = pc[r] /\ req'[r] = req[r] /\ res'[r] = res[r] /\ Of(r)' = Of(r)
  BY DEF Stays, Of
<1> DEFINE a == Of(r)
<1>2. /\ status[a] # "absent" => status'[a] # "absent"
      /\ a \in Sends /\ status[a] \notin {"absent", "pending"} => status'[a] # "pending"
      /\ status[a] \in {"executed", "execution_failed"} => status'[a] = status[a]
  BY DEF Calm, StatusCalm
<1>3. /\ intent[a] \in {"held", "undone"} => intent'[a] \in {"held", "undone"}
      /\ intent[a] \in {"executing", "executed"} => intent'[a] = intent[a]
  BY DEF Calm, IntentCalm
<1>4. outcome[a] \notin RanOutcomes => outcome'[a] \notin RanOutcomes
  BY DEF Calm
<1> HIDE DEF a
<1>5. Of(r) = a /\ Of(r)' = a
  BY <1>1 DEF a
<1> QED BY <1>1, <1>2, <1>3, <1>4, <1>5 DEF Stands, Speaks, Written

\* So does one that has nothing to tell, beside a row that keeps its status.
LEMMA BesideTold ==
  ASSUME NEW r \in Requests, Stands(r), Stays(r), ~Speaks(r), status'[Of(r)] = status[Of(r)],
         pc[r] \in Deciding => loop' = r
  PROVE  Stands(r)'
<1>1. pc'[r] = pc[r] /\ req'[r] = req[r] /\ res'[r] = res[r] /\ Of(r)' = Of(r)
  BY DEF Stays, Of
<1> QED BY <1>1 DEF Stands, Speaks, Written

\* A step of one request: it stands where it goes, and so do the others.
LEMMA StandStep ==
  ASSUME StandInv, NEW r \in Requests, Only(r), Stands(r)', StandRows',
         \A s \in Requests \ {r} : \/ Calm(Of(s))
                                   \/ ~Speaks(s) /\ status'[Of(s)] = status[Of(s)],
         Sending(r)' => \A s \in Requests \ {r} : Sending(s) => Of(s) # Of(r)'
  PROVE  StandInv'
<1>1. ASSUME NEW s \in Requests PROVE Stands(s)'
  <2>1. CASE s = r
    BY <2>1
  <2>2. CASE s # r
    <3>1. Stands(s) /\ Stays(s) /\ (pc[s] \in Deciding => loop' = s)
      BY <2>2 DEF StandInv, Only
    <3> QED BY <2>2, <3>1, BesideCalm, BesideTold
  <2> QED BY <2>1, <2>2
<1>2. ASSUME NEW s \in Requests, s # r PROVE (Sending(s)' <=> Sending(s)) /\ Of(s)' = Of(s)
  BY <1>2 DEF Only, Stays, Sending, Of
<1>3. SendingApart'
  <2> SUFFICES ASSUME NEW s \in Requests, NEW t \in Requests, s # t, Sending(s)', Sending(t)'
               PROVE  Of(s)' # Of(t)'
    BY DEF SendingApart
  <2>1. CASE s # r /\ t # r
    BY <1>2, <2>1 DEF StandInv, SendingApart
  <2>2. CASE s = r
    BY <1>2, <2>2
  <2>3. CASE t = r
    BY <1>2, <2>3
  <2> QED BY <2>1, <2>2, <2>3
<1> QED BY <1>1, <1>3 DEF StandInv

LEMMA CalmStep ==
  ASSUME ApprovalsTypeOK, StandInv, NEW r \in Requests, Only(r), Stands(r)',
         \A a \in Ids : Calm(a),
         Sending(r)' => \A s \in Requests \ {r} : Sending(s) => Of(s) # Of(r)'
  PROVE  StandInv'
<1>1. StandRows'
  BY CalmRows DEF StandInv
<1>2. \A s \in Requests : Calm(Of(s))
  BY OfType
<1> QED BY <1>1, <1>2, StandStep

\* A step of nobody.
LEMMA CalmWorld ==
  ASSUME ApprovalsTypeOK, StandInv, \A a \in Ids : Calm(a), UNCHANGED <<pc, req, res, loop>>
  PROVE  StandInv'
<1>1. StandRows'
  BY CalmRows DEF StandInv
<1>2. ASSUME NEW s \in Requests PROVE Stands(s)'
  <2>1. Stands(s) /\ Stays(s) /\ (pc[s] \in Deciding => loop' = s) /\ Calm(Of(s))
    BY OfType DEF StandInv, Stands, Stays
  <2> QED BY <2>1, BesideCalm
<1>3. SendingApart'
  BY DEF StandInv, SendingApart, Sending, Of
<1> QED BY <1>1, <1>2, <1>3 DEF StandInv

\* Nothing is told and nothing moves.
LEMMA SameIsCalm ==
  ASSUME UNCHANGED <<status, intent, outcome>>
  PROVE  \A a \in Ids : Calm(a)
  BY DEF Calm, StatusCalm, IntentCalm

\* A request that has answered stands, and one that goes on disturbs nobody.
LEMMA DoneStands ==
  ASSUME ApprovalsTypeOK, StandInv, NEW r \in Requests, Done(r)
  PROVE  Only(r) /\ Stands(r)' /\ ~(Sending(r)')
<1>1. pc'[r] = "idle" /\ res'[r] = "none"
  BY DEF Done, Goto, ApprovalsTypeOK
<1>2. Stands(r)' /\ ~(Sending(r)')
  BY <1>1 DEF Stands, Speaks, Sending, Written, Deciding
<1>3. \A s \in Requests \ {r} : Stays(s)
  BY DEF Done, Goto, ApprovalsTypeOK, Stays
<1>4. \A s \in Requests \ {r} : pc[s] \in Deciding => loop' = s
  BY DEF Done, Release, StandInv, Stands
<1> QED BY <1>2, <1>3, <1>4 DEF Only

LEMMA MovesAlone ==
  ASSUME ApprovalsTypeOK, StandInv, NEW r \in Requests, NEW l, Goto(r, l), UNCHANGED req,
         \A s \in Requests \ {r} : res'[s] = res[s],
         loop' = loop \/ Release(r) \/ (loop' = r /\ loop = NoRequest)
  PROVE  Only(r) /\ pc'[r] = l /\ Of(r)' = Of(r)
<1>1. \A s \in Requests \ {r} : Stays(s)
  BY DEF Goto, ApprovalsTypeOK, Stays
<1>2. \A s \in Requests \ {r} : pc[s] \in Deciding => loop' = s
  BY NoRequestIsNoRequest DEF Release, StandInv, Stands
<1> QED BY <1>1, <1>2 DEF Only, Goto, ApprovalsTypeOK, Of

\* A pending approval has been told no result.
LEMMA PendingUntold ==
  ASSUME StandInv, NEW a \in Ids, status[a] = "pending"
  PROVE  outcome[a] \notin RanOutcomes
  BY DEF StandInv, StandRows, ResultOnRow, SendRow, Touched, RanOutcomes

\* While r has the loop, or nobody has it, only a held send can still speak.
LEMMA OthersSend ==
  ASSUME StandInv, NEW r \in Requests, loop \in {NoRequest, r}, NEW s \in Requests \ {r}, Speaks(s)
  PROVE  pc[s] \in {"held", "sending"}
  BY NoRequestIsNoRequest DEF StandInv, Stands, Speaks, Written, Deciding

----------------------------------------------------------------------------
\* The turns, the sweep and the undo.
LEMMA WorldStands ==
  ASSUME ApprovalsTypeOK, StandInv, NEW a \in Ids,
         Files(a) \/ Announce(a) \/ TimeLimit(a) \/ ExpireDue(a) \/ Undo(a) \/ ResumeTurn(a) \/ Continues(a)
  PROVE  StandInv'
<1> USE DEF rows, work
<1>1. UNCHANGED <<pc, req, res, loop, outcome>>
  BY DEF Files, Propose, FileIntent, Park, Announce, TimeLimit, ExpireDue, Undo, ResumeTurn, Continues,
         ResumeEnds
<1>2. \A b \in Ids : Calm(b)
  <2>1. CASE Propose(a) \/ ExpireDue(a)
    BY <1>1, <2>1 DEF Propose, ExpireDue, Calm, StatusCalm, IntentCalm, ApprovalsTypeOK
  <2>2. CASE FileIntent(a) \/ Undo(a)
    BY <1>1, <2>2 DEF FileIntent, Undo, Calm, StatusCalm, IntentCalm, ApprovalsTypeOK
  <2>3. CASE UNCHANGED <<status, intent>>
    BY <1>1, <2>3, SameIsCalm
  <2> QED BY <2>1, <2>2, <2>3 DEF Files, Park, Announce, TimeLimit, ResumeTurn, Continues, ResumeEnds
<1> QED BY <1>1, <1>2, CalmWorld

\* The host dies, and nobody is left to tell anything.
LEMMA CrashStands ==
  ASSUME StandInv, Crash
  PROVE  StandInv'
<1> USE DEF rows
<1>1. \A r \in Requests : pc'[r] = "idle" /\ res'[r] = "none"
  BY DEF Crash
<1>2. \A r \in Requests : Stands(r)' /\ ~(Sending(r)')
  BY <1>1 DEF Stands, Speaks, Sending, Written, Deciding
<1>3. StandRows'
  BY SameIsCalm, CalmRows DEF Crash, StandInv
<1> QED BY <1>2, <1>3 DEF StandInv, SendingApart

\* A decision arrives while nobody holds the loop.
LEMMA ArrivalStands ==
  ASSUME ApprovalsTypeOK, StandInv, NEW r \in Requests, NEW a \in Ids, NEW d, NEW route,
         NEW l \in {"relay", "check"}, Arrives(r, a, d, route), Goto(r, l),
         loop' = IF l = "check" THEN r ELSE loop
  PROVE  Only(r) /\ Stands(r)' /\ ~(Sending(r)')
<1>1. pc'[r] = l /\ res'[r] = "none"
  BY DEF Arrives, Goto, ApprovalsTypeOK, StandInv, Stands
<1>2. Stands(r)' /\ ~(Sending(r)')
  BY <1>1 DEF Stands, Speaks, Sending, Written, Deciding
<1>3. \A s \in Requests \ {r} : Stays(s)
  BY DEF Arrives, Goto, ApprovalsTypeOK, Stays
<1>4. \A s \in Requests : pc[s] \notin Deciding
  BY NoRequestIsNoRequest DEF Arrives, StandInv, Stands
<1> QED BY <1>2, <1>3, <1>4 DEF Only

LEMMA DecideStands ==
  ASSUME ApprovalsTypeOK, StandInv, NEW r \in Requests, Decides(r)
  PROVE  StandInv'
<1> USE ApprovalSets DEF rows, work
<1>1. ASSUME NEW a \in Ids, NEW d \in Decisions,
             Resolve(r, a, d) \/ ChannelAnswer(r, a, d) \/ ResolveCritical(r, a, d)
      PROVE  StandInv'
  <2>1. PICK route : Arrives(r, a, d, route)
    BY <1>1 DEF Resolve, ChannelAnswer, ResolveCritical
  <2>2. (Goto(r, "relay") /\ loop' = loop) \/ (Goto(r, "check") /\ loop' = r)
    BY <1>1 DEF Resolve, ChannelAnswer, ResolveCritical, Dispatch
  <2>3. Only(r) /\ Stands(r)' /\ ~(Sending(r)')
    BY <2>1, <2>2, ArrivalStands
  <2>4. \A b \in Ids : Calm(b)
    BY <1>1, SameIsCalm DEF Resolve, ChannelAnswer, ResolveCritical, Arrives
  <2> QED BY <2>3, <2>4, CalmStep
<1>2. ASSUME NEW a \in Ids, NEW b \in Edits, Replace(r, a, b) PROVE StandInv'
  <2>1. Only(r) /\ Stands(r)' /\ ~(Sending(r)')
    BY <1>2, ArrivalStands DEF Replace
  <2>2. \A c \in Ids : Calm(c)
    BY <1>2 DEF Replace, Arrives, Calm, StatusCalm, IntentCalm, ApprovalsTypeOK
  <2> QED BY <2>1, <2>2, CalmStep
<1>3. ASSUME NEW a \in Ids, AnswerQuestion(r, a) PROVE StandInv'
  <2>1. /\ pc'[r] = "record" /\ res'[r] = "none" /\ Of(r)' = a /\ loop' = r /\ loop = NoRequest
        /\ status[a] = "pending" /\ status' = [status EXCEPT ![a] = "answered"]
        /\ UNCHANGED <<intent, outcome>>
    BY <1>3 DEF AnswerQuestion, Arrives, Goto, ApprovalsTypeOK, StandInv, Stands, Of
  <2>2. \A s \in Requests : pc[s] \notin Deciding
    BY <2>1, NoRequestIsNoRequest DEF StandInv, Stands
  <2>3. Only(r)
    BY <1>3, <2>2 DEF AnswerQuestion, Arrives, Goto, ApprovalsTypeOK, Only, Stays
  <2>4. status'[a] = "answered" /\ outcome'[a] \notin RanOutcomes
    BY <2>1, PendingUntold DEF ApprovalsTypeOK
  <2>5. Stands(r)' /\ ~(Sending(r)')
    BY <2>1, <2>4 DEF Stands, Speaks, Sending, Written
  <2>6. \A b \in Ids : Calm(b)
    BY <2>1 DEF Calm, StatusCalm, IntentCalm, ApprovalsTypeOK
  <2> QED BY <2>3, <2>5, <2>6, CalmStep
<1> QED BY <1>1, <1>2, <1>3 DEF Decides

\* What is read pending, on the loop, has been told nothing.
LEMMA CheckStands ==
  ASSUME ApprovalsTypeOK, StandInv, NEW r \in Requests, Check(r)
  PROVE  StandInv'
<1> DEFINE a == Of(r)
<1>0. a \in Ids /\ pc[r] = "check" /\ UNCHANGED <<intent, outcome>>
  BY OfType DEF Check
<1>1. \A b \in Ids : Calm(b)
  BY <1>0 DEF Check, Calm, StatusCalm, IntentCalm, ApprovalsTypeOK
<1>2. CASE Done(r)
  BY <1>1, <1>2, DoneStands, CalmStep
<1>3. CASE ~Done(r)
  <2> DEFINE l == IF req[r].route = "critical" /\ req[r].approve THEN "relay" ELSE "write"
  <2>1. status[a] = "pending" /\ Goto(r, l) /\ UNCHANGED <<status, req, res, loop>>
    BY <1>3 DEF Check
  <2>2. Only(r) /\ pc'[r] = l /\ Of(r)' = a
    BY <2>1, MovesAlone
  <2>3. outcome[a] \notin RanOutcomes /\ loop = r /\ res[r] = "none"
    BY <1>0, <2>1, PendingUntold DEF StandInv, Stands, Deciding
  <2>4. l \in {"relay", "write"}
    OBVIOUS
  <2> HIDE DEF l
  <2>5. Stands(r)' /\ ~(Sending(r)')
    BY <1>0, <2>1, <2>2, <2>3, <2>4 DEF Stands, Speaks, Sending, Written, Deciding
  <2> QED BY <1>1, <2>2, <2>5, CalmStep
<1> QED BY <1>2, <1>3

\* It is written in the same stretch.
LEMMA WriteStands ==
  ASSUME ApprovalsTypeOK, StandInv, NEW r \in Requests, Write(r)
  PROVE  StandInv'
<1> DEFINE a == Of(r)
           l == AfterWrite(r)
<1>0. /\ a \in Ids /\ pc[r] = "write" /\ UNCHANGED <<intent, outcome, req, res, loop>>
      /\ status' = Resolved(a, IF req[r].approve THEN "approved" ELSE "denied") /\ Goto(r, l)
  BY OfType DEF Write
<1>1. \A b \in Ids : Calm(b)
  BY <1>0 DEF Resolved, Calm, StatusCalm, IntentCalm, ApprovalsTypeOK
<1>2. status'[a] # "pending" /\ (status[a] # "absent" => status'[a] # "absent")
  BY <1>0 DEF Resolved, ApprovalsTypeOK
<1>3. Only(r) /\ pc'[r] = l /\ Of(r)' = a
  BY <1>0, MovesAlone
<1>4. res[r] = "none" /\ loop = r /\ outcome[a] \notin RanOutcomes /\ status[a] # "absent"
  BY <1>0 DEF StandInv, Stands, Speaks, Deciding
<1>5. l \in {"hold", "refuse_intent", "record", "reply"}
  BY DEF AfterWrite
<1> HIDE DEF l
<1>6. Stands(r)' /\ ~(Sending(r)')
  BY <1>0, <1>2, <1>3, <1>4, <1>5 DEF Stands, Speaks, Sending, Written, Deciding
<1> QED BY <1>1, <1>3, <1>6, CalmStep

\* What is told touches the told row alone.
LEMMA ToldAlone ==
  ASSUME ApprovalsTypeOK, NEW a \in Ids, NEW o, outcome' = Recorded(a, o),
         UNCHANGED <<status, intent>>
  PROVE  /\ \A b \in Ids : outcome'[b] = outcome[b] \/ (b = a /\ outcome'[b] = o)
         /\ \A b \in Ids \ {a} : Calm(b)
         /\ o \notin RanOutcomes => Calm(a)
<1>1. \A b \in Ids : outcome'[b] = outcome[b] \/ (b = a /\ outcome'[b] = o)
  BY DEF Recorded, ApprovalsTypeOK
<1> QED BY <1>1 DEF Calm, StatusCalm, IntentCalm

\* A turn is told the result on its row, while nobody else has anything to say.
LEMMA TellingStands ==
  ASSUME ApprovalsTypeOK, StandInv, NEW r \in Requests, NEW a \in Ids, NEW o \in RanOutcomes,
         outcome' = Recorded(a, o), UNCHANGED <<status, intent>>, Done(r),
         o = "executed" => status[a] = "executed" \/ intent[a] = "executed",
         o = "failed" => status[a] = "execution_failed",
         \A s \in Requests \ {r} : Speaks(s) => Of(s) # a
  PROVE  StandInv'
<1>1. Only(r) /\ Stands(r)' /\ ~(Sending(r)')
  BY DoneStands
<1>2. /\ \A b \in Ids : outcome'[b] = outcome[b] \/ (b = a /\ outcome'[b] = o)
      /\ \A b \in Ids \ {a} : Calm(b)
  BY ToldAlone
<1>3. StandRows'
  BY <1>2 DEF StandInv, StandRows, ResultOnRow, SendRow, RanOutcomes
<1>4. \A s \in Requests \ {r} : Calm(Of(s)) \/ (~Speaks(s) /\ status'[Of(s)] = status[Of(s)])
  BY <1>2, OfType
<1> QED BY <1>1, <1>3, <1>4, StandStep

LEMMA RecordStands ==
  ASSUME ApprovalsTypeOK, StandInv, NEW r \in Requests, Record(r)
  PROVE  StandInv'
<1> DEFINE a == Of(r)
           o == Answer(r)
<1>0. /\ a \in Ids /\ pc[r] = "record" /\ Done(r) /\ outcome' = Recorded(a, o)
      /\ UNCHANGED <<status, intent>> /\ Stands(r) /\ loop = r
  BY OfType DEF Record, StandInv, Stands, Deciding
<1>1. CASE o = "executed"
  <2>1. res[r] = "executed"
    BY <1>1 DEF Answer
  <2>2. intent[a] = "executed" /\ Sending(r)
    BY <1>0, <2>1 DEF Stands, Sending
  <2>3. ASSUME NEW s \in Requests \ {r}, Speaks(s) PROVE Of(s) # a
    <3>1. Sending(s)
      BY <1>0, <2>3, OthersSend DEF Sending
    <3> QED BY <2>2, <3>1 DEF StandInv, SendingApart
  <2> QED BY <1>0, <1>1, <2>2, <2>3, TellingStands DEF RanOutcomes
<1>2. CASE o # "executed"
  <2>1. o \notin RanOutcomes
    BY <1>2 DEF Answer, RanOutcomes
  <2>2. \A b \in Ids : Calm(b)
    BY <1>0, <2>1, ToldAlone
  <2> QED BY <1>0, <2>2, DoneStands, CalmStep
<1> QED BY <1>1, <1>2

\* A send goes into its window, or is refused, once it is decided.
LEMMA HoldStands ==
  ASSUME ApprovalsTypeOK, SafetyInv, StandInv, NEW r \in Requests, RefuseIntent(r) \/ Hold(r)
  PROVE  StandInv'
<1> DEFINE a == Of(r)
<1>0. /\ a \in Ids /\ pc[r] \in {"hold", "refuse_intent"} /\ UNCHANGED <<status, outcome>>
      /\ Stands(r) /\ loop = r /\ res[r] = "none"
      /\ outcome[a] \notin RanOutcomes /\ status[a] # "absent"
      /\ a \in Sends => status[a] # "pending"
  BY OfType DEF RefuseIntent, Hold, StandInv, Stands, Speaks, Written, Deciding
<1>1. intent[a] = "pending_approval" => status[a] \notin {"absent", "pending"}
  BY <1>0 DEF SafetyInv, OnlySendsHaveIntents
<1>2. \A b \in Ids : Calm(b)
  BY <1>0, <1>1 DEF RefuseIntent, Hold, Calm, StatusCalm, IntentCalm, ApprovalsTypeOK
<1>3. CASE RefuseIntent(r)
  <2>1. Only(r) /\ pc'[r] = "record" /\ Of(r)' = a /\ UNCHANGED <<res, loop>>
    BY <1>3, MovesAlone DEF RefuseIntent
  <2>2. Stands(r)' /\ ~(Sending(r)')
    BY <1>0, <2>1 DEF Stands, Speaks, Sending, Written
  <2> QED BY <1>2, <2>1, <2>2, CalmStep
<1>4. CASE Hold(r) /\ Done(r)
  BY <1>2, <1>4, DoneStands, CalmStep
<1>5. CASE Hold(r) /\ ~Done(r)
  <2>1. /\ intent[a] = "pending_approval" /\ intent' = [intent EXCEPT ![a] = "held"]
        /\ Goto(r, "held") /\ Release(r) /\ UNCHANGED <<req, res>>
    BY <1>5 DEF Hold
  <2>2. Only(r) /\ pc'[r] = "held" /\ Of(r)' = a
    BY <2>1, MovesAlone
  <2>3. intent'[a] = "held"
    BY <1>0, <2>1 DEF ApprovalsTypeOK
  <2>4. Stands(r)'
    BY <1>0, <2>1, <2>2, <2>3 DEF Stands, Speaks, Written, Deciding
  <2>5. \A s \in Requests \ {r} : Sending(s) => Of(s) # a
    BY <2>1 DEF StandInv, Stands, Sending
  <2> QED BY <1>2, <2>2, <2>4, <2>5, CalmStep
<1> QED BY <1>3, <1>4, <1>5

\* The one request that has it in hand lets it go, or finds it taken back.
LEMMA HoldOverStands ==
  ASSUME ApprovalsTypeOK, SafetyInv, StandInv, NEW r \in Requests, HoldOver(r)
  PROVE  StandInv'
<1> DEFINE a == Of(r)
<1>0. /\ a \in Ids /\ pc[r] = "held" /\ loop = NoRequest /\ UNCHANGED status
      /\ Stands(r) /\ Sending(r) /\ res[r] = "none" /\ outcome[a] \notin RanOutcomes
      /\ status[a] # "absent" /\ (a \in Sends => status[a] # "pending")
  BY OfType DEF HoldOver, StandInv, Stands, Speaks, Sending, Written
<1>1. CASE ~Releasable(a)
  <2>1. outcome' = Recorded(a, "not_run") /\ Done(r) /\ UNCHANGED intent
    BY <1>1 DEF HoldOver
  <2>2. \A b \in Ids : Calm(b)
    BY <1>0, <2>1, ToldAlone DEF RanOutcomes
  <2> QED BY <2>1, <2>2, DoneStands, CalmStep
<1>2. CASE Releasable(a)
  <2>1. /\ intent[a] = "held" /\ intent' = [intent EXCEPT ![a] = "executing"]
        /\ Goto(r, "sending") /\ UNCHANGED <<req, res, loop, outcome>>
    BY <1>2 DEF HoldOver, Releasable
  <2>2. Only(r) /\ pc'[r] = "sending" /\ Of(r)' = a
    BY <2>1, MovesAlone
  <2>3. intent'[a] = "executing" /\ \A b \in Ids \ {a} : Calm(b)
    BY <1>0, <2>1 DEF Calm, StatusCalm, IntentCalm, ApprovalsTypeOK
  <2>4. Stands(r)'
    BY <1>0, <2>1, <2>2, <2>3 DEF Stands, Speaks, Written, Deciding
  <2>5. a \in Sends
    BY <1>0, <2>1 DEF SafetyInv, OnlySendsHaveIntents
  <2>6. StandRows'
    <3>1. ASSUME NEW b \in Ids \ {a} PROVE intent'[b] = intent[b]
      BY <2>1 DEF ApprovalsTypeOK
    <3> QED BY <1>0, <2>1, <2>3, <2>5, <3>1
        DEF StandInv, StandRows, ResultOnRow, SendRow, RanOutcomes, Touched
  <2>7. \A s \in Requests \ {r} : Sending(s) => Of(s) # a
    BY <1>0 DEF StandInv, SendingApart
  <2>8. ASSUME NEW s \in Requests \ {r}
        PROVE  Calm(Of(s)) \/ (~Speaks(s) /\ status'[Of(s)] = status[Of(s)])
    <3>1. Speaks(s) => Sending(s)
      BY <1>0, OthersSend DEF Sending
    <3> QED BY <1>0, <2>3, <2>7, <3>1, OfType
  <2> QED BY <2>2, <2>4, <2>6, <2>7, <2>8, StandStep
<1> QED BY <1>1, <1>2

LEMMA SendStands ==
  ASSUME ApprovalsTypeOK, SafetyInv, StandInv, NEW r \in Requests, NEW x \in SendEndings, SendEnds(r, x)
  PROVE  StandInv'
<1> DEFINE a == Of(r)
<1>0. /\ a \in Ids /\ pc[r] = "sending" /\ loop = NoRequest /\ UNCHANGED <<status, outcome>>
      /\ intent' = [intent EXCEPT ![a] = x] /\ Stands(r) /\ Sending(r)
      /\ outcome[a] \notin RanOutcomes /\ status[a] \notin {"absent", "pending"}
  BY OfType DEF SendEnds, StandInv, Stands, Speaks, Sending, Written, SafetyInv, SendersSend
<1>1. intent'[a] = x /\ \A b \in Ids \ {a} : intent'[b] = intent[b] /\ Calm(b)
  BY <1>0 DEF Calm, StatusCalm, IntentCalm, ApprovalsTypeOK
<1>2. StandRows'
  BY <1>0, <1>1 DEF StandInv, StandRows, ResultOnRow, SendRow, RanOutcomes
<1>3. \A s \in Requests \ {r} : Sending(s) => Of(s) # a
  BY <1>0 DEF StandInv, SendingApart
<1>4. ASSUME NEW s \in Requests \ {r}
      PROVE  Calm(Of(s)) \/ (~Speaks(s) /\ status'[Of(s)] = status[Of(s)])
  <2>1. Speaks(s) => Sending(s)
    BY <1>0, OthersSend DEF Sending
  <2> QED BY <1>0, <1>1, <1>3, <2>1, OfType
<1>5. Only(r) /\ Stands(r)' /\ (Sending(r)' => Of(r)' = a)
  <2>1. CASE Done(r)
    BY <2>1, DoneStands
  <2>2. CASE ~Done(r)
    <3>1. /\ x = "executed" /\ Goto(r, "record") /\ loop' = r /\ UNCHANGED req
          /\ res' = [res EXCEPT ![r] = x]
      BY <2>2 DEF SendEnds
    <3>2. res'[r] = "executed" /\ \A s \in Requests \ {r} : res'[s] = res[s]
      BY <3>1 DEF ApprovalsTypeOK
    <3>3. Only(r) /\ pc'[r] = "record" /\ Of(r)' = a
      BY <1>0, <3>1, <3>2, MovesAlone
    <3>4. Stands(r)'
      BY <1>0, <1>1, <3>1, <3>2, <3>3 DEF Stands, Speaks, Written
    <3> QED BY <3>3, <3>4
  <2> QED BY <2>1, <2>2
<1> QED BY <1>2, <1>3, <1>4, <1>5, StandStep

----------------------------------------------------------------------------
\* The relay's steps up to its report: a claim and a settlement move a row that is no
\* send's, and a result is reported once it is on the row.
LEMMA RelayStands ==
  ASSUME ApprovalsTypeOK, SafetyInv, StandInv, NEW r \in Requests,
         RelayCheck(r) \/ RelayClaim(r) \/ RelaySettle(r)
  PROVE  StandInv'
<1> DEFINE a == Of(r)
<1>0. /\ a \in Ids \ Sends /\ pc[r] \in {"relay", "claim", "settle"}
      /\ UNCHANGED <<intent, outcome, req, loop>> /\ Stands(r)
  BY OfType DEF RelayCheck, RelayClaim, RelaySettle, StandInv, SafetyInv, NeverRelaysSends, RelayWorks
<1>1. intent[a] = "none"
  BY <1>0 DEF SafetyInv, OnlySendsHaveIntents
<1>2. \A b \in Ids : Calm(b)
  <2>1. CASE RelayCheck(r)
    BY <1>0, <2>1 DEF RelayCheck, Resolved, Calm, StatusCalm, IntentCalm, ApprovalsTypeOK
  <2>2. CASE RelayClaim(r)
    BY <1>0, <1>1, <2>2 DEF RelayClaim, Claimable, Calm, StatusCalm, IntentCalm, ApprovalsTypeOK
  <2>3. CASE RelaySettle(r)
    <3>1. Settlement(res[r]) # "absent"
      BY DEF Settlement
    <3> QED BY <1>0, <1>1, <2>3, <3>1 DEF RelaySettle, Calm, StatusCalm, IntentCalm, ApprovalsTypeOK
  <2> QED BY <2>1, <2>2, <2>3
<1>3. CASE RelayCheck(r) \/ RelayClaim(r)
  <2>1. PICK l \in {"claim", "target", "report"} : Goto(r, l)
    BY <1>3 DEF RelayCheck, RelayClaim
  <2>2. /\ l # "report" => res'[r] = "none"
        /\ res'[r] \in {"none", "refused"} /\ \A s \in Requests \ {r} : res'[s] = res[s]
    <3>1. res[r] = "none"
      BY <1>0, <1>3 DEF RelayCheck, RelayClaim, Stands
    <3>2. res' = res \/ (Goto(r, "report") /\ res' = [res EXCEPT ![r] = "refused"])
      BY <1>3 DEF RelayCheck, RelayClaim
    <3>3. Goto(r, "report") => l = "report"
      BY <2>1 DEF Goto, ApprovalsTypeOK
    <3> QED BY <3>1, <3>2, <3>3 DEF ApprovalsTypeOK
  <2>3. Only(r) /\ pc'[r] = l
    BY <1>0, <2>1, <2>2, MovesAlone
  <2>4. Stands(r)' /\ ~(Sending(r)')
    BY <2>2, <2>3 DEF Stands, Speaks, Sending, Written, Deciding
  <2> QED BY <1>2, <2>3, <2>4, CalmStep
<1>4. CASE RelaySettle(r)
  <2>1. Goto(r, "report") /\ res' = res /\ pc[r] = "settle"
    BY <1>4 DEF RelaySettle
  <2>2. Only(r) /\ pc'[r] = "report" /\ Of(r)' = a
    BY <1>0, <2>1, MovesAlone
  <2>3. status[a] = "executing"
    BY <2>1 DEF SafetyInv, Claims, ClaimHeld
  <2>4. res[r] = "executed" => status'[a] = "executed"
    BY <1>0, <1>4, <2>3 DEF RelaySettle, Settlement, ApprovalsTypeOK
  <2>5. Stands(r)' /\ ~(Sending(r)')
    BY <2>1, <2>2, <2>4 DEF Stands, Speaks, Sending, Written, Deciding
  <2> QED BY <1>2, <2>2, <2>5, CalmStep
<1> QED BY <1>3, <1>4

LEMMA ReportStands ==
  ASSUME ApprovalsTypeOK, StandInv, NEW r \in Requests,
         \/ \E x \in {"executed", "failed", "blocked"} : TargetRuns(r, x)
         \/ \E ran \in BOOLEAN : TargetRaises(r, ran)
         \/ RelayReport(r)
  PROVE  StandInv'
<1> USE DEF rows
<1>0. \A b \in Ids : Calm(b)
  BY SameIsCalm DEF TargetRuns, TargetRaises, RelayReport
<1>1. CASE \E ran \in BOOLEAN : TargetRaises(r, ran)
  BY <1>0, <1>1, DoneStands, CalmStep DEF TargetRaises
<1>2. ASSUME NEW x \in {"executed", "failed", "blocked"}, TargetRuns(r, x) PROVE StandInv'
  <2>1. \A s \in Requests \ {r} : res'[s] = res[s]
    BY <1>2 DEF TargetRuns, ApprovalsTypeOK
  <2>2. Only(r) /\ pc'[r] = "settle"
    BY <1>2, <2>1, MovesAlone DEF TargetRuns
  <2>3. Stands(r)' /\ ~(Sending(r)')
    BY <2>2 DEF Stands, Speaks, Sending, Written, Deciding
  <2> QED BY <1>0, <2>2, <2>3, CalmStep
<1>3. CASE RelayReport(r)
  <2>1. /\ res'[r] = IF res[r] = "executed" THEN "executed"
                     ELSE IF status[Of(r)] = "execution_failed" THEN "failed" ELSE "refused"
        /\ \A s \in Requests \ {r} : res'[s] = res[s]
    BY <1>3 DEF RelayReport, ApprovalsTypeOK
  <2>2. Only(r) /\ pc'[r] = "reply" /\ Of(r)' = Of(r) /\ status' = status
    BY <1>3, <2>1, MovesAlone DEF RelayReport
  <2>3. res[r] = "executed" => status[Of(r)] = "executed"
    BY <1>3 DEF RelayReport, StandInv, Stands
  <2>4. Stands(r)' /\ ~(Sending(r)')
    BY <2>1, <2>2, <2>3 DEF Stands, Speaks, Sending, Written, Deciding
  <2> QED BY <1>0, <2>2, <2>4, CalmStep
<1> QED BY <1>1, <1>2, <1>3

\* Back on the loop, it tells the turn what is on the row.
LEMMA ReplyStands ==
  ASSUME ApprovalsTypeOK, SafetyInv, StandInv, NEW r \in Requests, Reply(r)
  PROVE  StandInv'
<1> DEFINE a == Of(r)
<1>0. /\ a \in Ids /\ pc[r] = "reply" /\ loop \in {NoRequest, r} /\ Done(r)
      /\ UNCHANGED <<status, intent>> /\ Stands(r)
  BY OfType DEF Reply, StandInv
<1>1. CASE ~TurnHears(r)
  BY <1>0, <1>1, SameIsCalm, DoneStands, CalmStep DEF Reply
<1>2. CASE TurnHears(r)
  <2>1. outcome' = Recorded(a, res[r]) /\ res[r] \in RanOutcomes
    BY <1>2 DEF Reply, TurnHears, RanOutcomes
  <2>2. /\ res[r] = "executed" => status[a] = "executed"
        /\ res[r] = "failed" => status[a] = "execution_failed"
    BY <1>0 DEF Stands
  <2>3. ASSUME NEW s \in Requests \ {r}, Speaks(s) PROVE Of(s) # a
    <3>1. pc[s] \in {"held", "sending"}
      BY <1>0, <2>3, OthersSend
    <3>2. intent[Of(s)] \in {"held", "undone", "executing"}
      BY <3>1 DEF StandInv, Stands
    <3>3. Of(s) \in Sends
      BY <3>2, OfType DEF SafetyInv, OnlySendsHaveIntents
    <3>4. status[Of(s)] \notin {"executed", "execution_failed"}
      BY <3>3, OfType DEF StandInv, StandRows, SendRow
    <3> QED BY <3>4, <2>1, <2>2 DEF RanOutcomes
  <2> QED BY <1>0, <2>1, <2>2, <2>3, TellingStands
<1> QED BY <1>1, <1>2

----------------------------------------------------------------------------
LEMMA InitStands == Init => StandInv
<1> SUFFICES ASSUME Init PROVE StandInv
  OBVIOUS
<1>1. /\ \A r \in Requests : pc[r] = "idle" /\ res[r] = "none"
      /\ \A a \in Ids : status[a] = "absent" /\ intent[a] = "none" /\ outcome[a] = "none"
  BY DEF Init
<1>2. StandRows
  BY <1>1 DEF StandRows, ResultOnRow, SendRow, Touched
<1>3. \A r \in Requests : Stands(r) /\ ~Sending(r)
  BY <1>1 DEF Stands, Speaks, Sending, Written, Deciding
<1> QED BY <1>2, <1>3 DEF StandInv, SendingApart

LEMMA StepStands ==
  ASSUME ApprovalsTypeOK, SafetyInv, StandInv, [Next]_vars
  PROVE  StandInv'
<1>1. ASSUME NEW a \in Ids, Files(a) \/ Announce(a) \/ TimeLimit(a) \/ ExpireDue(a) \/ Undo(a)
                            \/ ResumeTurn(a) \/ Continues(a)
      PROVE  StandInv'
  BY <1>1, WorldStands
<1>2. ASSUME NEW r \in Requests, Decides(r) PROVE StandInv'
  BY <1>2, DecideStands
<1>3. ASSUME NEW r \in Requests, Relays(r) PROVE StandInv'
  BY <1>3, RelayStands, ReportStands, ReplyStands DEF Relays
<1>4. ASSUME NEW r \in Requests, Serves(r) PROVE StandInv'
  BY <1>3, <1>4, CheckStands, WriteStands, RecordStands, HoldStands, HoldOverStands, SendStands
  DEF Serves
<1>5. CASE FlipGates \/ UNCHANGED vars
  BY <1>5, SameIsCalm, CalmWorld DEF FlipGates, vars, rows, work
<1>6. CASE Crash
  BY <1>6, CrashStands
<1> QED BY <1>1, <1>2, <1>4, <1>5, <1>6 DEF Next

\* A turn that was told its action ran is told nothing else, for any number of
\* tabs and channels deciding the same approval, of every kind, with undo, the
\* sweep, raising executors and crashes between their steps: whoever would
\* write another outcome (record_suspended_turn_outcome has no condition on the
\* outcome) has found the row settled before it decided.
THEOREM ResultsStand == Spec => ResultStands
<1>1. ASSUME ApprovalsTypeOK, SafetyInv, StandInv, [Next]_vars
      PROVE  [\A a \in Ids : outcome[a] \in {"executed", "failed"} => outcome'[a] = outcome[a]]_vars
  <2> SUFFICES ASSUME NEW a \in Ids, outcome[a] \in RanOutcomes, Next
               PROVE  outcome'[a] = outcome[a]
    BY <1>1 DEF RanOutcomes
  <2> USE <1>1 DEF rows
  <2>1. \A b \in Ids : \A o : outcome' = Recorded(b, o) => outcome'[a] = outcome[a] \/ (b = a /\ outcome'[a] = o)
    BY DEF Recorded, ApprovalsTypeOK
  <2>2. ASSUME NEW r \in Requests, Record(r) \/ HoldOver(r)
        PROVE  outcome'[a] = outcome[a]
    <3>1. Of(r) # a
      BY <2>2 DEF Record, HoldOver, StandInv, Stands, Speaks, Written
    <3> QED BY <2>1, <2>2, <3>1, OfType DEF Record, HoldOver
  <2>3. ASSUME NEW r \in Requests, Reply(r)
        PROVE  outcome'[a] = outcome[a]
    <3>1. CASE ~TurnHears(r)
      BY <2>3, <3>1 DEF Reply
    <3>2. CASE TurnHears(r) /\ Of(r) # a
      BY <2>1, <2>3, <3>2, OfType DEF Reply
    <3>3. CASE TurnHears(r) /\ Of(r) = a
      <4>1. /\ res[r] \in RanOutcomes
            /\ res[r] = "executed" => status[a] = "executed"
            /\ res[r] = "failed" => status[a] = "execution_failed"
        BY <2>3, <3>3 DEF Reply, TurnHears, RanOutcomes, StandInv, Stands
      <4>2. status[a] = "executed" \/ status[a] = "execution_failed"
        BY <4>1 DEF RanOutcomes
      <4>3. intent[a] = "none"
        BY <4>2 DEF StandInv, StandRows, SendRow, SafetyInv, OnlySendsHaveIntents
      <4>4. outcome[a] = res[r]
        BY <4>1, <4>3 DEF StandInv, StandRows, ResultOnRow, RanOutcomes
      <4> QED BY <2>1, <2>3, <3>3, <4>4 DEF Reply
    <3> QED BY <3>1, <3>2, <3>3
  <2>4. ASSUME NEW r \in Requests, Decides(r) PROVE outcome' = outcome
    BY <2>4 DEF Decides, Resolve, ChannelAnswer, ResolveCritical, Replace, AnswerQuestion, Arrives
  <2>5. ASSUME NEW r \in Requests,
               \/ Check(r) \/ Write(r) \/ RefuseIntent(r) \/ Hold(r)
               \/ \E x \in SendEndings : SendEnds(r, x)
               \/ RelayCheck(r) \/ RelayClaim(r) \/ RelaySettle(r) \/ RelayReport(r)
               \/ \E x \in {"executed", "failed", "blocked"} : TargetRuns(r, x)
               \/ \E ran \in BOOLEAN : TargetRaises(r, ran)
        PROVE  outcome' = outcome
    BY <2>5 DEF Check, Write, RefuseIntent, Hold, SendEnds, RelayCheck, RelayClaim, RelaySettle,
                RelayReport, TargetRuns, TargetRaises
  <2>6. ASSUME NEW b \in Ids, Files(b) \/ Announce(b) \/ TimeLimit(b) \/ ExpireDue(b)
                              \/ Undo(b) \/ ResumeTurn(b) \/ Continues(b)
        PROVE  outcome' = outcome
    BY <2>6 DEF Files, Propose, FileIntent, Park, Announce, TimeLimit, ExpireDue, Undo, ResumeTurn,
                Continues, ResumeEnds
  <2>7. ASSUME FlipGates \/ Crash PROVE outcome' = outcome
    BY <2>7 DEF FlipGates, Crash
  <2> QED BY <2>2, <2>3, <2>4, <2>5, <2>6, <2>7 DEF Next, Serves, Relays
<1> QED BY <1>1, InitStands, StepStands, Safe, TypeCorrect, PTL DEF Spec, ResultStands

=============================================================================
