--------------------------- MODULE CommandReceipts ---------------------------
(***************************************************************************)
(* What the command service promises about receipts, with no threads, no   *)
(* supervisor and no restarts: a process is launched at most once, ends    *)
(* once, and a run is settled once.  The receipt names what the process    *)
(* really did, or says that nobody knows (lost), or that the process never *)
(* started (contained).  CommandRuns implements this specification.        *)
(***************************************************************************)

CONSTANTS
    Runs,        \* command runs
    Outcomes     \* the ways a process can end

VARIABLES
    outcome,     \* "none" before the launch, "running", or one of Outcomes
    receipt      \* "none" until the run is settled

vars == <<outcome, receipt>>

Init ==
    /\ outcome = [r \in Runs |-> "none"]
    /\ receipt = [r \in Runs |-> "none"]

\* A contained run stays unlaunched.  A lost one may still be launched: lost is an
\* admission of not knowing.
Launch(r) ==
    /\ outcome[r] = "none"
    /\ receipt[r] # "contained"
    /\ outcome' = [outcome EXCEPT ![r] = "running"]
    /\ UNCHANGED receipt

\* Processes end: one by itself, or several at once when the host shuts down.
End ==
    /\ outcome' \in [Runs -> {"none", "running"} \cup Outcomes]
    /\ \A r \in Runs : \/ outcome'[r] = outcome[r]
                       \/ outcome[r] = "running" /\ outcome'[r] \in Outcomes
    /\ UNCHANGED receipt

Settle(r) ==
    /\ receipt[r] = "none"
    /\ \E v \in Outcomes \cup {"lost", "contained"} :
          /\ v \in Outcomes => v = outcome[r]
          /\ v = "contained" => outcome[r] = "none"
          /\ receipt' = [receipt EXCEPT ![r] = v]
    /\ UNCHANGED outcome

Next ==
    \/ \E r \in Runs : Launch(r)
    \/ \E r \in Runs : Settle(r)
    \/ End

Spec == Init /\ [][Next]_vars
=============================================================================
