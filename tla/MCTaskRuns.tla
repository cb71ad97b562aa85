----------------------------- MODULE MCTaskRuns -----------------------------
(***************************************************************************)
(* Instances of TaskRuns for TLC: which coroutines each host runs.         *)
(***************************************************************************)
EXTENDS TaskRuns, TLC

CONSTANTS t1, t2, t3, h1, tick, nudge, resume

\* A host as instance_runtime starts it: the tick's pass, the nudge's pass and
\* the continuation worker.
OneHost == (tick :> h1) @@ (nudge :> h1) @@ (resume :> h1)

\* The same host while no nudge arrives, or while nothing waits for approval.
OnePass == (tick :> h1) @@ (resume :> h1)
TwoPasses == (tick :> h1) @@ (nudge :> h1)
=============================================================================
