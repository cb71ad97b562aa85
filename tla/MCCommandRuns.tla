---------------------------- MODULE MCCommandRuns ----------------------------
(* Small instances of CommandRuns for TLC. *)
EXTENDS CommandRuns

=============================================================================
