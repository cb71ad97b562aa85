------------------------------ MODULE MCGoals ------------------------------
(***************************************************************************)
(* A small plan for TLC: two steps that can go at once, and one that needs *)
(* the first.  Version 1 of the profile pays for one run, version 2 for    *)
(* two.                                                                    *)
(***************************************************************************)
EXTENDS Goals

Fork == [s \in Steps |-> IF s = 3 THEN {1} ELSE {}]
FirstTwo == [c \in Criteria |-> {1, 2}]
OneMoreRun == [v \in Profiles |-> v]
=============================================================================
