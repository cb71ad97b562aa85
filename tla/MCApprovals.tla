---------------------------- MODULE MCApprovals ----------------------------
(***************************************************************************)
(* Instances of Approvals for TLC: a file write, a connector send, a       *)
(* question, a critical action and a reviewer's edit, in the combinations  *)
(* the configurations choose.                                              *)
(***************************************************************************)
EXTENDS Approvals

CONSTANTS write, send, question, critical, edit, r1, r2
=============================================================================
