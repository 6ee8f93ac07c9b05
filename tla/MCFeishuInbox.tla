---------------------------- MODULE MCFeishuInbox ----------------------------
(***************************************************************************)
(* Instances of FeishuInbox: two scores and a workflow step of one         *)
(* executor.                                                               *)
(***************************************************************************)
EXTENDS FeishuInbox, TLC
==============================================================================
