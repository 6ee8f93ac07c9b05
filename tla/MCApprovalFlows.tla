--------------------------- MODULE MCApprovalFlows ---------------------------
(***************************************************************************)
(* Instances of ApprovalFlows.  Definitions, node lists and calls are      *)
(* interchangeable.                                                        *)
(***************************************************************************)
EXTENDS ApprovalFlows, TLC

Symmetry ==
  Permutations(Definitions) \cup Permutations(NodeLists) \cup Permutations(Calls)
=============================================================================
