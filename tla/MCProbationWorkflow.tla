------------------------- MODULE MCProbationWorkflow -------------------------
(***************************************************************************)
(* The instance of ProbationWorkflow that TLC checks: two records of one   *)
(* period, two rounds of approval, two calls.                              *)
(***************************************************************************)
EXTENDS ProbationWorkflow, TLC

Symmetry ==
  Permutations(Records) \cup Permutations(Requests) \cup Permutations(Users)
    \cup Permutations(Calls)
=============================================================================
