------------------------ MODULE MCEmploymentLifecycle ------------------------
(***************************************************************************)
(* Instances of EmploymentLifecycle.  Conversions and calls are            *)
(* interchangeable.                                                        *)
(***************************************************************************)
EXTENDS EmploymentLifecycle, TLC

Symmetry == Permutations(Applications) \cup Permutations(Calls)
=============================================================================
