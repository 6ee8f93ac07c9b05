-------------------------- MODULE MCPartTimeRecords --------------------------
(***************************************************************************)
(* Instances of PartTimeRecords.  Records of different duties never meet,  *)
(* so one duty is enough.  Records and calls are interchangeable.          *)
(***************************************************************************)
EXTENDS PartTimeRecords, TLC

Symmetry == Permutations(Applications) \cup Permutations(Calls)
=============================================================================
