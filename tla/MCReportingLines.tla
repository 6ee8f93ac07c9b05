---- MODULE MCReportingLines ----
(***************************************************************************)
(* Three employees, four rows, two days, two racing requests.              *)
(***************************************************************************)
EXTENDS ReportingLines, TLC

Symmetry == Permutations(Employees) \cup Permutations(Calls)
====
