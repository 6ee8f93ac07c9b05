-------------------------- MODULE MCApprovalRuntime --------------------------
(***************************************************************************)
(* The instance of ApprovalRuntime that TLC checks: one request of up to   *)
(* three steps, created for a conversion or for a part-time record, and    *)
(* two calls in flight.  Requests share no row, so races need only one.    *)
(***************************************************************************)
EXTENDS ApprovalRuntime
=============================================================================
