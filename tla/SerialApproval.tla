--------------------------- MODULE SerialApproval ---------------------------
(***************************************************************************)
(* What the approval runtime promises, without tables, transactions or     *)
(* stale reads: an application is approved one step at a time, in order;   *)
(* it can be rejected or returned while it is pending, withdrawn only      *)
(* while nothing has been decided; only a unanimously approved             *)
(* application takes effect, once; every outcome but "approved" is final.  *)
(* (docs/EMPLOYMENT_BUSINESS_RULES.md sections 4.2 to 4.4 describe it.)    *)
(***************************************************************************)
EXTENDS Naturals

CONSTANTS
  Applications,  \* submitted applications
  MaxSteps       \* bound: approval steps of one application

VARIABLES
  state,     \* state[a]: where application a stands
  size,      \* size[a]: number of approval steps of a
  approved   \* approved[a]: the steps approved so far

absVars == <<state, size, approved>>

States ==
  {"absent", "pending", "approved", "rejected", "returned", "withdrawn", "effective"}

AbsInit ==
  /\ state = [a \in Applications |-> "absent"]
  /\ size = [a \in Applications |-> 1]
  /\ approved = [a \in Applications |-> {}]

Submit(a, n) ==
  /\ state[a] = "absent"
  /\ state' = [state EXCEPT ![a] = "pending"]
  /\ size' = [size EXCEPT ![a] = n]
  /\ UNCHANGED approved

\* Step k is approved after all the steps before it; the last one settles it.
Approve(a, k) ==
  /\ state[a] = "pending"
  /\ approved[a] = 1 .. (k - 1)
  /\ approved' = [approved EXCEPT ![a] = 1 .. k]
  /\ state' = [state EXCEPT ![a] = IF k = size[a] THEN "approved" ELSE "pending"]
  /\ UNCHANGED size

\* The current approver turns the application down or sends it back.
TurnDown(a, outcome) ==
  /\ state[a] = "pending"
  /\ state' = [state EXCEPT ![a] = outcome]
  /\ UNCHANGED <<size, approved>>

WithdrawUndecided(a) ==
  /\ state[a] = "pending"
  /\ approved[a] = {}
  /\ state' = [state EXCEPT ![a] = "withdrawn"]
  /\ UNCHANGED <<size, approved>>

TakeEffect(a) ==
  /\ state[a] = "approved"
  /\ approved[a] = 1 .. size[a]
  /\ state' = [state EXCEPT ![a] = "effective"]
  /\ UNCHANGED <<size, approved>>

AbsNext ==
  \E a \in Applications :
    \/ \E n \in 1 .. MaxSteps : Submit(a, n)
    \/ \E k \in 1 .. size[a] : Approve(a, k)
    \/ \E outcome \in {"rejected", "returned"} : TurnDown(a, outcome)
    \/ WithdrawUndecided(a)
    \/ TakeEffect(a)

AbsSpec == AbsInit /\ [][AbsNext]_absVars
=============================================================================
