--------------------------- MODULE ApprovalRuntime ---------------------------
(***************************************************************************)
(* The serial approval runtime of the employment domain                    *)
(* (backend/src/employment-approvals/employment-approval-runtime.service). *)
(*                                                                         *)
(* A business record (an employment conversion or a part-time record) is   *)
(* submitted together with an ApprovalRequest whose ApprovalSteps are      *)
(* decided one after the other.  Every operation is one database           *)
(* transaction at READ COMMITTED: it reads the request row, then the steps *)
(* (two statements), decides from what it read, and finally issues         *)
(* conditional updates that re-check the current rows.  The model keeps    *)
(* that shape: a call in flight holds what it has read, other calls commit *)
(* in between, and the commit evaluates every WHERE clause on the rows of  *)
(* that moment.  A conditional update that does not match exactly one row  *)
(* throws, which rolls the whole transaction back.                         *)
(*                                                                         *)
(* Collapsing the writes of a transaction into its commit is sound here:   *)
(* a row a write has matched stays locked until the commit, so it still    *)
(* matches then, and nothing a transaction wrote is visible before.        *)
(***************************************************************************)
EXTENDS Naturals

CONSTANTS
  Users,            \* accounts: applicants and approvers
  Conversions,      \* ids of EmploymentConversion rows
  PartTimeRecords,  \* ids of PartTimeRecord rows
  Requests,         \* ids of ApprovalRequest rows
  Calls,            \* API calls that may be in flight at the same time
  MaxSteps,         \* bound: nodes of the longest approval flow
  None              \* the SQL NULL

Business == Conversions \cup PartTimeRecords

ASSUME RuntimeAssumption ==
  /\ MaxSteps \in Nat \ {0}
  /\ Conversions \cap PartTimeRecords = {}
  /\ None \notin Users \cup Business \cup Requests

Steps == 1 .. MaxSteps

\* "ABSENT" stands for a row that does not exist yet.
ProcessStatus == {"ABSENT", "PENDING", "APPROVED", "REJECTED", "WITHDRAWN", "COMPLETED"}
ApplicationStatus ==
  {"ABSENT", "DRAFT", "PENDING", "REJECTED", "WITHDRAWN", "PENDING_EFFECTIVE", "COMPLETED"}
BusinessStatus == ApplicationStatus \cup {"ACTIVE", "ENDED"}
Decision == {"PENDING", "APPROVED", "REJECTED", "SKIPPED"}
Operation == {"approve", "return", "reject", "withdraw", "activate"}

RequestRow ==
  [status : ProcessStatus, employment : ApplicationStatus, current : Steps, last : Steps,
   applicant : Users \cup {None}, business : Business \cup {None}]
BusinessRow == [status : BusinessStatus, request : Requests \cup {None}]
CallRecord ==
  [phase : {"idle", "loaded", "ready"}, op : Operation, request : Requests \cup {None},
   user : Users \cup {None}, current : Steps, next : 0 .. MaxSteps]

VARIABLES
  request,   \* request[r]: the ApprovalRequest row
  approver,  \* approver[r][k]: approverUserId of step k
  decision,  \* decision[r][k]: decision of step k
  business,  \* business[b]: status and approvalRequestId of a business row
  call       \* call[c]: the transaction in flight and what it has read

vars == <<request, approver, decision, business, call>>

NoRequest ==
  [status |-> "ABSENT", employment |-> "ABSENT", current |-> 1, last |-> 1,
   applicant |-> None, business |-> None]
NoBusiness == [status |-> "ABSENT", request |-> None]
Idle == [phase |-> "idle", op |-> "approve", request |-> None, user |-> None,
         current |-> 1, next |-> 0]

StepsOf(r) == 1 .. request[r].last

Pending(r) == request[r].status = "PENDING" /\ request[r].employment = "PENDING"

\* What a business row becomes when its owner makes the application effective.
EffectiveStatus(b) == IF b \in Conversions THEN "COMPLETED" ELSE "ACTIVE"

-----------------------------------------------------------------------------
Init ==
  /\ request = [r \in Requests |-> NoRequest]
  /\ approver = [r \in Requests |-> [k \in Steps |-> None]]
  /\ decision = [r \in Requests |-> [k \in Steps |-> "PENDING"]]
  /\ business = [b \in Business |-> NoBusiness]
  /\ call = [c \in Calls |-> Idle]

(***************************************************************************)
(* createRequestInTransaction, called by the owner of business row b in    *)
(* the transaction that creates b.  The published flow version has n nodes *)
(* and resolveApprover has turned each into one active user.               *)
(***************************************************************************)
InsertRequest(r, b, applicant, n, approvers) ==
  /\ request[r].status = "ABSENT"
  /\ request' = [request EXCEPT ![r] =
       [status |-> "PENDING", employment |-> "PENDING", current |-> 1, last |-> n,
        applicant |-> applicant, business |-> b]]
  /\ approver' = [approver EXCEPT ![r] = approvers]

CreateRequest(r, b) ==
  /\ business[b].status = "ABSENT"
  /\ \E applicant \in Users, n \in Steps :
       \E resolved \in [1 .. n -> Users] :
         InsertRequest(r, b, applicant, n,
                       [k \in Steps |-> IF k <= n THEN resolved[k] ELSE None])
  /\ business' = [business EXCEPT ![b] = [status |-> "PENDING", request |-> r]]
  /\ UNCHANGED <<decision, call>>

-----------------------------------------------------------------------------
(***************************************************************************)
(* The reads of a decision.  getPendingRequest loads the request row;      *)
(* the included steps come from a second statement.                        *)
(***************************************************************************)
LoadRequest(c, op, u, r) ==
  /\ call[c].phase = "idle"
  /\ Pending(r)
  /\ op = "withdraw" => request[r].applicant = u
  /\ call' = [call EXCEPT ![c] =
       [phase |-> "loaded", op |-> op, request |-> r, user |-> u,
        current |-> request[r].current, next |-> 0]]
  /\ UNCHANGED <<request, approver, decision, business>>

\* getCurrentPendingStep and assertCurrentApprover, on the step the row read named.
ActsOnCurrentStep(c) ==
  LET r == call[c].request IN
  /\ call[c].current \in StepsOf(r)
  /\ decision[r][call[c].current] = "PENDING"
  /\ approver[r][call[c].current] = call[c].user

\* Mutant: the applicant may withdraw whatever has been decided.
NothingDecidedUnchecked(r) == TRUE

NothingDecided(r) == \A k \in StepsOf(r) : decision[r][k] = "PENDING"

\* Mutant: the last pending step is taken for the next one.
LastPendingStep(r, current) ==
  LET later == {k \in StepsOf(r) : k > current /\ decision[r][k] = "PENDING"} IN
  IF later = {} THEN 0 ELSE CHOOSE k \in later : \A j \in later : j <= k

\* Mutant: off by one, the step right after the current one is overlooked.
OverlooksNextStep(r, current) ==
  LET later == {k \in StepsOf(r) : k > current + 1 /\ decision[r][k] = "PENDING"} IN
  IF later = {} THEN 0 ELSE CHOOSE k \in later : \A j \in later : k <= j

\* The first later step still pending, 0 when the current one is the last.
NextPendingStep(r, current) ==
  LET later == {k \in StepsOf(r) : k > current /\ decision[r][k] = "PENDING"} IN
  IF later = {} THEN 0 ELSE CHOOSE k \in later : \A j \in later : k <= j

LoadStepsToDecide(c) ==
  /\ call[c].phase = "loaded"
  /\ call[c].op # "withdraw"
  /\ ActsOnCurrentStep(c)
  /\ call' = [call EXCEPT ![c].phase = "ready",
                          ![c].next = NextPendingStep(call[c].request, call[c].current)]
  /\ UNCHANGED <<request, approver, decision, business>>

LoadStepsToWithdraw(c) ==
  /\ call[c].phase = "loaded"
  /\ call[c].op = "withdraw"
  /\ NothingDecided(call[c].request)
  /\ call' = [call EXCEPT ![c].phase = "ready"]
  /\ UNCHANGED <<request, approver, decision, business>>

-----------------------------------------------------------------------------
(***************************************************************************)
(* The conditional writes.                                                 *)
(***************************************************************************)
\* decideStep: the step must still be PENDING.
DecideStep(r, k, d) ==
  /\ decision[r][k] = "PENDING"
  /\ decision' = [decision EXCEPT ![r][k] = d]

\* Mutant: the business row is forgotten.
BusinessForgotten(r, target) == UNCHANGED business

\* syncBusinessStatus: the business row must still be PENDING under this request.
SyncBusinessStatus(r, target) ==
  LET b == request[r].business IN
  /\ business[b].request = r
  /\ business[b].status = "PENDING"
  /\ business' = [business EXCEPT ![b].status = target]

\* closePendingRequest: still pending, and at the step that was read.
ClosePendingRequest(c, status, employment) ==
  LET r == call[c].request IN
  /\ Pending(r)
  /\ request[r].current = call[c].current
  /\ request' = [request EXCEPT ![r].status = status, ![r].employment = employment]

\* Mutant: the request stays at the step just approved.
StaysAtStep(c) == Pending(call[c].request) /\ UNCHANGED request

\* The same condition guards the update that moves to the next step.
AdvanceStep(c) ==
  LET r == call[c].request IN
  /\ Pending(r)
  /\ request[r].current = call[c].current
  /\ request' = [request EXCEPT ![r].current = call[c].next]

Ready(c, op) == call[c].phase = "ready" /\ call[c].op = op

Finish(c) == call' = [call EXCEPT ![c] = Idle]

\* Mutant: the final step is handled like the others.
ApprovesFinalStepLikeOthers(c) ==
  /\ Ready(c, "approve")
  /\ DecideStep(call[c].request, call[c].current, "APPROVED")
  /\ AdvanceStep(c)
  /\ Finish(c)
  /\ UNCHANGED <<approver, business>>

ApproveStep(c) ==
  /\ Ready(c, "approve")
  /\ call[c].next # 0
  /\ DecideStep(call[c].request, call[c].current, "APPROVED")
  /\ AdvanceStep(c)
  /\ Finish(c)
  /\ UNCHANGED <<approver, business>>

ApproveFinalStep(c) ==
  /\ Ready(c, "approve")
  /\ call[c].next = 0
  /\ DecideStep(call[c].request, call[c].current, "APPROVED")
  /\ SyncBusinessStatus(call[c].request, "PENDING_EFFECTIVE")
  /\ ClosePendingRequest(c, "APPROVED", "PENDING_EFFECTIVE")
  /\ Finish(c)
  /\ UNCHANGED approver

\* Mutant: sending back resets the steps for the next round.
ReturnResetsSteps(c) ==
  /\ Ready(c, "return")
  /\ decision[call[c].request][call[c].current] = "PENDING"
  /\ decision' = [decision EXCEPT ![call[c].request] = [k \in Steps |-> "PENDING"]]
  /\ SyncBusinessStatus(call[c].request, "DRAFT")
  /\ ClosePendingRequest(c, "WITHDRAWN", "DRAFT")
  /\ Finish(c)
  /\ UNCHANGED approver

ReturnForRevision(c) ==
  /\ Ready(c, "return")
  /\ DecideStep(call[c].request, call[c].current, "SKIPPED")
  /\ SyncBusinessStatus(call[c].request, "DRAFT")
  /\ ClosePendingRequest(c, "WITHDRAWN", "DRAFT")
  /\ Finish(c)
  /\ UNCHANGED approver

Reject(c) ==
  /\ Ready(c, "reject")
  /\ DecideStep(call[c].request, call[c].current, "REJECTED")
  /\ SyncBusinessStatus(call[c].request, "REJECTED")
  /\ ClosePendingRequest(c, "REJECTED", "REJECTED")
  /\ Finish(c)
  /\ UNCHANGED approver

\* withdraw leaves the steps alone: only the request row tells a racing approver.
Withdraw(c) ==
  /\ Ready(c, "withdraw")
  /\ SyncBusinessStatus(call[c].request, "WITHDRAWN")
  /\ ClosePendingRequest(c, "WITHDRAWN", "WITHDRAWN")
  /\ Finish(c)
  /\ UNCHANGED <<approver, decision>>

-----------------------------------------------------------------------------
(***************************************************************************)
(* Activation by the owner of the business row.  The owner reads its row   *)
(* and the request, then in one transaction moves the row out of           *)
(* PENDING_EFFECTIVE and calls completeEffectiveInTransaction.             *)
(***************************************************************************)
LoadForActivation(c, u, b) ==
  LET r == business[b].request IN
  /\ call[c].phase = "idle"
  /\ business[b].status = "PENDING_EFFECTIVE"
  /\ request[r].status = "APPROVED"
  /\ request[r].employment = "PENDING_EFFECTIVE"
  /\ call' = [call EXCEPT ![c] =
       [phase |-> "ready", op |-> "activate", request |-> r, user |-> u,
        current |-> request[r].current, next |-> 0]]
  /\ UNCHANGED <<request, approver, decision, business>>

\* assertFinalApproval
FinallyApproved(r) ==
  /\ request[r].status = "APPROVED"
  /\ request[r].current = request[r].last
  /\ \A k \in StepsOf(r) : decision[r][k] = "APPROVED"

CompleteEffective(r) ==
  /\ request[r].employment = "PENDING_EFFECTIVE"
  /\ FinallyApproved(r)
  /\ request' = [request EXCEPT ![r].status = "COMPLETED", ![r].employment = "COMPLETED"]

Activate(c) ==
  LET r == call[c].request
      b == request[r].business
  IN
  /\ Ready(c, "activate")
  /\ business[b].status = "PENDING_EFFECTIVE"
  /\ business' = [business EXCEPT ![b].status = EffectiveStatus(b)]
  /\ CompleteEffective(r)
  /\ Finish(c)
  /\ UNCHANGED <<approver, decision>>

-----------------------------------------------------------------------------
(***************************************************************************)
(* A call ends without effect: a check or a conditional update threw, the  *)
(* interactive transaction timed out, or the process died.                 *)
(***************************************************************************)
RollBack(c) ==
  /\ call[c].phase # "idle"
  /\ Finish(c)
  /\ UNCHANGED <<request, approver, decision, business>>

Read(c) ==
  \/ \E op \in Operation \ {"activate"}, u \in Users, r \in Requests : LoadRequest(c, op, u, r)
  \/ LoadStepsToDecide(c)
  \/ LoadStepsToWithdraw(c)
  \/ \E u \in Users, b \in Business : LoadForActivation(c, u, b)

Commit(c) ==
  \/ ApproveStep(c)
  \/ ApproveFinalStep(c)
  \/ ReturnForRevision(c)
  \/ Reject(c)
  \/ Withdraw(c)
  \/ Activate(c)

Next ==
  \/ \E r \in Requests, b \in Business : CreateRequest(r, b)
  \/ \E c \in Calls : Read(c) \/ Commit(c) \/ RollBack(c)

Spec == Init /\ [][Next]_vars

-----------------------------------------------------------------------------
(***************************************************************************)
(* Properties                                                              *)
(***************************************************************************)
\* Every variable keeps its shape; a call that is not idle names a request
\* and a user.
TypeOK ==
  /\ request \in [Requests -> RequestRow]
  /\ approver \in [Requests -> [Steps -> Users \cup {None}]]
  /\ decision \in [Requests -> [Steps -> Decision]]
  /\ business \in [Business -> BusinessRow]
  /\ call \in [Calls -> CallRecord]
  /\ \A c \in Calls : call[c].phase # "idle" => call[c].request \in Requests

Submitted == {r \in Requests : request[r].status # "ABSENT"}

\* The status a business row shows while its request has this employmentStatus.
StatusShown(b, employment) ==
  IF employment = "COMPLETED" THEN EffectiveStatus(b) ELSE employment

\* The business row and its approval request never disagree, although they are
\* two tables that eight different transactions update: each row names the
\* other, and the business status is the one the request's status stands for
\* (syncBusinessStatus and the owners' activate).
BusinessFollowsRequest ==
  /\ \A b \in Business :
       business[b].status # "ABSENT" =>
         /\ business[b].request \in Submitted
         /\ request[business[b].request].business = b
  /\ \A r \in Submitted :
       LET b == request[r].business IN
       /\ b \in Business
       /\ business[b].request = r
       /\ business[b].status = StatusShown(b, request[r].employment)

\* The statuses of a submitted request, with the decision of its current step.
Outcomes ==
  {<<"PENDING", "PENDING", "PENDING">>,
   <<"APPROVED", "PENDING_EFFECTIVE", "APPROVED">>, <<"COMPLETED", "COMPLETED", "APPROVED">>,
   <<"REJECTED", "REJECTED", "REJECTED">>, <<"WITHDRAWN", "DRAFT", "SKIPPED">>,
   <<"WITHDRAWN", "WITHDRAWN", "PENDING">>}

DecidedInOrder ==
  \A r \in Submitted :
    /\ request[r].current <= request[r].last
    /\ \A k \in StepsOf(r) :
         /\ k < request[r].current => decision[r][k] = "APPROVED"
         /\ k > request[r].current => decision[r][k] = "PENDING"

CurrentStepRecorded ==
  \A r \in Submitted :
    <<request[r].status, request[r].employment, decision[r][request[r].current]>> \in Outcomes

\* Approval is serial: before the current step everything is approved, after it
\* nothing is decided, and the current step carries the decision the request's
\* statuses record (decideStep against the updates of currentStep and status).
SerialDecisions == DecidedInOrder /\ CurrentStepRecorded

\* A withdrawal never erases a decision: the applicant may withdraw only while
\* no step is decided, and an approval that commits between the check of
\* withdraw and its update makes the update fail.
WithdrawnUndecided ==
  \A r \in Requests :
    request[r].employment = "WITHDRAWN" => \A k \in StepsOf(r) : decision[r][k] = "PENDING"

\* A business row is waiting to take effect, or has taken effect, only when every
\* step of its request was approved.
EffectiveOnlyIfUnanimous ==
  \A b \in Business :
    business[b].status \in {"PENDING_EFFECTIVE", "COMPLETED", "ACTIVE"} =>
      \A k \in StepsOf(business[b].request) : decision[business[b].request][k] = "APPROVED"

\* A pending request always has a step that is open and has an approver: there is
\* no interleaving after which nobody can move it.
PendingHasOpenStep ==
  \A r \in Requests :
    Pending(r) => /\ request[r].current \in StepsOf(r)
                  /\ decision[r][request[r].current] = "PENDING"
                  /\ approver[r][request[r].current] \in Users

\* A decision once committed is never changed or taken back.
DecisionsAreFinal ==
  [][\A r \in Requests, k \in Steps :
       decision[r][k] # "PENDING" => decision'[r][k] = decision[r][k]]_vars

\* A request that was rejected, withdrawn, returned or completed is history: no
\* call that read it before it was closed can still move it.
ClosedRequestsStayClosed ==
  [][\A r \in Requests :
       request[r].status \in {"REJECTED", "WITHDRAWN", "COMPLETED"} =>
         /\ request'[r] = request[r]
         /\ decision'[r] = decision[r]]_vars

-----------------------------------------------------------------------------
(***************************************************************************)
(* The inductive invariant behind these properties.                        *)
(***************************************************************************)
\* A row that does not exist yet has no status of either kind and no history.
AbsentStatus ==
  \A r \in Requests : request[r].status = "ABSENT" <=> request[r].employment = "ABSENT"

AbsentUndecided ==
  \A r \in Requests :
    request[r].status = "ABSENT" => \A k \in Steps : decision[r][k] = "PENDING"

ApproversNamed ==
  \A r \in Submitted : \A k \in StepsOf(r) : approver[r][k] \in Users

\* Final approval happens at the last step.
ApprovedAtLastStep ==
  \A r \in Submitted :
    request[r].status \in {"APPROVED", "COMPLETED"} => request[r].current = request[r].last

\* What a call has read is never ahead of the row, and what it concluded from its
\* reads is still right if the row has not moved.
CallsConsistent ==
  \A c \in Calls :
    LET r == call[c].request IN
    call[c].phase # "idle" =>
      /\ r \in Submitted
      /\ call[c].current <= request[r].current
      /\ call[c].phase = "ready" /\ call[c].op = "approve" =>
           call[c].next = IF call[c].current = request[r].last THEN 0 ELSE call[c].current + 1
      /\ call[c].phase = "ready" /\ call[c].op = "withdraw" => call[c].current = 1

\* The conjunction that every step of the runtime preserves.
RuntimeInv ==
  /\ TypeOK
  /\ AbsentStatus
  /\ AbsentUndecided
  /\ ApproversNamed
  /\ BusinessFollowsRequest
  /\ SerialDecisions
  /\ WithdrawnUndecided
  /\ ApprovedAtLastStep
  /\ CallsConsistent

-----------------------------------------------------------------------------
(***************************************************************************)
(* The runtime implements SerialApproval.  The state of an application is  *)
(* read off the BUSINESS row, its approvals off the steps.                 *)
(***************************************************************************)
Outcome(status) ==
  CASE status = "PENDING" -> "pending"
    [] status = "PENDING_EFFECTIVE" -> "approved"
    [] status = "REJECTED" -> "rejected"
    [] status = "DRAFT" -> "returned"
    [] status = "WITHDRAWN" -> "withdrawn"
    [] OTHER -> "effective"

StateOf(r) ==
  IF request[r].status = "ABSENT" THEN "absent"
  ELSE Outcome(business[request[r].business].status)

ApprovedSteps(r) == {k \in StepsOf(r) : decision[r][k] = "APPROVED"}

Abstract == INSTANCE SerialApproval WITH
  Applications <- Requests,
  state <- [r \in Requests |-> StateOf(r)],
  size <- [r \in Requests |-> request[r].last],
  approved <- [r \in Requests |-> ApprovedSteps(r)]

\* Tables, stale reads and racing transactions included, the runtime behaves as
\* the atomic serial approval of SerialApproval.
ImplementsSerialApproval == Abstract!AbsSpec
=============================================================================
