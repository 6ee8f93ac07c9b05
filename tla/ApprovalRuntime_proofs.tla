----------------------- MODULE ApprovalRuntime_proofs -----------------------
(***************************************************************************)
(* Proofs about the approval runtime, for any number of users, requests,   *)
(* business rows, concurrent calls and steps.                              *)
(*                                                                         *)
(* The argument: RuntimeInv is inductive (one step per action); every      *)
(* safety invariant of the module is one of its conjuncts or follows from  *)
(* it; the refinement of SerialApproval uses it to read the abstract state *)
(* off the business row.                                                   *)
(***************************************************************************)
EXTENDS ApprovalRuntime, TLAPS

-----------------------------------------------------------------------------
(***************************************************************************)
(* Lemmas about the reads                                                  *)
(***************************************************************************)
\* In a request whose decisions are serial, the next pending step after an open
\* step is the one that follows it, or none when the open step is the last.
LEMMA NextPendingIsSuccessor ==
  ASSUME RuntimeInv, NEW r \in Submitted, NEW n \in StepsOf(r),
         decision[r][n] = "PENDING", n <= request[r].current
  PROVE  NextPendingStep(r, n) = IF n = request[r].last THEN 0 ELSE n + 1
<1> DEFINE later == {k \in StepsOf(r) : k > n /\ decision[r][k] = "PENDING"}
<1>1. /\ request[r].last \in Nat /\ request[r].current \in Nat /\ n \in Nat
      /\ n <= request[r].last
  BY RuntimeAssumption DEF RuntimeInv, TypeOK, RequestRow, Submitted, StepsOf, Steps
<1>2. \A k \in StepsOf(r) : k > n => decision[r][k] = "PENDING"
  BY <1>1 DEF RuntimeInv, SerialDecisions, DecidedInOrder, StepsOf
<1>3. later = (n + 1) .. request[r].last
  BY <1>1, <1>2 DEF StepsOf
<1>4. CASE n = request[r].last
  BY <1>1, <1>3, <1>4 DEF NextPendingStep
<1>5. CASE n # request[r].last
  <2>1. n + 1 \in later /\ \A j \in later : n + 1 <= j
    BY <1>1, <1>3, <1>5
  <2>2. \A k \in later : (\A j \in later : k <= j) => k = n + 1
    BY <1>1, <1>3, <2>1
  <2>3. (CHOOSE k \in later : \A j \in later : k <= j) = n + 1
    BY <2>1, <2>2
  <2> QED BY <2>1, <2>3, <1>5 DEF NextPendingStep
<1> QED BY <1>4, <1>5

\* A row keeps its shape when an update writes legal values into it.
LEMMA RowUpdates ==
  /\ \A row \in RequestRow, status \in ProcessStatus, employment \in ApplicationStatus :
       [row EXCEPT !.status = status, !.employment = employment] \in RequestRow
  /\ \A row \in RequestRow, n \in Steps : [row EXCEPT !.current = n] \in RequestRow
BY DEF RequestRow

\* The step a call in flight has read is a step of a submitted request.
LEMMA CallFacts ==
  ASSUME RuntimeInv, NEW c \in Calls, call[c].phase # "idle"
  PROVE  /\ call[c].request \in Requests
         /\ call[c].request \in Submitted
         /\ call[c].current \in StepsOf(call[c].request)
         /\ call[c].current \in Steps
         /\ call[c].current <= request[call[c].request].current
         /\ request[call[c].request].current \in Nat
         /\ request[call[c].request].last \in Steps
         /\ request[call[c].request].current <= request[call[c].request].last
         /\ request[call[c].request].business \in Business
BY RuntimeAssumption
   DEF RuntimeInv, TypeOK, RequestRow, CallRecord, CallsConsistent, SerialDecisions, DecidedInOrder, BusinessFollowsRequest,
       Submitted, StepsOf, Steps

-----------------------------------------------------------------------------
(***************************************************************************)
(* The initial state                                                       *)
(***************************************************************************)
LEMMA RuntimeInvInit == Init => RuntimeInv
<1> SUFFICES ASSUME Init PROVE RuntimeInv
  OBVIOUS
<1> USE DEF Init, NoRequest, NoBusiness, Idle, Submitted
<1>1. TypeOK
  BY RuntimeAssumption
     DEF TypeOK, RequestRow, BusinessRow, CallRecord, Steps, ProcessStatus, ApplicationStatus,
         BusinessStatus, Decision, Operation
<1>2. AbsentStatus /\ AbsentUndecided /\ ApproversNamed /\ CallsConsistent
  BY DEF AbsentStatus, AbsentUndecided, ApproversNamed, CallsConsistent
<1>3. BusinessFollowsRequest /\ SerialDecisions
  BY DEF BusinessFollowsRequest, SerialDecisions, DecidedInOrder, CurrentStepRecorded
<1>4. WithdrawnUndecided /\ ApprovedAtLastStep
  BY DEF WithdrawnUndecided, ApprovedAtLastStep
<1> QED BY <1>1, <1>2, <1>3, <1>4 DEF RuntimeInv

-----------------------------------------------------------------------------
(***************************************************************************)
(* One lemma per kind of step                                              *)
(***************************************************************************)
\* createRequestInTransaction with the insertion of the business row.
LEMMA CreateRequestPreserves ==
  ASSUME RuntimeInv, NEW r \in Requests, NEW b \in Business, CreateRequest(r, b)
  PROVE  RuntimeInv'
<1>a. /\ TypeOK /\ AbsentStatus /\ AbsentUndecided /\ ApproversNamed
      /\ BusinessFollowsRequest /\ SerialDecisions /\ WithdrawnUndecided /\ ApprovedAtLastStep
      /\ CallsConsistent
  BY DEF RuntimeInv
<1>1. PICK u \in Users, n \in Steps : \E resolved \in [1 .. n -> Users] :
        InsertRequest(r, b, u, n, [k \in Steps |-> IF k <= n THEN resolved[k] ELSE None])
  BY DEF CreateRequest
<1>2. PICK resolved \in [1 .. n -> Users] :
        InsertRequest(r, b, u, n, [k \in Steps |-> IF k <= n THEN resolved[k] ELSE None])
  BY <1>1
<1>3. /\ request[r].status = "ABSENT"
      /\ request' = [request EXCEPT ![r] =
           [status |-> "PENDING", employment |-> "PENDING", current |-> 1, last |-> n,
            applicant |-> u, business |-> b]]
      /\ approver' = [approver EXCEPT ![r] =
           [k \in Steps |-> IF k <= n THEN resolved[k] ELSE None]]
      /\ business[b].status = "ABSENT"
      /\ business' = [business EXCEPT ![b] = [status |-> "PENDING", request |-> r]]
      /\ UNCHANGED <<decision, call>>
  BY <1>2 DEF CreateRequest, InsertRequest
<1>4. n \in Nat /\ 1 <= n /\ n <= MaxSteps /\ 1 \in Steps
  BY RuntimeAssumption DEF Steps
<1>5. /\ request'[r] = [status |-> "PENDING", employment |-> "PENDING", current |-> 1,
                          last |-> n, applicant |-> u, business |-> b]
       /\ \A s \in Requests : s # r => request'[s] = request[s] /\ approver'[s] = approver[s]
       /\ decision' = decision
  BY <1>a, <1>3, <1>a DEF TypeOK
<1>6. Submitted' = Submitted \cup {r} /\ r \notin Submitted
  BY <1>a, <1>3 DEF Submitted, TypeOK
<1>7. TypeOK'
  <2>1. [k \in Steps |-> IF k <= n THEN resolved[k] ELSE None] \in [Steps -> Users \cup {None}]
    BY <1>4 DEF Steps
  <2> QED BY <1>a, <1>3, <1>4, <2>1 DEF TypeOK, RequestRow, BusinessRow, ProcessStatus, ApplicationStatus, BusinessStatus
<1>8. AbsentStatus' /\ AbsentUndecided'
  BY <1>a, <1>3 DEF AbsentStatus, AbsentUndecided, TypeOK
<1>9. ApproversNamed'
  <2> SUFFICES ASSUME NEW s \in Submitted', NEW k \in 1 .. request'[s].last
               PROVE  approver'[s][k] \in Users
    BY DEF ApproversNamed, StepsOf
  <2>1. CASE s = r
    <3>1. k \in 1 .. n /\ k \in Steps
      BY <1>4, <1>5, <2>1, RuntimeAssumption DEF Steps
    <3>2. approver'[r][k] = resolved[k]
      BY <1>a, <1>3, <1>4, <3>1 DEF TypeOK
    <3> QED BY <2>1, <3>1, <3>2
  <2>2. CASE s # r
    BY <1>a, <1>3, <1>6, <2>2 DEF ApproversNamed, TypeOK, StepsOf, Submitted
  <2> QED BY <2>1, <2>2
<1>10. \A s \in Submitted : request[s].business # b
  BY <1>a, <1>3 DEF BusinessFollowsRequest, StatusShown, EffectiveStatus, AbsentStatus, Submitted
<1>11. BusinessFollowsRequest'
  BY <1>a, <1>3, <1>6, <1>10 DEF BusinessFollowsRequest, TypeOK, StatusShown, EffectiveStatus, Submitted
<1>12. SerialDecisions'
  <2> SUFFICES ASSUME NEW s \in Submitted'
               PROVE  /\ request'[s].current <= request'[s].last
                      /\ \A k \in 1 .. request'[s].last :
                           /\ k < request'[s].current => decision'[s][k] = "APPROVED"
                           /\ k > request'[s].current => decision'[s][k] = "PENDING"
                      /\ <<request'[s].status, request'[s].employment, decision'[s][request'[s].current]>>
                           \in Outcomes
    BY DEF SerialDecisions, DecidedInOrder, CurrentStepRecorded, StepsOf
  <2>1. CASE s = r
    <3>2. \A k \in Steps : decision'[r][k] = "PENDING"
      BY <1>a, <1>3 DEF AbsentUndecided
    <3> QED BY <1>4, <1>5, <2>1, <3>2, RuntimeAssumption DEF Steps, Outcomes
  <2>2. CASE s # r
    <3>1. s \in Submitted /\ request'[s] = request[s] /\ decision'[s] = decision[s]
      BY <1>a, <1>3, <1>6, <2>2 DEF TypeOK, Submitted
    <3> QED BY <1>a, <3>1 DEF SerialDecisions, DecidedInOrder, CurrentStepRecorded, StepsOf
  <2> QED BY <2>1, <2>2
<1>13. WithdrawnUndecided'
  BY <1>a, <1>3 DEF WithdrawnUndecided, TypeOK, StepsOf
<1>15. ApprovedAtLastStep'
  BY <1>a, <1>5, <1>6 DEF ApprovedAtLastStep, Submitted
<1>14. CallsConsistent'
  BY <1>a, <1>3, <1>6 DEF CallsConsistent, TypeOK, Submitted
<1> QED BY <1>7, <1>8, <1>9, <1>11, <1>12, <1>13, <1>14, <1>15 DEF RuntimeInv

\* A step that only touches the calls keeps everything but, perhaps, the calls.
LEMMA CallOnly ==
  ASSUME RuntimeInv, UNCHANGED <<request, approver, decision, business>>
  PROVE  /\ Submitted' = Submitted
         /\ AbsentStatus' /\ AbsentUndecided' /\ ApproversNamed'
         /\ BusinessFollowsRequest' /\ SerialDecisions' /\ WithdrawnUndecided'
         /\ ApprovedAtLastStep'
<1>1. Submitted' = Submitted
  BY DEF Submitted
<1>2. AbsentStatus' /\ AbsentUndecided' /\ ApproversNamed' /\ WithdrawnUndecided'
      /\ ApprovedAtLastStep'
  BY <1>1 DEF RuntimeInv, AbsentStatus, AbsentUndecided, ApproversNamed, StepsOf, WithdrawnUndecided,
                   ApprovedAtLastStep
<1>3. BusinessFollowsRequest'
  BY <1>1 DEF RuntimeInv, BusinessFollowsRequest, StatusShown
<1>4. SerialDecisions'
  BY <1>1 DEF RuntimeInv, SerialDecisions, DecidedInOrder, CurrentStepRecorded, StepsOf
<1> QED BY <1>1, <1>2, <1>3, <1>4

LEMMA LoadRequestPreserves ==
  ASSUME RuntimeInv, NEW c \in Calls, NEW op \in Operation \ {"activate"}, NEW u \in Users,
         NEW r \in Requests, LoadRequest(c, op, u, r)
  PROVE  RuntimeInv'
<1>1. r \in Submitted
  BY DEF LoadRequest, Pending, Submitted
<1>2. TypeOK'
  <2>1. [phase |-> "loaded", op |-> op, request |-> r, user |-> u,
         current |-> request[r].current, next |-> 0] \in CallRecord
    BY RuntimeAssumption DEF RuntimeInv, TypeOK, RequestRow, CallRecord
  <2> QED BY <2>1 DEF RuntimeInv, TypeOK, LoadRequest
<1>3. CallsConsistent'
  <2>1. /\ call'[c].request = r /\ call'[c].current = request[r].current
        /\ call'[c].phase = "loaded" /\ request' = request
        /\ \A d \in Calls : d # c => call'[d] = call[d]
    BY DEF RuntimeInv, TypeOK, LoadRequest
  <2>2. request[r].current <= request[r].current
    BY <1>1 DEF RuntimeInv, TypeOK, RequestRow, Steps
  <2> QED BY <1>1, <2>1, <2>2 DEF RuntimeInv, CallsConsistent, Submitted
<1> QED BY <1>2, <1>3, CallOnly DEF RuntimeInv, LoadRequest

LEMMA LoadStepsToDecidePreserves ==
  ASSUME RuntimeInv, NEW c \in Calls, LoadStepsToDecide(c)
  PROVE  RuntimeInv'
<1> DEFINE r == call[c].request
           n == call[c].current
<1>1. r \in Submitted /\ n \in StepsOf(r) /\ decision[r][n] = "PENDING"
      /\ n <= request[r].current /\ n \in Steps /\ r \in Requests /\ request[r].last \in Steps
  BY CallFacts DEF LoadStepsToDecide, ActsOnCurrentStep
<1>2. NextPendingStep(r, n) = IF n = request[r].last THEN 0 ELSE n + 1
  BY <1>1, NextPendingIsSuccessor
<1>3. NextPendingStep(r, n) \in 0 .. MaxSteps
  BY <1>1, <1>2, RuntimeAssumption DEF Steps, StepsOf
<1>4. /\ call' = [call EXCEPT ![c] = [call[c] EXCEPT !.phase = "ready",
                                                    !.next = NextPendingStep(r, n)]]
      /\ UNCHANGED <<request, approver, decision, business>>
  BY DEF LoadStepsToDecide, RuntimeInv, TypeOK
<1>5. TypeOK'
  <2>1. [call[c] EXCEPT !.phase = "ready", !.next = NextPendingStep(r, n)] \in CallRecord
    BY <1>3 DEF RuntimeInv, TypeOK, CallRecord
  <2> QED BY <1>1, <1>4, <2>1 DEF RuntimeInv, TypeOK
<1>6. CallsConsistent'
  <2>1. /\ call'[c].request = r /\ call'[c].current = n /\ call'[c].op = call[c].op
        /\ call'[c].next = NextPendingStep(r, n) /\ request' = request
        /\ call[c].op # "withdraw"
        /\ \A d \in Calls : d # c => call'[d] = call[d]
    BY <1>4 DEF RuntimeInv, TypeOK, LoadStepsToDecide
  <2> QED BY <1>1, <1>2, <2>1 DEF RuntimeInv, CallsConsistent, Submitted
<1> QED BY <1>4, <1>5, <1>6, CallOnly DEF RuntimeInv

LEMMA LoadStepsToWithdrawPreserves ==
  ASSUME RuntimeInv, NEW c \in Calls, LoadStepsToWithdraw(c)
  PROVE  RuntimeInv'
<1> DEFINE r == call[c].request
<1>1. /\ r \in Submitted /\ r \in Requests /\ NothingDecided(r)
      /\ call[c].current <= request[r].current /\ call[c].current \in Steps
      /\ request[r].current \in Nat /\ request[r].last \in Steps
      /\ request[r].current <= request[r].last
  BY CallFacts DEF LoadStepsToWithdraw
<1>2. call[c].current = 1
  <2>1. ~ (1 < request[r].current)
    BY <1>1, RuntimeAssumption
       DEF RuntimeInv, SerialDecisions, DecidedInOrder, NothingDecided, StepsOf, Steps
  <2> QED BY <1>1, <2>1, RuntimeAssumption DEF Steps
<1>3. TypeOK'
  BY DEF RuntimeInv, TypeOK, CallRecord, LoadStepsToWithdraw
<1>4. CallsConsistent'
  BY <1>1, <1>2 DEF RuntimeInv, TypeOK, CallsConsistent, LoadStepsToWithdraw, Submitted
<1> QED BY <1>3, <1>4, CallOnly DEF RuntimeInv, LoadStepsToWithdraw

\* The idle call is well-formed.
LEMMA IdleIsACall ==
  Idle \in CallRecord
BY RuntimeAssumption DEF Idle, CallRecord, Operation, Steps

\* The end of a call frees it; what other calls have read stays consistent when no
\* row goes backwards.
LEMMA FinishKeepsCalls ==
  ASSUME RuntimeInv, NEW c \in Calls, Finish(c),
         \A s \in Submitted : /\ s \in Submitted'
                              /\ request'[s].last = request[s].last
                              /\ request[s].current <= request'[s].current,
         \A s \in Submitted : request'[s].current \in Nat
  PROVE  CallsConsistent'
<1>1. call'[c].phase = "idle" /\ \A d \in Calls : d # c => call'[d] = call[d]
  BY DEF Finish, Idle, RuntimeInv, TypeOK
<1> SUFFICES ASSUME NEW d \in Calls, call'[d].phase # "idle"
             PROVE  LET s == call'[d].request IN
                    /\ s \in Submitted'
                    /\ call'[d].current <= request'[s].current
                    /\ call'[d].phase = "ready" /\ call'[d].op = "approve" =>
                         call'[d].next =
                           IF call'[d].current = request'[s].last THEN 0 ELSE call'[d].current + 1
                    /\ call'[d].phase = "ready" /\ call'[d].op = "withdraw" => call'[d].current = 1
  BY DEF CallsConsistent
<1>2. call'[d] = call[d] /\ call[d].phase # "idle"
  BY <1>1
<1>3. LET s == call[d].request IN
      /\ s \in Submitted
      /\ call[d].current <= request[s].current
      /\ call[d].phase = "ready" /\ call[d].op = "approve" =>
           call[d].next = IF call[d].current = request[s].last THEN 0 ELSE call[d].current + 1
      /\ call[d].phase = "ready" /\ call[d].op = "withdraw" => call[d].current = 1
  BY <1>2 DEF RuntimeInv, CallsConsistent
<1>4. call[d].current \in Nat /\ request[call[d].request].current \in Nat
  BY <1>2, CallFacts, RuntimeAssumption DEF Steps
<1> QED BY <1>2, <1>3, <1>4

\* The row locked by a decision: its call still stands at the row's current step.
LEMMA DecideFacts ==
  ASSUME RuntimeInv, NEW c \in Calls, call[c].phase # "idle",
         Pending(call[c].request), request[call[c].request].current = call[c].current
  PROVE  LET r == call[c].request IN
         /\ request[r].status = "PENDING" /\ request[r].employment = "PENDING"
         /\ business[request[r].business] = [status |-> "PENDING", request |-> r]
         /\ \A s \in Submitted : s # r => request[s].business # request[r].business
         /\ \A k \in StepsOf(r) : /\ k < call[c].current => decision[r][k] = "APPROVED"
                                  /\ k >= call[c].current => decision[r][k] = "PENDING"
<1> DEFINE r == call[c].request
           b == request[r].business
<1>1. /\ r \in Submitted /\ b \in Business /\ business[b].request = r
      /\ request[r].status = "PENDING" /\ request[r].employment = "PENDING"
      /\ call[c].current \in Nat /\ request[r].last \in Nat
  BY CallFacts, RuntimeAssumption DEF RuntimeInv, BusinessFollowsRequest, Pending, Steps
<1>2. business[b].status = "PENDING"
  BY <1>1 DEF RuntimeInv, BusinessFollowsRequest, StatusShown
<1>3. business[b] = [status |-> "PENDING", request |-> r]
  BY <1>1, <1>2 DEF RuntimeInv, TypeOK, BusinessRow
<1>4. \A s \in Submitted : s # r => request[s].business # b
  BY <1>1 DEF RuntimeInv, BusinessFollowsRequest
<1>5. decision[r][call[c].current] = "PENDING"
  BY <1>1 DEF RuntimeInv, SerialDecisions, CurrentStepRecorded, Outcomes
<1>6. \A k \in StepsOf(r) : /\ k < call[c].current => decision[r][k] = "APPROVED"
                            /\ k > call[c].current => decision[r][k] = "PENDING"
  BY <1>1 DEF RuntimeInv, SerialDecisions, DecidedInOrder
<1>7. \A k \in StepsOf(r) : k >= call[c].current => k > call[c].current \/ k = call[c].current
  BY <1>1 DEF StepsOf
<1> QED BY <1>1, <1>3, <1>4, <1>5, <1>6, <1>7

\* The three ways an approver ends a request: final approval, return, rejection.
LEMMA ClosingPreserves ==
  ASSUME RuntimeInv, NEW c \in Calls, call[c].phase # "idle",
         NEW d, NEW status, NEW employment,
         <<status, employment, d>> \in
           {<<"APPROVED", "PENDING_EFFECTIVE", "APPROVED">>,
            <<"WITHDRAWN", "DRAFT", "SKIPPED">>, <<"REJECTED", "REJECTED", "REJECTED">>},
         DecideStep(call[c].request, call[c].current, d),
         SyncBusinessStatus(call[c].request, employment),
         ClosePendingRequest(c, status, employment),
         status = "APPROVED" =>
           request[call[c].request].current = request[call[c].request].last,
         Finish(c), UNCHANGED approver
  PROVE  RuntimeInv'
<1> DEFINE r == call[c].request
           b == request[r].business
           n == call[c].current
<1>a. /\ TypeOK /\ AbsentStatus /\ AbsentUndecided /\ ApproversNamed
      /\ BusinessFollowsRequest /\ SerialDecisions /\ WithdrawnUndecided /\ ApprovedAtLastStep
      /\ CallsConsistent
  BY DEF RuntimeInv
<1>1. /\ r \in Requests /\ r \in Submitted /\ n \in StepsOf(r) /\ n \in Steps
      /\ b \in Business /\ n \in Nat /\ request[r].last \in Nat
  BY CallFacts, RuntimeAssumption DEF Steps
<1>2. /\ request[r].current = n /\ Pending(r)
      /\ request' = [request EXCEPT ![r] = [request[r] EXCEPT !.status = status,
                                                             !.employment = employment]]
  BY <1>a, <1>1 DEF ClosePendingRequest, TypeOK
<1>3. /\ \A s \in Requests : s # r => request'[s] = request[s] /\ decision'[s] = decision[s]
      /\ request'[r].status = status /\ request'[r].employment = employment
      /\ request'[r].current = n /\ request'[r].last = request[r].last
      /\ request'[r].business = b
      /\ decision'[r][n] = d
      /\ \A k \in Steps : k # n => decision'[r][k] = decision[r][k]
  BY <1>a, <1>1, <1>2 DEF DecideStep, TypeOK
<1>4. /\ business'[b].status = employment /\ business'[b].request = r
      /\ \A e \in Business : e # b => business'[e] = business[e]
  BY <1>a, <1>1 DEF SyncBusinessStatus, TypeOK
<1>5. Submitted' = Submitted
  BY <1>1, <1>3 DEF Submitted
<1>6. TypeOK'
  <2>1. [request[r] EXCEPT !.status = status, !.employment = employment] \in RequestRow
    <3>1. status \in ProcessStatus /\ employment \in ApplicationStatus
      BY DEF ProcessStatus, ApplicationStatus
    <3> QED BY <1>a, <1>1, <3>1, RowUpdates DEF TypeOK
  <2>2. decision' \in [Requests -> [Steps -> Decision]]
    BY <1>a, <1>1 DEF TypeOK, DecideStep, Decision
  <2>3. business' \in [Business -> BusinessRow]
    BY <1>a, <1>1 DEF TypeOK, BusinessRow, SyncBusinessStatus, BusinessStatus, ApplicationStatus
  <2> QED BY <1>a, <1>1, <1>2, <2>1, <2>2, <2>3, IdleIsACall DEF TypeOK, Finish, Idle
<1>7. AbsentStatus' /\ AbsentUndecided'
  BY <1>a, <1>1, <1>3 DEF AbsentStatus, AbsentUndecided
<1>8. ApproversNamed'
  BY <1>a, <1>1, <1>3, <1>5 DEF ApproversNamed, StepsOf, Submitted
<1>9. BusinessFollowsRequest'
  <2>1. \A s \in Submitted : s # r => request[s].business # b
    BY <1>2, DecideFacts
  <2> QED BY <1>a, <1>1, <1>3, <1>4, <1>5, <2>1
          DEF BusinessFollowsRequest, StatusShown, EffectiveStatus, Submitted
<1>10. SerialDecisions'
  <2> SUFFICES ASSUME NEW s \in Submitted
               PROVE  /\ request'[s].current <= request'[s].last
                      /\ \A k \in 1 .. request'[s].last :
                           /\ k < request'[s].current => decision'[s][k] = "APPROVED"
                           /\ k > request'[s].current => decision'[s][k] = "PENDING"
                      /\ <<request'[s].status, request'[s].employment, decision'[s][request'[s].current]>>
                           \in Outcomes
    BY <1>5 DEF SerialDecisions, DecidedInOrder, CurrentStepRecorded, StepsOf
  <2>1. CASE s = r
    <3>1. n <= request[r].last
      BY <1>1 DEF StepsOf
    <3>2. \A k \in 1 .. request[r].last : /\ k \in Steps /\ k \in Nat
                                          /\ k < n => decision[r][k] = "APPROVED"
                                          /\ k > n => decision[r][k] = "PENDING"
      BY <1>a, <1>1, <1>2, RuntimeAssumption DEF SerialDecisions, DecidedInOrder, StepsOf, Steps, TypeOK, RequestRow
    <3>3. \A k \in 1 .. request[r].last : (k < n \/ k > n) => k # n
      BY <1>1
    <3>4. <<status, employment, d>> \in Outcomes
      BY DEF Outcomes
    <3> QED BY <1>3, <2>1, <3>1, <3>2, <3>3, <3>4
  <2>2. CASE s # r
    BY <1>a, <1>3, <2>2 DEF SerialDecisions, DecidedInOrder, CurrentStepRecorded, StepsOf, Submitted
  <2> QED BY <2>1, <2>2
<1>11. WithdrawnUndecided'
  BY <1>a, <1>1, <1>3 DEF WithdrawnUndecided, StepsOf
<1>12. CallsConsistent'
  <2>1. \A s \in Submitted : /\ request[s].current \in Nat
                             /\ request'[s].current = request[s].current
                             /\ request'[s].last = request[s].last
    BY <1>a, <1>1, <1>2, <1>3, RuntimeAssumption DEF Submitted, TypeOK, RequestRow, Steps
  <2>2. \A s \in Submitted : request[s].current <= request'[s].current
    BY <2>1
  <2> QED BY <1>5, <2>1, <2>2, FinishKeepsCalls
<1>13. ApprovedAtLastStep'
  BY <1>a, <1>1, <1>2, <1>3, <1>5 DEF ApprovedAtLastStep, Submitted
<1> QED BY <1>6, <1>7, <1>8, <1>9, <1>10, <1>11, <1>12, <1>13 DEF RuntimeInv

LEMMA ApproveStepPreserves ==
  ASSUME RuntimeInv, NEW c \in Calls, ApproveStep(c)
  PROVE  RuntimeInv'
<1> DEFINE r == call[c].request
           n == call[c].current
<1>a. /\ TypeOK /\ AbsentStatus /\ AbsentUndecided /\ ApproversNamed
      /\ BusinessFollowsRequest /\ SerialDecisions /\ WithdrawnUndecided /\ ApprovedAtLastStep
      /\ CallsConsistent
  BY DEF RuntimeInv
<1>1. call[c].phase = "ready" /\ call[c].op = "approve" /\ Finish(c)
      /\ UNCHANGED <<approver, business>>
  BY DEF ApproveStep, Ready
<1>2. /\ r \in Requests /\ r \in Submitted /\ n \in StepsOf(r) /\ n \in Steps
      /\ n \in Nat /\ request[r].last \in Nat /\ request[r].last <= MaxSteps
  BY <1>1, CallFacts, RuntimeAssumption DEF Steps
<1>3. n < request[r].last /\ call[c].next = n + 1 /\ n + 1 \in Steps
  <2>1. call[c].next = IF n = request[r].last THEN 0 ELSE n + 1
    BY <1>a, <1>1 DEF CallsConsistent
  <2> QED BY <1>2, <2>1, RuntimeAssumption DEF ApproveStep, StepsOf, Steps
<1>4. /\ request[r].current = n /\ Pending(r)
      /\ request' = [request EXCEPT ![r] = [request[r] EXCEPT !.current = n + 1]]
  BY <1>a, <1>2, <1>3 DEF ApproveStep, AdvanceStep, TypeOK
<1>5. /\ \A s \in Requests : s # r => request'[s] = request[s] /\ decision'[s] = decision[s]
      /\ request'[r].status = "PENDING" /\ request'[r].employment = "PENDING"
      /\ request'[r].current = n + 1 /\ request'[r].last = request[r].last
      /\ request'[r].business = request[r].business
      /\ decision'[r][n] = "APPROVED"
      /\ \A k \in Steps : k # n => decision'[r][k] = decision[r][k]
  BY <1>a, <1>2, <1>4 DEF ApproveStep, DecideStep, TypeOK, Pending
<1>6. Submitted' = Submitted
  BY <1>2, <1>5 DEF Submitted
<1>7. TypeOK'
  <2>1. [request[r] EXCEPT !.current = n + 1] \in RequestRow
    BY <1>a, <1>2, <1>3, RowUpdates DEF TypeOK, ProcessStatus, ApplicationStatus
  <2>2. decision' \in [Requests -> [Steps -> Decision]]
    BY <1>a, <1>2 DEF TypeOK, ApproveStep, DecideStep, Decision
  <2> QED BY <1>a, <1>1, <1>2, <1>4, <2>1, <2>2, IdleIsACall DEF TypeOK, Finish, Idle
<1>8. AbsentStatus' /\ AbsentUndecided'
  BY <1>a, <1>2, <1>5 DEF AbsentStatus, AbsentUndecided
<1>9. ApproversNamed'
  BY <1>a, <1>1, <1>2, <1>5, <1>6 DEF ApproversNamed, StepsOf, Submitted
<1>10. BusinessFollowsRequest'
  <2>1. request[r].employment = "PENDING"
    BY <1>4 DEF Pending
  <2> QED BY <1>a, <1>1, <1>2, <1>5, <1>6, <2>1
          DEF BusinessFollowsRequest, StatusShown, EffectiveStatus, Submitted
<1>11. SerialDecisions'
  <2> SUFFICES ASSUME NEW s \in Submitted
               PROVE  /\ request'[s].current <= request'[s].last
                      /\ \A k \in 1 .. request'[s].last :
                           /\ k < request'[s].current => decision'[s][k] = "APPROVED"
                           /\ k > request'[s].current => decision'[s][k] = "PENDING"
                      /\ <<request'[s].status, request'[s].employment, decision'[s][request'[s].current]>>
                           \in Outcomes
    BY <1>6 DEF SerialDecisions, DecidedInOrder, CurrentStepRecorded, StepsOf
  <2>1. CASE s = r
    <3>1. \A k \in 1 .. request[r].last : /\ k \in Steps /\ k \in Nat
                                          /\ k < n => decision[r][k] = "APPROVED"
                                          /\ k > n => decision[r][k] = "PENDING"
      BY <1>a, <1>2, <1>4, RuntimeAssumption DEF SerialDecisions, DecidedInOrder, StepsOf, Steps, TypeOK
    <3>2. \A k \in 1 .. request[r].last : /\ k < n + 1 => k < n \/ k = n
                                          /\ k > n + 1 => k > n /\ k # n
      BY <1>2
    <3>3. n + 1 \in 1 .. request[r].last /\ n + 1 > n /\ n + 1 # n
      BY <1>2, <1>3
    <3>4. <<"PENDING", "PENDING", "PENDING">> \in Outcomes
      BY DEF Outcomes
    <3>5. \A k \in 1 .. request[r].last : /\ k < n + 1 => decision'[r][k] = "APPROVED"
                                          /\ k > n + 1 => decision'[r][k] = "PENDING"
      BY <1>5, <3>1, <3>2
    <3>6. decision'[r][n + 1] = "PENDING"
      BY <1>5, <3>1, <3>3
    <3> QED BY <1>2, <1>3, <1>5, <2>1, <3>3, <3>4, <3>5, <3>6
  <2>2. CASE s # r
    BY <1>a, <1>5, <2>2 DEF SerialDecisions, DecidedInOrder, CurrentStepRecorded, StepsOf, Submitted
  <2> QED BY <2>1, <2>2
<1>12. WithdrawnUndecided'
  BY <1>a, <1>2, <1>5 DEF WithdrawnUndecided, StepsOf
<1>13. CallsConsistent'
  <2>1. \A s \in Submitted : /\ request[s].current \in Nat
                             /\ request'[s].last = request[s].last
                             /\ request'[s].current = request[s].current
                               \/ request'[s].current = request[s].current + 1
    BY <1>a, <1>2, <1>4, <1>5, RuntimeAssumption DEF Submitted, TypeOK, RequestRow, Steps
  <2>2. \A s \in Submitted : request[s].current <= request'[s].current
    BY <2>1
  <2> QED BY <1>1, <1>6, <2>1, <2>2, FinishKeepsCalls
<1>14. ApprovedAtLastStep'
  BY <1>a, <1>2, <1>5, <1>6 DEF ApprovedAtLastStep, Submitted
<1> QED BY <1>7, <1>8, <1>9, <1>10, <1>11, <1>12, <1>13, <1>14 DEF RuntimeInv

LEMMA WithdrawPreserves ==
  ASSUME RuntimeInv, NEW c \in Calls, Withdraw(c)
  PROVE  RuntimeInv'
<1> DEFINE r == call[c].request
           b == request[r].business
<1>a. /\ TypeOK /\ AbsentStatus /\ AbsentUndecided /\ ApproversNamed
      /\ BusinessFollowsRequest /\ SerialDecisions /\ WithdrawnUndecided /\ ApprovedAtLastStep
      /\ CallsConsistent
  BY DEF RuntimeInv
<1>1. call[c].phase = "ready" /\ call[c].op = "withdraw" /\ Finish(c)
      /\ UNCHANGED <<approver, decision>>
  BY DEF Withdraw, Ready
<1>2. /\ r \in Requests /\ r \in Submitted /\ b \in Business
      /\ request[r].last \in Nat /\ 1 <= request[r].last
  BY <1>1, CallFacts, RuntimeAssumption DEF Steps
<1>3. call[c].current = 1
  BY <1>a, <1>1 DEF CallsConsistent
<1>4. /\ request[r].current = 1 /\ Pending(r)
      /\ request' = [request EXCEPT ![r] = [request[r] EXCEPT !.status = "WITHDRAWN",
                                                             !.employment = "WITHDRAWN"]]
  BY <1>a, <1>2, <1>3 DEF Withdraw, ClosePendingRequest, TypeOK
<1>5. /\ \A s \in Requests : s # r => request'[s] = request[s]
      /\ request'[r].status = "WITHDRAWN" /\ request'[r].employment = "WITHDRAWN"
      /\ request'[r].current = 1 /\ request'[r].last = request[r].last
      /\ request'[r].business = b
  BY <1>a, <1>2, <1>4 DEF TypeOK
<1>6. /\ business'[b].status = "WITHDRAWN" /\ business'[b].request = r
      /\ \A e \in Business : e # b => business'[e] = business[e]
  BY <1>a, <1>2 DEF Withdraw, SyncBusinessStatus, TypeOK
<1>7. Submitted' = Submitted
  BY <1>2, <1>5 DEF Submitted
<1>8. /\ \A s \in Submitted : s # r => request[s].business # b
      /\ \A k \in StepsOf(r) : k >= call[c].current => decision[r][k] = "PENDING"
  <2>1. call[c].phase # "idle" /\ request[r].current = call[c].current
    BY <1>1, <1>3, <1>4
  <2> QED BY <1>4, <2>1, DecideFacts
<1>9. \A k \in StepsOf(r) : decision[r][k] = "PENDING"
  <2>1. \A k \in StepsOf(r) : k >= 1
    BY <1>2 DEF StepsOf
  <2> QED BY <1>3, <1>8, <2>1
<1>10. TypeOK'
  <2>1. [request[r] EXCEPT !.status = "WITHDRAWN", !.employment = "WITHDRAWN"] \in RequestRow
    <3>1. "WITHDRAWN" \in ProcessStatus /\ "WITHDRAWN" \in ApplicationStatus
      BY DEF ProcessStatus, ApplicationStatus
    <3> QED BY <1>a, <1>2, <3>1, RowUpdates DEF TypeOK
  <2>2. business' \in [Business -> BusinessRow]
    BY <1>a, <1>2 DEF TypeOK, BusinessRow, Withdraw, SyncBusinessStatus, BusinessStatus, ApplicationStatus
  <2> QED BY <1>a, <1>1, <1>2, <1>4, <2>1, <2>2, IdleIsACall DEF TypeOK, Finish, Idle
<1>11. AbsentStatus' /\ AbsentUndecided'
  BY <1>a, <1>1, <1>2, <1>5 DEF AbsentStatus, AbsentUndecided
<1>12. ApproversNamed'
  BY <1>a, <1>1, <1>2, <1>5, <1>7 DEF ApproversNamed, StepsOf, Submitted
<1>13. BusinessFollowsRequest'
  <2> QED BY <1>a, <1>2, <1>5, <1>6, <1>7, <1>8
          DEF BusinessFollowsRequest, StatusShown, EffectiveStatus, Submitted
<1>14. DecidedInOrder'
  BY <1>a, <1>1, <1>2, <1>4, <1>5, <1>7 DEF SerialDecisions, DecidedInOrder, StepsOf, Submitted
<1>15. CurrentStepRecorded'
  <2>1. decision[r][1] = "PENDING"
    BY <1>2, <1>9 DEF StepsOf
  <2>2. <<"WITHDRAWN", "WITHDRAWN", "PENDING">> \in Outcomes
    BY DEF Outcomes
  <2> QED BY <1>a, <1>1, <1>2, <1>5, <1>7, <2>1, <2>2
          DEF SerialDecisions, CurrentStepRecorded, Submitted
<1>16. WithdrawnUndecided'
  BY <1>a, <1>1, <1>2, <1>5, <1>9 DEF WithdrawnUndecided, StepsOf
<1>17. CallsConsistent'
  <2>1. \A s \in Submitted :
          /\ request[s].current \in Nat
          /\ request'[s].current = request[s].current
          /\ request'[s].last = request[s].last
    BY <1>a, <1>2, <1>4, <1>5, RuntimeAssumption DEF Submitted, TypeOK, RequestRow, Steps
  <2>2. \A s \in Submitted : request[s].current <= request'[s].current
    BY <2>1
  <2> QED BY <1>1, <1>7, <2>1, <2>2, FinishKeepsCalls
<1>18. ApprovedAtLastStep'
  BY <1>a, <1>2, <1>5, <1>7 DEF ApprovedAtLastStep, Submitted
<1> QED BY <1>10, <1>11, <1>12, <1>13, <1>14, <1>15, <1>16, <1>17, <1>18
        DEF RuntimeInv, SerialDecisions

LEMMA LoadForActivationPreserves ==
  ASSUME RuntimeInv, NEW c \in Calls, NEW u \in Users, NEW b \in Business,
         LoadForActivation(c, u, b)
  PROVE  RuntimeInv'
<1> DEFINE r == business[b].request
           read == [phase |-> "ready", op |-> "activate", request |-> r, user |-> u,
                    current |-> request[r].current, next |-> 0]
<1>1. r \in Submitted /\ r \in Requests
  BY DEF LoadForActivation, RuntimeInv, BusinessFollowsRequest, Submitted
<1>2. request[r].current \in Steps
  BY <1>1 DEF RuntimeInv, TypeOK, RequestRow
<1>3. call' = [call EXCEPT ![c] = read]
  BY DEF LoadForActivation
<1>4. TypeOK'
  <2>1. read \in CallRecord
    BY <1>1, <1>2, RuntimeAssumption DEF Operation, CallRecord
  <2> QED BY <1>1, <1>3, <2>1 DEF RuntimeInv, TypeOK, LoadForActivation
<1>5. CallsConsistent'
  <2>1. /\ call'[c] = read /\ request' = request
        /\ \A d \in Calls : d # c => call'[d] = call[d]
    BY <1>3 DEF RuntimeInv, TypeOK, LoadForActivation
  <2>2. request[r].current <= request[r].current
    BY <1>2, RuntimeAssumption DEF Steps
  <2> QED BY <1>1, <2>1, <2>2 DEF RuntimeInv, CallsConsistent, Submitted
<1> QED BY <1>4, <1>5, CallOnly DEF RuntimeInv, LoadForActivation

LEMMA ActivatePreserves ==
  ASSUME RuntimeInv, NEW c \in Calls, Activate(c)
  PROVE  RuntimeInv'
<1> DEFINE r == call[c].request
           b == request[r].business
<1>a. /\ TypeOK /\ AbsentStatus /\ AbsentUndecided /\ ApproversNamed
      /\ BusinessFollowsRequest /\ SerialDecisions /\ WithdrawnUndecided /\ ApprovedAtLastStep
      /\ CallsConsistent
  BY DEF RuntimeInv
<1>1. /\ call[c].phase = "ready" /\ Finish(c) /\ UNCHANGED <<approver, decision>>
      /\ business[b].status = "PENDING_EFFECTIVE" /\ FinallyApproved(r)
      /\ business' = [business EXCEPT ![b].status = EffectiveStatus(b)]
      /\ request' = [request EXCEPT ![r].status = "COMPLETED", ![r].employment = "COMPLETED"]
  BY DEF Activate, Ready, CompleteEffective
<1>2. /\ r \in Requests /\ r \in Submitted /\ b \in Business
      /\ business[b].request = r /\ request[r].status = "APPROVED"
  BY <1>a, <1>1, CallFacts DEF BusinessFollowsRequest, FinallyApproved
<1>3. request' = [request EXCEPT ![r] = [request[r] EXCEPT !.status = "COMPLETED",
                                                          !.employment = "COMPLETED"]]
  BY <1>a, <1>1, <1>2 DEF TypeOK
<1>4. /\ \A s \in Requests : s # r => request'[s] = request[s]
      /\ request'[r].status = "COMPLETED" /\ request'[r].employment = "COMPLETED"
      /\ request'[r].current = request[r].current /\ request'[r].last = request[r].last
      /\ request'[r].business = b
  BY <1>a, <1>2, <1>3 DEF TypeOK
<1>5. /\ business'[b].status = EffectiveStatus(b) /\ business'[b].request = r
      /\ \A e \in Business : e # b => business'[e] = business[e]
  BY <1>a, <1>1, <1>2 DEF TypeOK
<1>6. Submitted' = Submitted
  BY <1>2, <1>4 DEF Submitted
<1>7. TypeOK'
  <2>1. [request[r] EXCEPT !.status = "COMPLETED", !.employment = "COMPLETED"] \in RequestRow
    <3>1. "COMPLETED" \in ProcessStatus /\ "COMPLETED" \in ApplicationStatus
      BY DEF ProcessStatus, ApplicationStatus
    <3> QED BY <1>a, <1>2, <3>1, RowUpdates DEF TypeOK
  <2>2. business' \in [Business -> BusinessRow]
    BY <1>a, <1>1, <1>2 DEF TypeOK, BusinessRow, EffectiveStatus, BusinessStatus, ApplicationStatus
  <2> QED BY <1>a, <1>1, <1>2, <1>3, <2>1, <2>2, IdleIsACall DEF TypeOK, Finish, Idle
<1>8. \A s \in Requests :
         /\ decision'[s] = decision[s]
         /\ request'[s].current = request[s].current /\ request'[s].last = request[s].last
         /\ s # r => request'[s] = request[s]
  BY <1>1, <1>4
<1>9. AbsentStatus' /\ AbsentUndecided'
  <2>1. AbsentStatus'
    BY <1>a, <1>4, <1>8 DEF AbsentStatus
  <2>2. AbsentUndecided'
    BY <1>a, <1>4, <1>8 DEF AbsentUndecided
  <2> QED BY <2>1, <2>2
<1>10. ApproversNamed'
  BY <1>a, <1>1, <1>2, <1>4, <1>6 DEF ApproversNamed, StepsOf, Submitted
<1>11. BusinessFollowsRequest'
  <2>1. \A s \in Submitted : s # r => request[s].business # b
    BY <1>a, <1>2 DEF BusinessFollowsRequest
  <2>2. EffectiveStatus(b) # "ABSENT"
    BY DEF EffectiveStatus
  <2> QED BY <1>a, <1>2, <1>4, <1>5, <1>6, <2>1, <2>2
          DEF BusinessFollowsRequest, StatusShown, Submitted
<1>12. DecidedInOrder'
  BY <1>a, <1>6, <1>8 DEF SerialDecisions, DecidedInOrder, StepsOf, Submitted
<1>13. CurrentStepRecorded'
  <2>1. decision[r][request[r].current] = "APPROVED"
    BY <1>a, <1>2 DEF SerialDecisions, CurrentStepRecorded, Outcomes
  <2>2. <<"COMPLETED", "COMPLETED", "APPROVED">> \in Outcomes
    BY DEF Outcomes
  <2> QED BY <1>a, <1>4, <1>6, <1>8, <2>1, <2>2
          DEF SerialDecisions, CurrentStepRecorded, Submitted
<1>14. WithdrawnUndecided'
  BY <1>a, <1>1, <1>2, <1>4 DEF WithdrawnUndecided, StepsOf
<1>15. CallsConsistent'
  <2>1. \A s \in Submitted :
          /\ request[s].current \in Nat
          /\ request'[s].current = request[s].current
          /\ request'[s].last = request[s].last
    BY <1>a, <1>8, RuntimeAssumption DEF Submitted, TypeOK, RequestRow, Steps
  <2>2. \A s \in Submitted : request[s].current <= request'[s].current
    BY <2>1
  <2> QED BY <1>1, <1>6, <2>1, <2>2, FinishKeepsCalls
<1>16. ApprovedAtLastStep'
  BY <1>a, <1>2, <1>4, <1>6, <1>8 DEF ApprovedAtLastStep, Submitted
<1> QED BY <1>7, <1>9, <1>10, <1>11, <1>12, <1>13, <1>14, <1>15, <1>16
        DEF RuntimeInv, SerialDecisions

LEMMA RollBackPreserves ==
  ASSUME RuntimeInv, NEW c \in Calls, RollBack(c)
  PROVE  RuntimeInv'
<1>1. TypeOK'
  BY IdleIsACall DEF RuntimeInv, TypeOK, RollBack, Finish, Idle
<1>2. CallsConsistent'
  <2>1. \A s \in Submitted :
          /\ s \in Submitted' /\ request'[s] = request[s]
          /\ request[s].current \in Nat /\ request[s].current <= request[s].current
    BY RuntimeAssumption DEF RuntimeInv, TypeOK, RequestRow, RollBack, Submitted, Steps
  <2> QED BY <2>1, FinishKeepsCalls DEF RollBack
<1> QED BY <1>1, <1>2, CallOnly DEF RuntimeInv, RollBack

-----------------------------------------------------------------------------
(***************************************************************************)
(* The invariant, and the properties that follow from it                   *)
(***************************************************************************)
LEMMA NextPreserves ==
  ASSUME RuntimeInv, [Next]_vars
  PROVE  RuntimeInv'
<1>1. ASSUME NEW r \in Requests, NEW b \in Business, CreateRequest(r, b)
      PROVE  RuntimeInv'
  BY <1>1, CreateRequestPreserves
<1>2. ASSUME NEW c \in Calls, Read(c)
      PROVE  RuntimeInv'
  BY <1>2, LoadRequestPreserves, LoadStepsToDecidePreserves, LoadStepsToWithdrawPreserves,
     LoadForActivationPreserves DEF Read
<1>3. ASSUME NEW c \in Calls, Commit(c)
      PROVE  RuntimeInv'
  <2>1. CASE ApproveStep(c)
    BY <2>1, ApproveStepPreserves
  <2>2. CASE ApproveFinalStep(c)
    <3>1. /\ call[c].phase = "ready" /\ call[c].op = "approve" /\ call[c].next = 0
          /\ request[call[c].request].current = call[c].current
      BY <2>2 DEF ApproveFinalStep, Ready, ClosePendingRequest
    <3>2. call[c].current \in Nat
      BY <3>1, CallFacts, RuntimeAssumption DEF Steps
    <3>3. request[call[c].request].current = request[call[c].request].last
      BY <3>1, <3>2 DEF RuntimeInv, CallsConsistent
    <3>4. /\ DecideStep(call[c].request, call[c].current, "APPROVED")
          /\ SyncBusinessStatus(call[c].request, "PENDING_EFFECTIVE")
          /\ ClosePendingRequest(c, "APPROVED", "PENDING_EFFECTIVE")
          /\ Finish(c) /\ UNCHANGED approver /\ call[c].phase # "idle"
      BY <2>2, <3>1 DEF ApproveFinalStep
    <3> QED BY <3>3, <3>4, ClosingPreserves
  <2>3. CASE ReturnForRevision(c)
    BY <2>3, ClosingPreserves DEF ReturnForRevision, Ready
  <2>4. CASE Reject(c)
    BY <2>4, ClosingPreserves DEF Reject, Ready
  <2>5. CASE Withdraw(c)
    BY <2>5, WithdrawPreserves
  <2>6. CASE Activate(c)
    BY <2>6, ActivatePreserves
  <2> QED BY <1>3, <2>1, <2>2, <2>3, <2>4, <2>5, <2>6 DEF Commit
<1>4. ASSUME NEW c \in Calls, RollBack(c)
      PROVE  RuntimeInv'
  BY <1>4, RollBackPreserves
<1>5. CASE UNCHANGED vars
  <2>1. TypeOK' /\ CallsConsistent'
    BY <1>5 DEF vars, RuntimeInv, TypeOK, CallsConsistent, Submitted
  <2> QED BY <1>5, <2>1, CallOnly DEF vars, RuntimeInv
<1> QED BY <1>1, <1>2, <1>3, <1>4, <1>5 DEF Next

\* The inductive invariant holds in every reachable state of the runtime.
THEOREM Invariance == Spec => []RuntimeInv
<1>1. RuntimeInv /\ [Next]_vars => RuntimeInv'
  BY NextPreserves
<1> QED BY RuntimeInvInit, <1>1, PTL DEF Spec

\* Type correctness of the runtime, for every number of requests, calls and steps.
THEOREM Typing == Spec => []TypeOK
<1>1. RuntimeInv => TypeOK
  BY DEF RuntimeInv
<1> QED BY <1>1, Invariance, PTL

\* Whatever calls race, the business row and its approval request agree.
THEOREM BusinessAgreement == Spec => []BusinessFollowsRequest
<1>1. RuntimeInv => BusinessFollowsRequest
  BY DEF RuntimeInv
<1> QED BY <1>1, Invariance, PTL

\* Decisions are taken in order, and the statuses record the last one.
THEOREM Serial == Spec => []SerialDecisions
<1>1. RuntimeInv => SerialDecisions
  BY DEF RuntimeInv
<1> QED BY <1>1, Invariance, PTL

\* A withdrawn request was withdrawn before any decision.
THEOREM WithdrawalErasesNothing == Spec => []WithdrawnUndecided
<1>1. RuntimeInv => WithdrawnUndecided
  BY DEF RuntimeInv
<1> QED BY <1>1, Invariance, PTL

\* Only a unanimously approved application is waiting for its date or in effect.
THEOREM EffectiveUnanimous == Spec => []EffectiveOnlyIfUnanimous
<1>1. RuntimeInv => EffectiveOnlyIfUnanimous
  <2> SUFFICES ASSUME RuntimeInv, NEW b \in Business, NEW k \in StepsOf(business[b].request),
                      business[b].status \in {"PENDING_EFFECTIVE", "COMPLETED", "ACTIVE"}
               PROVE  decision[business[b].request][k] = "APPROVED"
    BY DEF EffectiveOnlyIfUnanimous
  <2> DEFINE r == business[b].request
  <2>1. r \in Submitted /\ request[r].business = b
    BY DEF RuntimeInv, BusinessFollowsRequest
  <2>2. business[b].status = StatusShown(b, request[r].employment)
    BY <2>1 DEF RuntimeInv, BusinessFollowsRequest
  <2>3. /\ request[r].employment \in {"PENDING_EFFECTIVE", "COMPLETED"}
        /\ <<request[r].status, request[r].employment, decision[r][request[r].current]>>
             \in Outcomes
    BY <2>1, <2>2 DEF RuntimeInv, SerialDecisions, CurrentStepRecorded, StatusShown, Outcomes
  <2>4. request[r].status \in {"APPROVED", "COMPLETED"} /\ decision[r][request[r].current] = "APPROVED"
    BY <2>3 DEF Outcomes
  <2>5. /\ request[r].last \in Nat /\ request[r].current \in Nat
        /\ request[r].current <= request[r].last
    BY <2>1, RuntimeAssumption
       DEF RuntimeInv, TypeOK, RequestRow, SerialDecisions, DecidedInOrder, Submitted, Steps
  <2>6. request[r].current = request[r].last /\ k \in 1 .. request[r].last
    BY <2>1, <2>4 DEF RuntimeInv, ApprovedAtLastStep, StepsOf
  <2>7. k < request[r].current \/ k = request[r].current
    BY <2>5, <2>6
  <2> QED BY <2>1, <2>4, <2>6, <2>7 DEF RuntimeInv, SerialDecisions, DecidedInOrder, StepsOf
<1> QED BY <1>1, Invariance, PTL

\* A pending request is never stuck without an open step and an approver for it.
THEOREM OpenStep == Spec => []PendingHasOpenStep
<1>1. RuntimeInv => PendingHasOpenStep
  <2> SUFFICES ASSUME RuntimeInv, NEW r \in Requests, Pending(r)
               PROVE  /\ request[r].current \in StepsOf(r)
                      /\ decision[r][request[r].current] = "PENDING"
                      /\ approver[r][request[r].current] \in Users
    BY DEF PendingHasOpenStep
  <2>1. r \in Submitted
    BY DEF Pending, Submitted
  <2>2. request[r].current \in StepsOf(r)
    BY <2>1, RuntimeAssumption
       DEF RuntimeInv, TypeOK, RequestRow, SerialDecisions, DecidedInOrder, StepsOf, Steps
  <2>3. decision[r][request[r].current] = "PENDING"
    BY <2>1 DEF RuntimeInv, SerialDecisions, CurrentStepRecorded, Outcomes, Pending
  <2> QED BY <2>1, <2>2, <2>3 DEF RuntimeInv, ApproversNamed
<1> QED BY <1>1, Invariance, PTL

-----------------------------------------------------------------------------
(***************************************************************************)
(* What a step may never do                                                *)
(***************************************************************************)
\* A step changes the decisions of one pending request at most, and there it
\* decides a step that was open.
LEMMA StepsDecideOpenSteps ==
  ASSUME TypeOK, [Next]_vars
  PROVE  \/ decision' = decision
         \/ \E s \in Requests, k \in Steps, d \in Decision :
              /\ Pending(s)
              /\ decision[s][k] = "PENDING"
              /\ decision' = [decision EXCEPT ![s][k] = d]
<1>1. ASSUME NEW c \in Calls, call[c].phase # "idle"
      PROVE  call[c].request \in Requests /\ call[c].current \in Steps
  BY <1>1 DEF TypeOK, CallRecord
<1>2. ASSUME NEW c \in Calls, NEW d \in Decision, call[c].phase # "idle",
             DecideStep(call[c].request, call[c].current, d), Pending(call[c].request)
      PROVE  \E s \in Requests, k \in Steps, e \in Decision :
               /\ Pending(s)
               /\ decision[s][k] = "PENDING"
               /\ decision' = [decision EXCEPT ![s][k] = e]
  BY <1>1, <1>2 DEF DecideStep
<1>3. {"APPROVED", "REJECTED", "SKIPPED"} \subseteq Decision
  BY DEF Decision
<1>4. ASSUME NEW c \in Calls, ApproveStep(c) \/ ApproveFinalStep(c)
      PROVE  \E s \in Requests, k \in Steps, e \in Decision :
               /\ Pending(s)
               /\ decision[s][k] = "PENDING"
               /\ decision' = [decision EXCEPT ![s][k] = e]
  BY <1>2, <1>3, <1>4
     DEF ApproveStep, ApproveFinalStep, Ready, AdvanceStep, ClosePendingRequest
<1>5. ASSUME NEW c \in Calls, ReturnForRevision(c) \/ Reject(c)
      PROVE  \E s \in Requests, k \in Steps, e \in Decision :
               /\ Pending(s)
               /\ decision[s][k] = "PENDING"
               /\ decision' = [decision EXCEPT ![s][k] = e]
  BY <1>2, <1>3, <1>5 DEF ReturnForRevision, Reject, Ready, ClosePendingRequest
<1>6. ASSUME NEW c \in Calls, Read(c) \/ RollBack(c) \/ Withdraw(c) \/ Activate(c)
      PROVE  decision' = decision
  BY <1>6 DEF Read, LoadRequest, LoadStepsToDecide, LoadStepsToWithdraw, LoadForActivation,
              RollBack, Withdraw, Activate
<1>7. ASSUME NEW s \in Requests, NEW b \in Business, CreateRequest(s, b)
      PROVE  decision' = decision
  BY <1>7 DEF CreateRequest
<1> QED BY <1>4, <1>5, <1>6, <1>7 DEF Next, Commit, vars

\* A committed decision is never changed.
THEOREM FinalDecisions == Spec => DecisionsAreFinal
<1>1. TypeOK /\ [Next]_vars =>
        [\A r \in Requests, k \in Steps :
           decision[r][k] # "PENDING" => decision'[r][k] = decision[r][k]]_vars
  <2> SUFFICES ASSUME TypeOK, [Next]_vars, NEW r \in Requests, NEW k \in Steps,
                      decision[r][k] # "PENDING"
               PROVE  decision'[r][k] = decision[r][k]
    OBVIOUS
  <2>1. ASSUME NEW s \in Requests, NEW j \in Steps, NEW d \in Decision,
               decision[s][j] = "PENDING", decision' = [decision EXCEPT ![s][j] = d]
        PROVE  decision'[r][k] = decision[r][k]
    <3>1. decision' = [decision EXCEPT ![s] = [decision[s] EXCEPT ![j] = d]]
      BY <2>1
    <3>2. s # r \/ j # k
      BY <2>1
    <3> QED BY <3>1, <3>2 DEF TypeOK
  <2> QED BY <2>1, StepsDecideOpenSteps
<1> QED BY <1>1, Typing, PTL DEF Spec, DecisionsAreFinal

\* A closed request is history: no call still in flight can move it.
THEOREM ClosedIsFinal == Spec => ClosedRequestsStayClosed
<1>1. TypeOK /\ [Next]_vars =>
        [\A r \in Requests :
           request[r].status \in {"REJECTED", "WITHDRAWN", "COMPLETED"} =>
             /\ request'[r] = request[r]
             /\ decision'[r] = decision[r]]_vars
  <2> SUFFICES ASSUME TypeOK, [Next]_vars, NEW r \in Requests,
                      request[r].status \in {"REJECTED", "WITHDRAWN", "COMPLETED"}
               PROVE  request'[r] = request[r] /\ decision'[r] = decision[r]
    OBVIOUS
  <2>1. decision'[r] = decision[r]
    BY StepsDecideOpenSteps DEF TypeOK, Pending
  <2>2. ASSUME NEW c \in Calls, call[c].phase # "idle"
        PROVE  call[c].request \in Requests
    BY <2>2 DEF TypeOK
  <2>3. ASSUME NEW c \in Calls, Commit(c)
        PROVE  request'[r] = request[r]
    BY <2>2, <2>3 DEF Commit, ApproveStep, ApproveFinalStep, ReturnForRevision, Reject, Withdraw,
                      Activate, Ready, AdvanceStep, ClosePendingRequest, CompleteEffective,
                      FinallyApproved, Pending, TypeOK
  <2>4. ASSUME NEW c \in Calls, Read(c) \/ RollBack(c)
        PROVE  request'[r] = request[r]
    BY <2>4 DEF Read, LoadRequest, LoadStepsToDecide, LoadStepsToWithdraw, LoadForActivation,
                RollBack
  <2>5. ASSUME NEW s \in Requests, NEW b \in Business, CreateRequest(s, b)
        PROVE  request'[r] = request[r]
    BY <2>5 DEF CreateRequest, InsertRequest, TypeOK
  <2> QED BY <2>1, <2>3, <2>4, <2>5 DEF Next, vars
<1> QED BY <1>1, Typing, PTL DEF Spec, ClosedRequestsStayClosed

-----------------------------------------------------------------------------
(***************************************************************************)
(* The approval runtime implements SerialApproval, for any number of       *)
(* requests, business rows, concurrent calls and steps.                    *)
(*                                                                         *)
(* Every committing transaction is one abstract step on one application,   *)
(* reads and rollbacks are stutters.  RuntimeInv supplies what the code    *)
(* does not check but relies on: the business row of a pending request is  *)
(* pending, no other request names it, and the steps before the current    *)
(* one are exactly the approved ones.                                      *)
(***************************************************************************)
\* The abstract state each business status stands for.
LEMMA OutcomeValues ==
  /\ Outcome("PENDING") = "pending"
  /\ Outcome("PENDING_EFFECTIVE") = "approved"
  /\ Outcome("REJECTED") = "rejected"
  /\ Outcome("DRAFT") = "returned"
  /\ Outcome("WITHDRAWN") = "withdrawn"
  /\ Outcome("COMPLETED") = "effective"
  /\ Outcome("ACTIVE") = "effective"
BY DEF Outcome

\* A transaction that leaves the rows of the other requests alone leaves their
\* abstract applications alone.
LEMMA OthersUnmoved ==
  ASSUME RuntimeInv, NEW r \in Requests, NEW b,
         \A s \in Submitted : s # r => request[s].business # b,
         \A s \in Requests : s # r => request'[s] = request[s] /\ decision'[s] = decision[s],
         \A e \in Business : e # b => business'[e] = business[e]
  PROVE  \A s \in Requests : s # r => /\ StateOf(s)' = StateOf(s)
                                      /\ request'[s].last = request[s].last
                                      /\ ApprovedSteps(s)' = ApprovedSteps(s)
<1> SUFFICES ASSUME NEW s \in Requests, s # r
             PROVE  /\ StateOf(s)' = StateOf(s)
                    /\ request'[s].last = request[s].last
                    /\ ApprovedSteps(s)' = ApprovedSteps(s)
  OBVIOUS
<1>1. request'[s] = request[s] /\ decision'[s] = decision[s]
  OBVIOUS
<1>2. ApprovedSteps(s)' = ApprovedSteps(s)
  BY <1>1 DEF ApprovedSteps, StepsOf
<1>3. CASE request[s].status = "ABSENT"
  BY <1>1, <1>2, <1>3 DEF StateOf
<1>4. CASE request[s].status # "ABSENT"
  <2>1. request[s].business # b /\ request[s].business \in Business
    BY <1>4 DEF RuntimeInv, BusinessFollowsRequest, Submitted
  <2> QED BY <1>1, <1>2, <1>4, <2>1 DEF StateOf
<1> QED BY <1>3, <1>4

\* Submission: the request and its business row appear together.
LEMMA CreateRequestSubmits ==
  ASSUME RuntimeInv, NEW r \in Requests, NEW b \in Business, CreateRequest(r, b)
  PROVE  Abstract!AbsNext
<1>1. PICK n \in Steps, row \in RequestRow :
        /\ row.status = "PENDING" /\ row.last = n /\ row.business = b
        /\ request[r].status = "ABSENT"
        /\ request' = [request EXCEPT ![r] = row]
        /\ decision' = decision
        /\ business[b].status = "ABSENT"
        /\ business' = [business EXCEPT ![b] = [status |-> "PENDING", request |-> r]]
  <2>1. PICK u \in Users, n \in Steps : \E resolved \in [1 .. n -> Users] :
          InsertRequest(r, b, u, n, [k \in Steps |-> IF k <= n THEN resolved[k] ELSE None])
    BY DEF CreateRequest
  <2>2. request[r].status = "ABSENT"
        /\ request' = [request EXCEPT ![r] =
             [status |-> "PENDING", employment |-> "PENDING", current |-> 1, last |-> n,
              applicant |-> u, business |-> b]]
    BY <2>1 DEF InsertRequest
  <2>3. [status |-> "PENDING", employment |-> "PENDING", current |-> 1, last |-> n,
         applicant |-> u, business |-> b] \in RequestRow
    BY RuntimeAssumption DEF RequestRow, ProcessStatus, ApplicationStatus, Steps
  <2> QED BY <2>2, <2>3 DEF CreateRequest
<1>2. /\ request'[r] = row /\ business'[b].status = "PENDING"
      /\ \A s \in Requests : s # r => request'[s] = request[s] /\ decision'[s] = decision[s]
      /\ \A e \in Business : e # b => business'[e] = business[e]
  BY <1>1 DEF RuntimeInv, TypeOK
<1>3. \A s \in Submitted : request[s].business # b
  BY <1>1 DEF RuntimeInv, BusinessFollowsRequest, StatusShown, EffectiveStatus, AbsentStatus, Submitted
<1>4. StateOf(r) = "absent" /\ StateOf(r)' = "pending"
  BY <1>1, <1>2, OutcomeValues DEF StateOf
<1>5. ApprovedSteps(r) = {} /\ ApprovedSteps(r)' = {}
  <2>1. \A k \in Steps : decision[r][k] = "PENDING"
    BY <1>1 DEF RuntimeInv, AbsentUndecided
  <2>2. 1 .. request[r].last \subseteq Steps /\ 1 .. request'[r].last \subseteq Steps
    BY <1>1, <1>2, RuntimeAssumption DEF RuntimeInv, TypeOK, RequestRow, Steps
  <2> QED BY <1>1, <2>1, <2>2 DEF ApprovedSteps, StepsOf
<1>6. \A s \in Requests : s # r => /\ StateOf(s)' = StateOf(s)
                                   /\ request'[s].last = request[s].last
                                   /\ ApprovedSteps(s)' = ApprovedSteps(s)
  BY <1>2, <1>3, OthersUnmoved
<1>7. Abstract!Submit(r, n)
  <2>1. /\ [s \in Requests |-> StateOf(s)]'
             = [[s \in Requests |-> StateOf(s)] EXCEPT ![r] = "pending"]
        /\ [s \in Requests |-> request[s].last]'
             = [[s \in Requests |-> request[s].last] EXCEPT ![r] = n]
        /\ [s \in Requests |-> ApprovedSteps(s)]'
             = [[s \in Requests |-> ApprovedSteps(s)] EXCEPT ![r] = {}]
    <3>1. StateOf(r)' = "pending" /\ request'[r].last = n /\ ApprovedSteps(r)' = {}
      BY <1>1, <1>2, <1>4, <1>5
    <3> QED BY <1>6, <3>1
  <2>2. [[s \in Requests |-> ApprovedSteps(s)] EXCEPT ![r] = {}]
          = [s \in Requests |-> ApprovedSteps(s)]
    BY <1>5
  <2> QED BY <1>4, <2>1, <2>2 DEF Abstract!Submit
<1> QED BY <1>7 DEF Abstract!AbsNext, Steps

\* The abstract side of a decision: the pending application of the locked row, with
\* the steps before the decided one approved.
LEMMA DecidedApplication ==
  ASSUME RuntimeInv, NEW c \in Calls, call[c].phase # "idle",
         Pending(call[c].request), request[call[c].request].current = call[c].current
  PROVE  LET r == call[c].request
             b == request[r].business IN
         /\ r \in Requests /\ b \in Business /\ call[c].current \in 1 .. request[r].last
         /\ \A s \in Submitted : s # r => request[s].business # b
         /\ StateOf(r) = "pending"
         /\ ApprovedSteps(r) = 1 .. (call[c].current - 1)
<1> DEFINE r == call[c].request
           n == call[c].current
<1>1. /\ r \in Requests /\ r \in Submitted /\ request[r].business \in Business
      /\ n \in 1 .. request[r].last /\ request[r].last \in Nat
  BY CallFacts, RuntimeAssumption DEF Steps, StepsOf
<1>2. /\ business[request[r].business].status = "PENDING"
      /\ \A s \in Submitted : s # r => request[s].business # request[r].business
      /\ \A k \in StepsOf(r) : /\ k < n => decision[r][k] = "APPROVED"
                               /\ k >= n => decision[r][k] = "PENDING"
  <2>1. business[request[r].business] = [status |-> "PENDING", request |-> r]
    BY DecideFacts
  <2> QED BY <2>1, DecideFacts
<1>3. StateOf(r) = "pending"
  BY <1>1, <1>2, OutcomeValues DEF StateOf, Submitted
<1>4. ApprovedSteps(r) = {k \in 1 .. request[r].last : k < n}
  BY <1>1, <1>2 DEF ApprovedSteps, StepsOf
<1> QED BY <1>1, <1>2, <1>3, <1>4

\* Approving a step that is not the last.
LEMMA ApproveStepApproves ==
  ASSUME RuntimeInv, NEW c \in Calls, NEW r, r = call[c].request, ApproveStep(c)
  PROVE  Abstract!AbsNext
<1>0. PICK n, b, last :
        n = call[c].current /\ b = request[r].business /\ last = request[r].last
  OBVIOUS
<1>1. /\ call[c].phase # "idle" /\ Pending(r) /\ request[r].current = n
      /\ call[c].next = n + 1 /\ n # request[r].last
      /\ UNCHANGED business
  <2>1. call[c].next = IF n = request[r].last THEN 0 ELSE n + 1
    BY <1>0 DEF RuntimeInv, CallsConsistent, ApproveStep, Ready
  <2> QED BY <1>0, <2>1 DEF ApproveStep, Ready, AdvanceStep
<1>2. /\ r \in Requests /\ b \in Business /\ n \in 1 .. request[r].last
      /\ \A s \in Submitted : s # r => request[s].business # b
      /\ StateOf(r) = "pending" /\ ApprovedSteps(r) = 1 .. (n - 1)
  BY <1>0, <1>1, DecidedApplication
<1>3. /\ n \in Steps /\ 1 .. request[r].last \subseteq Steps /\ request[r].last \in Nat
  BY <1>0, <1>1, <1>2, CallFacts, RuntimeAssumption DEF Steps
<1>4. /\ request' = [request EXCEPT ![r] = [request[r] EXCEPT !.current = n + 1]]
      /\ decision' = [decision EXCEPT ![r] = [decision[r] EXCEPT ![n] = "APPROVED"]]
  BY <1>0, <1>1, <1>2 DEF ApproveStep, AdvanceStep, DecideStep, RuntimeInv, TypeOK
<1>5. /\ request'[r].status = request[r].status /\ request'[r].business = b
      /\ request'[r].last = last
      /\ decision'[r][n] = "APPROVED"
      /\ \A k \in Steps : k # n => decision'[r][k] = decision[r][k]
      /\ \A s \in Requests : s # r => request'[s] = request[s] /\ decision'[s] = decision[s]
  BY <1>0, <1>2, <1>3, <1>4 DEF RuntimeInv, TypeOK, RequestRow
<1>6. StateOf(r)' = "pending"
  BY <1>0, <1>1, <1>2, <1>5 DEF StateOf
<1>7. ApprovedSteps(r)' = 1 .. n
  <2>1. ApprovedSteps(r)' = ApprovedSteps(r) \cup {n}
    BY <1>0, <1>2, <1>3, <1>5 DEF ApprovedSteps, StepsOf
  <2> QED BY <1>2, <1>3, <2>1
<1>8. \A s \in Requests : s # r => /\ StateOf(s)' = StateOf(s)
                                   /\ request'[s].last = request[s].last
                                   /\ ApprovedSteps(s)' = ApprovedSteps(s)
  <2>1. /\ \A s \in Submitted : s # r => request[s].business # b
        /\ \A s \in Requests : s # r => request'[s] = request[s] /\ decision'[s] = decision[s]
        /\ \A e \in Business : e # b => business'[e] = business[e]
    BY <1>0, <1>1, <1>2, <1>5
  <2>2. r \in Requests
    BY <1>2
  <2> QED BY <2>1, <2>2, OthersUnmoved
<1>9. Abstract!Approve(r, n)
  <2>1. /\ [s \in Requests |-> StateOf(s)]'
             = [[s \in Requests |-> StateOf(s)] EXCEPT ![r] = "pending"]
        /\ [s \in Requests |-> request[s].last]'
             = [[s \in Requests |-> request[s].last] EXCEPT ![r] = last]
        /\ [s \in Requests |-> ApprovedSteps(s)]'
             = [[s \in Requests |-> ApprovedSteps(s)] EXCEPT ![r] = 1 .. n]
    <3>1. StateOf(r)' = "pending" /\ request'[r].last = last /\ ApprovedSteps(r)' = 1 .. n
      BY <1>5, <1>6, <1>7
    <3>2. r \in Requests
      BY <1>2
    <3> QED BY <1>8, <3>1, <3>2
  <2>2. [[s \in Requests |-> request[s].last] EXCEPT ![r] = last]
          = [s \in Requests |-> request[s].last]
    BY <1>0
  <2> QED BY <1>0, <1>1, <1>2, <2>1, <2>2 DEF Abstract!Approve
<1> QED BY <1>2, <1>9 DEF Abstract!AbsNext

\* The end of a request, by one of its approvers or by its applicant: the request
\* row is closed and its business row takes the status of the outcome.
LEMMA ClosedRows ==
  ASSUME RuntimeInv, NEW c \in Calls, call[c].phase # "idle", NEW status, NEW employment,
         SyncBusinessStatus(call[c].request, employment),
         ClosePendingRequest(c, status, employment)
  PROVE  \E r \in Requests, b \in Business, n \in Nat, last \in Nat :
           /\ r = call[c].request /\ b = request[r].business
           /\ n = call[c].current /\ last = request[r].last
           /\ Pending(r) /\ request[r].current = n
           /\ n \in Steps /\ n <= last /\ 1 .. last \subseteq Steps
           /\ request'[r].status = status /\ request'[r].business = b
           /\ request'[r].last = last
           /\ business'[b].status = employment
           /\ \A s \in Requests : s # r => request'[s] = request[s]
           /\ \A e \in Business : e # b => business'[e] = business[e]
           /\ \A s \in Submitted : s # r => request[s].business # b
           /\ StateOf(r) = "pending" /\ ApprovedSteps(r) = 1 .. (n - 1)
<1>1. PICK r, b, n, last : /\ r = call[c].request /\ b = request[r].business
                           /\ n = call[c].current /\ last = request[r].last
  OBVIOUS
<1>2. Pending(r) /\ request[r].current = n
  BY <1>1 DEF ClosePendingRequest
<1>3. /\ r \in Requests /\ b \in Business /\ n \in Steps /\ n \in Nat /\ last \in Nat
      /\ n <= last /\ 1 .. last \subseteq Steps
  BY <1>1, CallFacts, RuntimeAssumption DEF Steps, StepsOf
<1>4. /\ \A s \in Submitted : s # r => request[s].business # b
      /\ StateOf(r) = "pending" /\ ApprovedSteps(r) = 1 .. (n - 1)
  BY <1>1, <1>2, DecidedApplication
<1>5. request' = [request EXCEPT ![r] = [request[r] EXCEPT !.status = status,
                                                          !.employment = employment]]
  BY <1>1, <1>3 DEF ClosePendingRequest, RuntimeInv, TypeOK
<1>6. /\ request'[r].status = status /\ request'[r].business = b
      /\ request'[r].last = last
      /\ \A s \in Requests : s # r => request'[s] = request[s]
  BY <1>1, <1>3, <1>5 DEF RuntimeInv, TypeOK, RequestRow
<1>7. /\ business'[b].status = employment
      /\ \A e \in Business : e # b => business'[e] = business[e]
  BY <1>1, <1>3 DEF SyncBusinessStatus, RuntimeInv, TypeOK, BusinessRow
<1> QED BY <1>1, <1>2, <1>3, <1>4, <1>6, <1>7

\* The abstract variables change at the application of the closed request only.
LEMMA ClosedApplication ==
  ASSUME RuntimeInv, NEW r \in Requests, NEW b \in Business,
         request'[r].status # "ABSENT", request'[r].business = b,
         request'[r].last = request[r].last,
         \A s \in Requests : s # r => request'[s] = request[s] /\ decision'[s] = decision[s],
         \A e \in Business : e # b => business'[e] = business[e],
         \A s \in Submitted : s # r => request[s].business # b
  PROVE  /\ [s \in Requests |-> StateOf(s)]'
              = [[s \in Requests |-> StateOf(s)] EXCEPT ![r] = Outcome(business'[b].status)]
         /\ [s \in Requests |-> request[s].last]' = [s \in Requests |-> request[s].last]
         /\ [s \in Requests |-> ApprovedSteps(s)]'
              = [[s \in Requests |-> ApprovedSteps(s)] EXCEPT
                   ![r] = {k \in 1 .. request[r].last : decision'[r][k] = "APPROVED"}]
<1>1. StateOf(r)' = Outcome(business'[b].status)
  BY DEF StateOf, Outcome
<1>2. ApprovedSteps(r)' = {k \in 1 .. request[r].last : decision'[r][k] = "APPROVED"}
  BY DEF ApprovedSteps, StepsOf
<1>3. \A s \in Requests : s # r => /\ StateOf(s)' = StateOf(s)
                                   /\ request'[s].last = request[s].last
                                   /\ ApprovedSteps(s)' = ApprovedSteps(s)
  BY OthersUnmoved
<1> QED BY <1>1, <1>2, <1>3

\* The last approval settles the application.
LEMMA ApproveFinalStepApproves ==
  ASSUME RuntimeInv, NEW c \in Calls, ApproveFinalStep(c)
  PROVE  Abstract!AbsNext
<1>1. /\ call[c].phase = "ready" /\ call[c].op = "approve" /\ call[c].next = 0
      /\ call[c].phase # "idle"
      /\ SyncBusinessStatus(call[c].request, "PENDING_EFFECTIVE")
      /\ ClosePendingRequest(c, "APPROVED", "PENDING_EFFECTIVE")
      /\ DecideStep(call[c].request, call[c].current, "APPROVED")
  BY DEF ApproveFinalStep, Ready
<1>2. PICK r \in Requests, b \in Business, n \in Nat, last \in Nat :
        /\ r = call[c].request /\ b = request[r].business
        /\ n = call[c].current /\ last = request[r].last
        /\ n \in Steps /\ n <= last /\ 1 .. last \subseteq Steps
        /\ request'[r].status = "APPROVED" /\ request'[r].business = b
        /\ request'[r].last = last
        /\ business'[b].status = "PENDING_EFFECTIVE"
        /\ \A s \in Requests : s # r => request'[s] = request[s]
        /\ \A e \in Business : e # b => business'[e] = business[e]
        /\ \A s \in Submitted : s # r => request[s].business # b
        /\ StateOf(r) = "pending" /\ ApprovedSteps(r) = 1 .. (n - 1)
  BY <1>1, ClosedRows
<1>3. n = last
  <2>1. 0 = IF n = last THEN 0 ELSE n + 1
    BY <1>1, <1>2 DEF RuntimeInv, CallsConsistent
  <2> QED BY <1>2, <2>1
<1>4. /\ decision'[r][n] = "APPROVED"
      /\ \A k \in Steps : k # n => decision'[r][k] = decision[r][k]
      /\ \A s \in Requests : s # r => decision'[s] = decision[s]
  <2>1. decision' = [decision EXCEPT ![r] = [decision[r] EXCEPT ![n] = "APPROVED"]]
    BY <1>1, <1>2 DEF DecideStep
  <2> QED BY <1>2, <2>1 DEF RuntimeInv, TypeOK
<1>5. 1 .. n = {k \in 1 .. request[r].last : decision'[r][k] = "APPROVED"}
  <2>1. \A k \in 1 .. last : k # n => k \in 1 .. (n - 1)
    BY <1>2, <1>3
  <2>2. \A k \in 1 .. (n - 1) : k \in 1 .. last /\ decision[r][k] = "APPROVED" /\ k # n
    BY <1>2, <1>3 DEF ApprovedSteps, StepsOf
  <2>3. \A k \in 1 .. last : decision'[r][k] = "APPROVED"
    BY <1>2, <1>4, <2>1, <2>2
  <2> QED BY <1>2, <1>3, <2>3
<1>6. /\ [s \in Requests |-> StateOf(s)]'
           = [[s \in Requests |-> StateOf(s)] EXCEPT ![r] = Outcome("PENDING_EFFECTIVE")]
      /\ [s \in Requests |-> request[s].last]' = [s \in Requests |-> request[s].last]
      /\ [s \in Requests |-> ApprovedSteps(s)]'
           = [[s \in Requests |-> ApprovedSteps(s)] EXCEPT ![r] = 1 .. n]
  <2>1. /\ request'[r].status # "ABSENT" /\ request'[r].business = b
        /\ request'[r].last = request[r].last
        /\ \A s \in Requests : s # r => request'[s] = request[s] /\ decision'[s] = decision[s]
        /\ \A e \in Business : e # b => business'[e] = business[e]
        /\ \A s \in Submitted : s # r => request[s].business # b
    BY <1>2, <1>4
  <2>2. /\ [s \in Requests |-> StateOf(s)]'
             = [[s \in Requests |-> StateOf(s)] EXCEPT ![r] = Outcome(business'[b].status)]
        /\ [s \in Requests |-> request[s].last]' = [s \in Requests |-> request[s].last]
        /\ [s \in Requests |-> ApprovedSteps(s)]'
             = [[s \in Requests |-> ApprovedSteps(s)] EXCEPT
                  ![r] = {k \in 1 .. request[r].last : decision'[r][k] = "APPROVED"}]
    BY <2>1, ClosedApplication
  <2> QED BY <1>2, <1>4, <1>5, <2>2
<1>7. n \in 1 .. request[r].last
  BY <1>2 DEF Steps
<1>8. Abstract!Approve(r, n)
  BY <1>2, <1>3, <1>6, OutcomeValues DEF Abstract!Approve
<1> QED BY <1>7, <1>8 DEF Abstract!AbsNext

\* Return and rejection turn the application down; they approve nothing.
LEMMA TurnedDown ==
  ASSUME RuntimeInv, NEW c \in Calls, call[c].phase # "idle",
         NEW status, NEW employment, NEW d, status # "ABSENT", d # "APPROVED",
         DecideStep(call[c].request, call[c].current, d),
         SyncBusinessStatus(call[c].request, employment),
         ClosePendingRequest(c, status, employment),
         Outcome(employment) \in {"rejected", "returned"}
  PROVE  Abstract!AbsNext
<1>1. PICK r \in Requests, b \in Business, n \in Nat, last \in Nat :
        /\ r = call[c].request /\ b = request[r].business
        /\ n = call[c].current /\ last = request[r].last
        /\ n \in Steps /\ n <= last /\ 1 .. last \subseteq Steps
        /\ request'[r].status = status /\ request'[r].business = b
        /\ request'[r].last = last
        /\ business'[b].status = employment
        /\ \A s \in Requests : s # r => request'[s] = request[s]
        /\ \A e \in Business : e # b => business'[e] = business[e]
        /\ \A s \in Submitted : s # r => request[s].business # b
        /\ StateOf(r) = "pending"
  BY ClosedRows
<1>2. /\ decision[r][n] # "APPROVED" /\ decision'[r][n] # "APPROVED"
      /\ \A k \in Steps : k # n => decision'[r][k] = decision[r][k]
      /\ \A s \in Requests : s # r => decision'[s] = decision[s]
  <2>1. /\ decision' = [decision EXCEPT ![r] = [decision[r] EXCEPT ![n] = d]]
        /\ decision[r][n] = "PENDING"
    BY <1>1 DEF DecideStep
  <2> QED BY <1>1, <2>1 DEF RuntimeInv, TypeOK
<1>3. PICK A : A = {k \in 1 .. request[r].last : decision'[r][k] = "APPROVED"}
  OBVIOUS
<1>4. ApprovedSteps(r) = A
  <2>1. \A k \in 1 .. last : decision'[r][k] = "APPROVED" <=> decision[r][k] = "APPROVED"
    BY <1>1, <1>2
  <2> QED BY <1>1, <1>3, <2>1 DEF ApprovedSteps, StepsOf
<1>5. /\ [s \in Requests |-> StateOf(s)]'
           = [[s \in Requests |-> StateOf(s)] EXCEPT ![r] = Outcome(employment)]
      /\ [s \in Requests |-> request[s].last]' = [s \in Requests |-> request[s].last]
      /\ [s \in Requests |-> ApprovedSteps(s)]'
           = [[s \in Requests |-> ApprovedSteps(s)] EXCEPT ![r] = A]
  <2>1. /\ request'[r].status # "ABSENT" /\ request'[r].business = b
        /\ request'[r].last = request[r].last
        /\ \A s \in Requests : s # r => request'[s] = request[s] /\ decision'[s] = decision[s]
        /\ \A e \in Business : e # b => business'[e] = business[e]
        /\ \A s \in Submitted : s # r => request[s].business # b
    BY <1>1, <1>2
  <2>2. /\ [s \in Requests |-> StateOf(s)]'
             = [[s \in Requests |-> StateOf(s)] EXCEPT ![r] = Outcome(business'[b].status)]
        /\ [s \in Requests |-> request[s].last]' = [s \in Requests |-> request[s].last]
        /\ [s \in Requests |-> ApprovedSteps(s)]'
             = [[s \in Requests |-> ApprovedSteps(s)] EXCEPT
                  ![r] = {k \in 1 .. request[r].last : decision'[r][k] = "APPROVED"}]
    BY <2>1, ClosedApplication
  <2> QED BY <1>1, <1>2, <1>3, <2>2
<1>6. [s \in Requests |-> ApprovedSteps(s)]' = [s \in Requests |-> ApprovedSteps(s)]
  BY <1>4, <1>5
<1>7. Abstract!TurnDown(r, Outcome(employment))
  BY <1>1, <1>5, <1>6 DEF Abstract!TurnDown
<1> QED BY <1>1, <1>7 DEF Abstract!AbsNext

\* Withdrawal, only while nothing is decided.
LEMMA WithdrawWithdraws ==
  ASSUME RuntimeInv, NEW c \in Calls, Withdraw(c)
  PROVE  Abstract!AbsNext
<1>1. /\ call[c].phase # "idle" /\ call[c].current = 1
      /\ SyncBusinessStatus(call[c].request, "WITHDRAWN")
      /\ ClosePendingRequest(c, "WITHDRAWN", "WITHDRAWN")
      /\ decision' = decision
  BY DEF Withdraw, Ready, RuntimeInv, CallsConsistent
<1>2. PICK r \in Requests, b \in Business, n \in Nat, last \in Nat :
        /\ r = call[c].request /\ b = request[r].business
        /\ n = call[c].current /\ last = request[r].last
        /\ request'[r].status = "WITHDRAWN" /\ request'[r].business = b
        /\ request'[r].last = last
        /\ business'[b].status = "WITHDRAWN"
        /\ \A s \in Requests : s # r => request'[s] = request[s]
        /\ \A e \in Business : e # b => business'[e] = business[e]
        /\ \A s \in Submitted : s # r => request[s].business # b
        /\ StateOf(r) = "pending" /\ ApprovedSteps(r) = 1 .. (n - 1)
  BY <1>1, ClosedRows
<1>3. ApprovedSteps(r) = {}
  BY <1>1, <1>2
<1>4. {} = {k \in 1 .. request[r].last : decision'[r][k] = "APPROVED"}
  BY <1>1, <1>3 DEF ApprovedSteps, StepsOf
<1>5. /\ [s \in Requests |-> StateOf(s)]'
           = [[s \in Requests |-> StateOf(s)] EXCEPT ![r] = Outcome("WITHDRAWN")]
      /\ [s \in Requests |-> request[s].last]' = [s \in Requests |-> request[s].last]
      /\ [s \in Requests |-> ApprovedSteps(s)]'
           = [[s \in Requests |-> ApprovedSteps(s)] EXCEPT ![r] = {}]
  <2>1. /\ request'[r].status # "ABSENT" /\ request'[r].business = b
        /\ request'[r].last = request[r].last
        /\ \A s \in Requests : s # r => request'[s] = request[s] /\ decision'[s] = decision[s]
        /\ \A e \in Business : e # b => business'[e] = business[e]
        /\ \A s \in Submitted : s # r => request[s].business # b
    BY <1>1, <1>2
  <2>2. /\ [s \in Requests |-> StateOf(s)]'
             = [[s \in Requests |-> StateOf(s)] EXCEPT ![r] = Outcome(business'[b].status)]
        /\ [s \in Requests |-> request[s].last]' = [s \in Requests |-> request[s].last]
        /\ [s \in Requests |-> ApprovedSteps(s)]'
             = [[s \in Requests |-> ApprovedSteps(s)] EXCEPT
                  ![r] = {k \in 1 .. request[r].last : decision'[r][k] = "APPROVED"}]
    BY <2>1, ClosedApplication
  <2> QED BY <1>1, <1>2, <1>4, <2>2
<1>6. [s \in Requests |-> ApprovedSteps(s)]' = [s \in Requests |-> ApprovedSteps(s)]
  BY <1>3, <1>5
<1>7. Abstract!WithdrawUndecided(r)
  BY <1>2, <1>3, <1>5, <1>6, OutcomeValues DEF Abstract!WithdrawUndecided
<1> QED BY <1>7 DEF Abstract!AbsNext

\* Activation lets a unanimously approved application take effect.
LEMMA ActivateTakesEffect ==
  ASSUME RuntimeInv, NEW c \in Calls, Activate(c)
  PROVE  Abstract!AbsNext
<1>1. PICK r, b, last : /\ r = call[c].request /\ b = request[r].business
                        /\ last = request[r].last
  OBVIOUS
<1>2. /\ r \in Requests /\ b \in Business /\ r \in Submitted
      /\ business[b].status = "PENDING_EFFECTIVE" /\ FinallyApproved(r)
      /\ business' = [business EXCEPT ![b].status = EffectiveStatus(b)]
      /\ request' = [request EXCEPT ![r] = [request[r] EXCEPT !.status = "COMPLETED",
                                                             !.employment = "COMPLETED"]]
      /\ decision' = decision
  BY <1>1, CallFacts DEF Activate, Ready, CompleteEffective, RuntimeInv, TypeOK
<1>3. /\ request'[r].status = "COMPLETED" /\ request'[r].business = b
      /\ request'[r].last = request[r].last
      /\ business'[b].status = EffectiveStatus(b)
      /\ \A s \in Requests : s # r => request'[s] = request[s] /\ decision'[s] = decision[s]
      /\ \A e \in Business : e # b => business'[e] = business[e]
      /\ \A s \in Submitted : s # r => request[s].business # b
  BY <1>1, <1>2 DEF RuntimeInv, TypeOK, RequestRow, BusinessRow, BusinessFollowsRequest
<1>4. StateOf(r) = "approved" /\ Outcome(EffectiveStatus(b)) = "effective"
  BY <1>1, <1>2, OutcomeValues DEF StateOf, EffectiveStatus, Submitted
<1>5. 1 .. last = {k \in 1 .. request[r].last : decision'[r][k] = "APPROVED"}
  BY <1>1, <1>2 DEF FinallyApproved, StepsOf
<1>6. ApprovedSteps(r) = 1 .. last
  BY <1>1, <1>2 DEF FinallyApproved, ApprovedSteps, StepsOf
<1>7. PICK e : e = EffectiveStatus(b)
  OBVIOUS
<1>8. /\ [s \in Requests |-> StateOf(s)]'
           = [[s \in Requests |-> StateOf(s)] EXCEPT ![r] = Outcome(e)]
      /\ [s \in Requests |-> request[s].last]' = [s \in Requests |-> request[s].last]
      /\ [s \in Requests |-> ApprovedSteps(s)]'
           = [[s \in Requests |-> ApprovedSteps(s)] EXCEPT ![r] = 1 .. last]
  <2>1. /\ request'[r].status # "ABSENT" /\ request'[r].business = b
        /\ request'[r].last = request[r].last
        /\ \A s \in Requests : s # r => request'[s] = request[s] /\ decision'[s] = decision[s]
        /\ \A d \in Business : d # b => business'[d] = business[d]
        /\ \A s \in Submitted : s # r => request[s].business # b
    BY <1>2, <1>3
  <2>0. r \in Requests /\ b \in Business
    BY <1>2
  <2>2. /\ [s \in Requests |-> StateOf(s)]'
             = [[s \in Requests |-> StateOf(s)] EXCEPT ![r] = Outcome(business'[b].status)]
        /\ [s \in Requests |-> request[s].last]' = [s \in Requests |-> request[s].last]
        /\ [s \in Requests |-> ApprovedSteps(s)]'
             = [[s \in Requests |-> ApprovedSteps(s)] EXCEPT
                  ![r] = {k \in 1 .. request[r].last : decision'[r][k] = "APPROVED"}]
    BY <2>0, <2>1, ClosedApplication
  <2> QED BY <1>2, <1>3, <1>5, <1>7, <2>2
<1>9. [s \in Requests |-> ApprovedSteps(s)]' = [s \in Requests |-> ApprovedSteps(s)]
  BY <1>6, <1>8
<1>10. Abstract!TakeEffect(r)
  BY <1>1, <1>2, <1>4, <1>6, <1>7, <1>8, <1>9 DEF Abstract!TakeEffect
<1> QED BY <1>2, <1>10 DEF Abstract!AbsNext

-----------------------------------------------------------------------------
\* A step that keeps the tables keeps every application.
LEMMA StutterKeeps ==
  ASSUME UNCHANGED <<request, decision, business>>
  PROVE  UNCHANGED Abstract!absVars
BY DEF Abstract!absVars, StateOf, ApprovedSteps, StepsOf

\* Whatever calls race, the runtime behaves as the atomic serial approval: every
\* behaviour of the transactions is a behaviour of SerialApproval.
THEOREM RuntimeImplementsSerialApproval == Spec => ImplementsSerialApproval
<1>1. Init => Abstract!AbsInit
  <2> SUFFICES ASSUME Init PROVE Abstract!AbsInit
    OBVIOUS
  <2>1. \A r \in Requests : /\ request[r].last = 1 /\ request[r].status = "ABSENT"
                            /\ \A k \in Steps : decision[r][k] = "PENDING"
    BY DEF Init, NoRequest
  <2>2. 1 .. 1 \subseteq Steps
    BY RuntimeAssumption DEF Steps
  <2>3. \A r \in Requests : StateOf(r) = "absent" /\ ApprovedSteps(r) = {}
    BY <2>1, <2>2 DEF StateOf, ApprovedSteps, StepsOf
  <2> QED BY <2>1, <2>3 DEF Abstract!AbsInit
<1>2. RuntimeInv /\ [Next]_vars => [Abstract!AbsNext]_(Abstract!absVars)
  <2> SUFFICES ASSUME RuntimeInv, [Next]_vars
               PROVE  Abstract!AbsNext \/ UNCHANGED Abstract!absVars
    OBVIOUS
  <2>1. ASSUME NEW r \in Requests, NEW b \in Business, CreateRequest(r, b)
        PROVE  Abstract!AbsNext
    BY <2>1, CreateRequestSubmits
  <2>2. ASSUME NEW c \in Calls, Read(c) \/ RollBack(c)
        PROVE  UNCHANGED Abstract!absVars
    BY <2>2, StutterKeeps
       DEF Read, LoadRequest, LoadStepsToDecide, LoadStepsToWithdraw, LoadForActivation, RollBack
  <2>3. ASSUME NEW c \in Calls, Commit(c)
        PROVE  Abstract!AbsNext
    <3>1. CASE ApproveStep(c)
      BY <3>1, ApproveStepApproves
    <3>2. CASE ApproveFinalStep(c)
      BY <3>2, ApproveFinalStepApproves
    <3>3. CASE ReturnForRevision(c)
      BY <3>3, TurnedDown, OutcomeValues DEF ReturnForRevision, Ready
    <3>4. CASE Reject(c)
      BY <3>4, TurnedDown, OutcomeValues DEF Reject, Ready
    <3>5. CASE Withdraw(c)
      BY <3>5, WithdrawWithdraws
    <3>6. CASE Activate(c)
      BY <3>6, ActivateTakesEffect
    <3> QED BY <2>3, <3>1, <3>2, <3>3, <3>4, <3>5, <3>6 DEF Commit
  <2>4. CASE UNCHANGED vars
    BY <2>4, StutterKeeps DEF vars
  <2> QED BY <2>1, <2>2, <2>3, <2>4 DEF Next
<1> QED BY <1>1, <1>2, Invariance, PTL DEF Spec, ImplementsSerialApproval, Abstract!AbsSpec
=============================================================================
