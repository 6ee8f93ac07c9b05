-------------------------- MODULE ProbationWorkflow --------------------------
(***************************************************************************)
(* Probation of one employment period: its dates, its evaluation, the      *)
(* rounds of regularization approval and the confirmation                  *)
(* (backend/src/employment/employment.service, the probation operations).  *)
(*                                                                         *)
(* The approval requests of this workflow have one step and are made and   *)
(* decided here, not by the approval runtime.  A call first reads the      *)
(* probation record (or, an import, the employment period) outside any     *)
(* transaction, then, inside one, the approval or the records, and at last *)
(* writes.  Updates of a record re-check its status, not its dates; the    *)
(* update of a step re-checks its decision, not its approver.              *)
(***************************************************************************)
EXTENDS Naturals

CONSTANTS
  Records,        \* ids of ProbationRecord rows of the period
  Requests,       \* ids of their ApprovalRequest rows
  Users,          \* accounts that may approve
  Calls,          \* API calls that may be in flight at the same time
  MaxDay,         \* bound: the last day of the calendar
  MaxExtensions,  \* bound: extensions of one probation
  None            \* the SQL NULL

ASSUME ProbationAssumption ==
  /\ MaxDay \in Nat
  /\ MaxExtensions \in Nat
  /\ None \notin Records \cup Requests \cup Users \cup Nat

Day == 0 .. MaxDay
Date == Day \cup {None}

Evaluable == {"DRAFT", "IN_PROGRESS"}
Editable == Evaluable \cup {"PENDING", "APPROVED"}

RecordRow ==
  [status : Editable \cup {"ABSENT", "COMPLETED"}, start : Day, end : Day,
   extensions : 0 .. MaxExtensions, confirmed : Date]

\* An ApprovalRequest together with its only step.
RequestRow ==
  [status : {"ABSENT", "PENDING", "APPROVED", "WITHDRAWN"}, record : Records \cup {None},
   approver : Users \cup {None}, decision : {"PENDING", "APPROVED", "SKIPPED"}]
Operation ==
  {"update", "evaluate", "submit", "start", "approve", "transfer", "return", "confirm", "import"}
CallRecord ==
  [at : {"idle", "found", "ready"}, op : Operation, user : Users \cup {None},
   record : Records \cup {None}, status : Editable, request : Requests \cup {None},
   start : Date, end : Date, extends : BOOLEAN]

VARIABLES
  record,      \* record[p]: the ProbationRecord row
  request,     \* request[r]: the ApprovalRequest row and its step
  employment,  \* employmentStatus of the EmploymentPeriod
  current,     \* status and effective date of the EmploymentRecord with currentFlag
  call,        \* call[c]: what the call in flight has read or was given
  overlapped   \* history variable: two calls have been in flight at the same time

rows == <<record, request, employment, current>>
vars == <<record, request, employment, current, call, overlapped>>

NoRecord == [status |-> "ABSENT", start |-> 0, end |-> 0, extensions |-> 0, confirmed |-> None]
NoRequest == [status |-> "ABSENT", record |-> None, approver |-> None, decision |-> "PENDING"]
Idle ==
  [at |-> "idle", op |-> "update", user |-> None, record |-> None, status |-> "DRAFT",
   request |-> None, start |-> None, end |-> None, extends |-> FALSE]

Draft(start, end) == [NoRecord EXCEPT !.status = "DRAFT", !.start = start, !.end = end]

\* A new employee, whose probation was recorded on entry or not at all.  Nothing ties
\* it to the status the employee is created with.
Init ==
  /\ \/ record = [p \in Records |-> NoRecord]
     \/ \E p \in Records, end \in Day :
          record = [q \in Records |-> IF q = p THEN Draft(0, end) ELSE NoRecord]
  /\ request = [r \in Requests |-> NoRequest]
  /\ employment \in {"PROBATION", "REGULAR"}
  /\ current = [status |-> employment, since |-> 0]
  /\ call = [c \in Calls |-> Idle]
  /\ overlapped = FALSE

-----------------------------------------------------------------------------
OpenRequests(p) == {r \in Requests : request[r].status = "PENDING" /\ request[r].record = p}

\* A call comes in and makes the read that precedes its transaction.
Begin(c, known) ==
  /\ call[c].at = "idle"
  /\ call' = [call EXCEPT ![c] = known]
  /\ overlapped' = (overlapped \/ \E d \in Calls \ {c} : call[d].at # "idle")
  /\ UNCHANGED rows

\* findManageableProbation
Found(op, user, p) ==
  [Idle EXCEPT !.at = "found", !.op = op, !.user = user, !.record = p,
               !.status = record[p].status]

Given(date, otherwise) == IF date = None THEN otherwise ELSE date

\* updateProbation checks the dates it will have on the row it has read.
FindToUpdate(c, p, start, end) ==
  /\ record[p].status \in Editable
  /\ start # None \/ end # None
  /\ Given(start, record[p].start) <= Given(end, record[p].end)
  /\ Begin(c, [Found("update", None, p) EXCEPT
       !.start = start, !.end = end, !.extends = Given(end, 0) > record[p].end])

\* startProbationEvaluation and, for this record, startProbationEvaluations
FindToEvaluate(c, p) ==
  /\ record[p].status = "DRAFT"
  /\ Begin(c, Found("evaluate", None, p))

\* submitProbationConfirmation and startProbationConfirmations, with an approver
FindToSubmit(c, op, p, approver) ==
  /\ record[p].status \in IF op = "submit" THEN {"IN_PROGRESS"} ELSE Evaluable
  /\ Begin(c, Found(op, approver, p))

\* approveProbation, transferProbationApproval and returnProbationToEvaluation
FindToDecide(c, op, p, user) ==
  /\ record[p].status = "PENDING"
  /\ Begin(c, Found(op, user, p))

\* Mutant: the date of confirmation is not checked.
FindToConfirmAnyDay(c, p, day) ==
  /\ record[p].status = "APPROVED"
  /\ Begin(c, [Found("confirm", None, p) EXCEPT !.end = day])

\* confirmProbation
FindToConfirm(c, p, day) ==
  /\ record[p].status = "APPROVED"
  /\ day >= record[p].start
  /\ Begin(c, [Found("confirm", None, p) EXCEPT !.end = day])

\* resolveProbationImportTarget: the period must be in probation.
FindImportTarget(c, start, end) ==
  /\ employment = "PROBATION"
  /\ start <= end
  /\ Begin(c, [Idle EXCEPT !.at = "found", !.op = "import", !.start = start, !.end = end])

-----------------------------------------------------------------------------
(***************************************************************************)
(* The read that opens a transaction.                                      *)
(***************************************************************************)
Ready(c, known) ==
  /\ call[c].at = "found"
  /\ call' = [call EXCEPT ![c] = [known EXCEPT !.at = "ready"]]
  /\ UNCHANGED <<rows, overlapped>>

\* assertNoActiveProbationApprovals
CheckNoApproval(c) ==
  /\ call[c].op \in {"submit", "start"}
  /\ OpenRequests(call[c].record) = {}
  /\ Ready(c, call[c])

\* findCurrentProbationApproval and the checks of its pending step.  Request and
\* step are two statements; if a decision comes between them no step is left.
ReadPendingApproval(c, r) ==
  /\ call[c].op \in {"approve", "transfer", "return"}
  /\ r \in OpenRequests(call[c].record)
  /\ request[r].decision = "PENDING"
  /\ request[r].approver = call[c].user
  /\ Ready(c, [call[c] EXCEPT !.request = r])

ReadApprovedApproval(c) ==
  /\ call[c].op = "confirm"
  /\ \E r \in Requests : request[r].status = "APPROVED" /\ request[r].record = call[c].record
  /\ Ready(c, call[c])

\* The record an import row updates: one with its start date, else the only one
\* that is not yet under approval.
ImportsInto(p, start) ==
  LET existing == {q \in Records : record[q].status # "ABSENT"}
      matching == {q \in existing : record[q].start = start}
      evaluable == {q \in existing : record[q].status \in Evaluable} IN
  IF matching # {} THEN p \in matching \cap evaluable ELSE evaluable = {p}

ReadToImportUpdate(c, p) ==
  /\ call[c].op = "import"
  /\ ImportsInto(p, call[c].start)
  /\ Ready(c, [call[c] EXCEPT !.record = p, !.extends = call[c].end > record[p].end])

ReadToImportNew(c) ==
  /\ call[c].op = "import"
  /\ \A p \in Records :
       record[p].status # "ABSENT" =>
         record[p].start # call[c].start /\ record[p].status \in {"APPROVED", "COMPLETED"}
  /\ Ready(c, call[c])

-----------------------------------------------------------------------------
(***************************************************************************)
(* The commits.  Every write is conditional; one that does not match       *)
(* exactly one row rolls the transaction back.                             *)
(***************************************************************************)
At(c, op, at) == call[c].op = op /\ call[c].at = at

Finish(c) ==
  /\ call' = [call EXCEPT ![c] = Idle]
  /\ UNCHANGED overlapped

\* Mutant: a date that is not given is cleared.
ClearsMissingDates(row, start, end, extends) ==
  [row EXCEPT !.start = start, !.end = end, !.extensions = IF extends THEN @ + 1 ELSE @]

WithDates(row, start, end, extends) ==
  [row EXCEPT !.start = Given(start, @), !.end = Given(end, @),
              !.extensions = IF extends THEN @ + 1 ELSE @]

SetDates(p, start, end, extends) ==
  /\ extends => record[p].extensions < MaxExtensions
  /\ record' = [record EXCEPT ![p] = WithDates(@, start, end, extends)]

SetStatus(p, status) == record' = [record EXCEPT ![p].status = status]

UpdateDates(c) ==
  /\ At(c, "update", "found")
  /\ record[call[c].record].status = call[c].status
  /\ SetDates(call[c].record, call[c].start, call[c].end, call[c].extends)
  /\ Finish(c)
  /\ UNCHANGED <<request, employment, current>>

StartEvaluation(c) ==
  /\ At(c, "evaluate", "found")
  /\ record[call[c].record].status = "DRAFT"
  /\ SetStatus(call[c].record, "IN_PROGRESS")
  /\ Finish(c)
  /\ UNCHANGED <<request, employment, current>>

\* The partial unique index allows one open request of a record.
SubmitConfirmation(c, r) ==
  LET p == call[c].record IN
  /\ \/ At(c, "submit", "ready") /\ record[p].status = "IN_PROGRESS"
     \/ At(c, "start", "ready") /\ record[p].status \in Evaluable
  /\ SetStatus(p, "PENDING")
  /\ request[r].status = "ABSENT"
  /\ OpenRequests(p) = {}
  /\ request' = [request EXCEPT ![r] =
       [status |-> "PENDING", record |-> p, approver |-> call[c].user, decision |-> "PENDING"]]
  /\ Finish(c)
  /\ UNCHANGED <<employment, current>>

\* The updates of step, request and record that approve and return make alike.
Decide(c, decision, outcome, status) ==
  LET p == call[c].record
      r == call[c].request IN
  /\ request[r].decision = "PENDING"
  /\ request[r].status = "PENDING"
  /\ request' = [request EXCEPT ![r].decision = decision, ![r].status = outcome]
  /\ record[p].status = "PENDING"
  /\ SetStatus(p, status)
  /\ Finish(c)
  /\ UNCHANGED <<employment, current>>

Approve(c) ==
  /\ At(c, "approve", "ready")
  /\ Decide(c, "APPROVED", "APPROVED", "APPROVED")

\* Mutant: the request is left to its next round.
ReturnsRecordOnly(c) ==
  /\ At(c, "return", "ready")
  /\ record[call[c].record].status = "PENDING"
  /\ SetStatus(call[c].record, "IN_PROGRESS")
  /\ Finish(c)
  /\ UNCHANGED <<request, employment, current>>

ReturnToEvaluation(c) ==
  /\ At(c, "return", "ready")
  /\ Decide(c, "SKIPPED", "WITHDRAWN", "IN_PROGRESS")

\* Mutant: the step is updated by its id alone.
TransfersById(c, to) ==
  /\ At(c, "transfer", "ready")
  /\ to # call[c].user
  /\ request' = [request EXCEPT ![call[c].request].approver = to]
  /\ Finish(c)
  /\ UNCHANGED <<record, employment, current>>

Transfer(c, to) ==
  /\ At(c, "transfer", "ready")
  /\ to # call[c].user
  /\ request[call[c].request].decision = "PENDING"
  /\ request' = [request EXCEPT ![call[c].request].approver = to]
  /\ Finish(c)
  /\ UNCHANGED <<record, employment, current>>

\* Mutant: the period is made regular whatever it is.
ConfirmsAgain(c) ==
  LET p == call[c].record IN
  /\ At(c, "confirm", "ready")
  /\ record[p].status = "APPROVED"
  /\ record' = [record EXCEPT ![p].status = "COMPLETED", ![p].confirmed = call[c].end]
  /\ employment' = "REGULAR"
  /\ current' = [status |-> "REGULAR", since |-> call[c].end]
  /\ Finish(c)
  /\ UNCHANGED request

Confirm(c) ==
  LET p == call[c].record IN
  /\ At(c, "confirm", "ready")
  /\ record[p].status = "APPROVED"
  /\ record' = [record EXCEPT ![p].status = "COMPLETED", ![p].confirmed = call[c].end]
  /\ employment = "PROBATION"
  /\ employment' = "REGULAR"
  /\ current' = [status |-> "REGULAR", since |-> call[c].end]
  /\ Finish(c)
  /\ UNCHANGED request

\* persistProbationImportRow, update and create; the partial unique index allows
\* one record of the period that is not completed.
ImportUpdate(c) ==
  LET p == call[c].record IN
  /\ At(c, "import", "ready")
  /\ p # None
  /\ record[p].status \in Evaluable
  /\ SetDates(p, call[c].start, call[c].end, call[c].extends)
  /\ Finish(c)
  /\ UNCHANGED <<request, employment, current>>

ImportNew(c, p) ==
  /\ At(c, "import", "ready")
  /\ call[c].record = None
  /\ record[p].status = "ABSENT"
  /\ \A q \in Records : record[q].status \notin Editable
  /\ record' = [record EXCEPT ![p] = Draft(call[c].start, call[c].end)]
  /\ Finish(c)
  /\ UNCHANGED <<request, employment, current>>

\* A check throws, an update matches no row, an index refuses, the process dies.
RollBack(c) ==
  /\ call[c].at # "idle"
  /\ Finish(c)
  /\ UNCHANGED rows

Find(c) ==
  \/ \E p \in Records :
       \/ \E start, end \in Date : FindToUpdate(c, p, start, end)
       \/ FindToEvaluate(c, p)
       \/ \E op \in {"submit", "start"}, approver \in Users : FindToSubmit(c, op, p, approver)
       \/ \E op \in {"approve", "transfer", "return"}, user \in Users :
            FindToDecide(c, op, p, user)
       \/ \E day \in Day : FindToConfirm(c, p, day)
  \/ \E start, end \in Day : FindImportTarget(c, start, end)

Read(c) ==
  \/ CheckNoApproval(c)
  \/ \E r \in Requests : ReadPendingApproval(c, r)
  \/ ReadApprovedApproval(c)
  \/ \E p \in Records : ReadToImportUpdate(c, p)
  \/ ReadToImportNew(c)

Commit(c) ==
  \/ UpdateDates(c)
  \/ StartEvaluation(c)
  \/ \E r \in Requests : SubmitConfirmation(c, r)
  \/ Approve(c)
  \/ ReturnToEvaluation(c)
  \/ \E to \in Users : Transfer(c, to)
  \/ Confirm(c)
  \/ ImportUpdate(c)
  \/ \E p \in Records : ImportNew(c, p)

Next == \E c \in Calls : Find(c) \/ Read(c) \/ Commit(c) \/ RollBack(c)

Spec == Init /\ [][Next]_vars

-----------------------------------------------------------------------------
(***************************************************************************)
(* Properties                                                              *)
(***************************************************************************)
\* Every variable keeps its shape.
ProbationTypeOK ==
  /\ record \in [Records -> RecordRow]
  /\ request \in [Requests -> RequestRow]
  /\ employment \in {"PROBATION", "REGULAR"}
  /\ current \in [status : {"PROBATION", "REGULAR"}, since : Day]
  /\ call \in [Calls -> CallRecord]
  /\ overlapped \in BOOLEAN

\* docs/PROJECT_STATUS.md line 330: returning and approving leave no dangling
\* approval.  A record is PENDING exactly while one request of it is open, however
\* often it was sent back; it is approved by one request and never asks again.  An open
\* request can be decided by somebody, a closed one has no step left to decide.
NoDanglingApproval ==
  /\ \A p \in Records :
       /\ record[p].status = "PENDING" <=> OpenRequests(p) # {}
       /\ \A r, s \in OpenRequests(p) : r = s
       /\ record[p].status \in {"APPROVED", "COMPLETED"} <=>
            \E r \in Requests : request[r].record = p /\ request[r].status = "APPROVED"
  /\ \A r \in Requests :
       request[r].status # "ABSENT" =>
         <<request[r].status, request[r].decision>> \in
           {<<"PENDING", "PENDING">>, <<"APPROVED", "APPROVED">>, <<"WITHDRAWN", "SKIPPED">>}

\* A period is confirmed at most once, whatever confirmations and imports race, and
\* its current employment record dates from the day of that confirmation.
ConfirmedOnce ==
  LET completed == {p \in Records : record[p].status = "COMPLETED"} IN
  /\ current.status = employment
  /\ \A p \in completed :
       completed = {p} /\ employment = "REGULAR" /\ current.since = record[p].confirmed

\* docs/PROJECT_STATUS.md line 330: after approval comes confirmation.  It requires a
\* period in probation.
ApprovedCanBeConfirmed ==
  \A p \in Records : record[p].status = "APPROVED" => employment = "PROBATION"

\* As long as calls do not overlap, a probation does not end, nor is it confirmed,
\* before it starts: single dates are changed by update, both by import, and
\* confirmation compares with the start alone.
DatesInOrder ==
  ~overlapped =>
    \A p \in Records :
      /\ record[p].start <= record[p].end
      /\ record[p].confirmed # None => record[p].start <= record[p].confirmed

\* A decided request is history: neither a late transfer nor a late decision of a call
\* that read it before changes it.  As long as calls do not overlap, a step is decided by
\* its approver at that moment, also after a transfer.
DecidedByApprover ==
  [][\A r \in Requests :
       /\ request[r].status \in {"APPROVED", "WITHDRAWN"} => request'[r] = request[r]
       /\ ~overlapped /\ request[r].decision = "PENDING" /\ request'[r].decision # "PENDING" =>
            \E c \in Calls : call[c].request = r /\ call[c].user = request[r].approver]_vars
=============================================================================
