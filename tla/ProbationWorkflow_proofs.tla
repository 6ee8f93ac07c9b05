----------------------- MODULE ProbationWorkflow_proofs -----------------------
(***************************************************************************)
(* Proofs about probation, for any records, requests, users and racing     *)
(* calls, and any calendar: no approval is left dangling, a period is      *)
(* confirmed once, and, unless calls overlap, dates stay in order and a    *)
(* step is decided by its approver.                                        *)
(*                                                                         *)
(* What a call has read before its transaction is stale when it commits.   *)
(* Carried says what stays true of it whoever writes in between, Fresh     *)
(* what is true only while no other call is in flight.                     *)
(***************************************************************************)
EXTENDS ProbationWorkflow, TLAPS

Deciding(k) == k.op \in {"approve", "transfer", "return"} /\ k.at = "ready"
Importing(k) == k.op = "import" /\ k.at # "idle"

Carried(k) ==
  /\ k.op # "import" /\ k.at # "idle" =>
       k.record \in Records /\ record[k.record].status # "ABSENT"
  /\ Importing(k) => k.start \in Day /\ k.end \in Day /\ k.start <= k.end
  /\ k.op = "confirm" /\ k.at # "idle" => k.end \in Day
  /\ k.op \in {"submit", "start"} /\ k.at # "idle" => k.user \in Users
  /\ Deciding(k) => /\ k.request \in Requests
                    /\ request[k.request].record = k.record
                    /\ request[k.request].status # "ABSENT"

Fresh(k) ==
  /\ k.op = "update" /\ k.at = "found" =>
       Given(k.start, record[k.record].start) <= Given(k.end, record[k.record].end)
  /\ k.op = "confirm" /\ k.at # "idle" => record[k.record].start <= k.end
  /\ Deciding(k) => request[k.request].approver = k.user

CallsOK == \A c \in Calls : Carried(call[c])
OverlapOK ==
  /\ \A c, d \in Calls : c # d /\ call[c].at # "idle" /\ call[d].at # "idle" => overlapped
  /\ ~overlapped => \A c \in Calls : Fresh(call[c])

\* The day of confirmation is set with the status COMPLETED.
ConfirmedIsCompleted == \A p \in Records : record[p].confirmed # None => record[p].status = "COMPLETED"

ProbationInv ==
  /\ ProbationTypeOK /\ CallsOK /\ OverlapOK /\ ConfirmedIsCompleted
  /\ NoDanglingApproval /\ ConfirmedOnce /\ DatesInOrder

-----------------------------------------------------------------------------
\* No row goes back to ABSENT, and no request changes its record.
Forward ==
  /\ \A p \in Records : record[p].status # "ABSENT" => record'[p].status # "ABSENT"
  /\ \A r \in Requests : request[r].status # "ABSENT" =>
       request'[r].status # "ABSENT" /\ request'[r].record = request[r].record

LEMMA IdleType == Idle \in CallRecord /\ Idle.at = "idle" /\ Idle.op = "update"
  BY DEF Idle, CallRecord, Operation, Editable, Evaluable, Date

\* A call at rest carries nothing.
LEMMA IdleCarriesNothing ==
  ASSUME NEW k, k.at = "idle"
  PROVE  Carried(k) /\ Fresh(k)
  BY DEF Carried, Fresh, Deciding, Importing

\* What Init and the steps that leave the rows alone keep.
LEMMA RowsKeep ==
  ASSUME ProbationInv, UNCHANGED rows, overlapped => overlapped'
  PROVE  ConfirmedIsCompleted' /\ NoDanglingApproval' /\ ConfirmedOnce' /\ DatesInOrder'
  BY DEF ProbationInv, rows, ConfirmedIsCompleted, NoDanglingApproval, ConfirmedOnce,
     DatesInOrder, OpenRequests

LEMMA BeginKeeps ==
  ASSUME ProbationInv, NEW c \in Calls, NEW k \in CallRecord, Carried(k), Fresh(k), Begin(c, k)
  PROVE  ProbationInv'
<1>1. /\ call' = [call EXCEPT ![c] = k]
      /\ record' = record /\ request' = request /\ employment' = employment
      /\ current' = current
      /\ overlapped' = (overlapped \/ \E d \in Calls \ {c} : call[d].at # "idle")
  BY DEF Begin, rows
<1>2. overlapped \in BOOLEAN /\ call \in [Calls -> CallRecord]
  BY DEF ProbationInv, ProbationTypeOK
<1>3. overlapped' \in BOOLEAN /\ (overlapped => overlapped')
  BY <1>1, <1>2
<1>4. call' \in [Calls -> CallRecord] /\ \A d \in Calls : call'[d] = IF d = c THEN k ELSE call[d]
  BY <1>1, <1>2
<1>5. ProbationTypeOK'
  BY <1>1, <1>3, <1>4 DEF ProbationInv, ProbationTypeOK
<1>6. \A d \in Calls : Carried(call'[d]) /\ (~overlapped' => Fresh(call'[d]))
  BY <1>3, <1>4 DEF ProbationInv, CallsOK, OverlapOK
<1>7. CallsOK'
  BY <1>1, <1>6 DEF CallsOK, Carried
<1>8. ASSUME NEW d \in Calls, NEW e \in Calls, d # e, call'[d].at # "idle", call'[e].at # "idle"
      PROVE  overlapped'
  BY <1>1, <1>4, <1>8 DEF ProbationInv, OverlapOK
<1>9. OverlapOK'
  BY <1>1, <1>6, <1>8 DEF OverlapOK, Fresh
<1>10. UNCHANGED rows
  BY <1>1 DEF rows
<1> QED BY <1>3, <1>5, <1>7, <1>9, <1>10, RowsKeep DEF ProbationInv

\* The read that opens the transaction.
LEMMA ReadyKeeps ==
  ASSUME ProbationInv, NEW c \in Calls, NEW known \in CallRecord, Ready(c, known),
         Carried([known EXCEPT !.at = "ready"]),
         ~overlapped => Fresh([known EXCEPT !.at = "ready"])
  PROVE  ProbationInv'
<1> DEFINE k == [known EXCEPT !.at = "ready"]
<1>0. k \in CallRecord /\ Carried(k) /\ (~overlapped => Fresh(k))
  BY DEF CallRecord
<1>1. /\ call' = [call EXCEPT ![c] = k] /\ call[c].at # "idle"
      /\ record' = record /\ request' = request /\ employment' = employment
      /\ current' = current /\ overlapped' = overlapped
  BY DEF Ready, rows
<1> HIDE DEF k
<1>2. overlapped \in BOOLEAN /\ call \in [Calls -> CallRecord]
  BY DEF ProbationInv, ProbationTypeOK
<1>4. call' \in [Calls -> CallRecord] /\ \A d \in Calls : call'[d] = IF d = c THEN k ELSE call[d]
  BY <1>0, <1>1, <1>2
<1>5. ProbationTypeOK'
  BY <1>1, <1>4 DEF ProbationInv, ProbationTypeOK
<1>6. \A d \in Calls : Carried(call'[d]) /\ (~overlapped => Fresh(call'[d]))
  BY <1>0, <1>4 DEF ProbationInv, CallsOK, OverlapOK
<1>7. CallsOK'
  BY <1>1, <1>6 DEF CallsOK, Carried
<1>8. ASSUME NEW d \in Calls, NEW e \in Calls, d # e, call'[d].at # "idle", call'[e].at # "idle"
      PROVE  overlapped
  <2>1. call[d].at # "idle" /\ call[e].at # "idle"
    BY <1>1, <1>4, <1>8
  <2> QED BY <1>8, <2>1 DEF ProbationInv, OverlapOK
<1>9. OverlapOK'
  BY <1>1, <1>6, <1>8 DEF OverlapOK, Fresh
<1>10. UNCHANGED rows
  BY <1>1 DEF rows
<1> QED BY <1>1, <1>5, <1>7, <1>9, <1>10, RowsKeep DEF ProbationInv

\* The end of a call: the others still have what they carry.  When no other call is in
\* flight, nothing is left to be fresh.
LEMMA FinishKeeps ==
  ASSUME ProbationInv, NEW c \in Calls, call[c].at # "idle", Finish(c), Forward
  PROVE  /\ CallsOK' /\ OverlapOK' /\ call' \in [Calls -> CallRecord]
         /\ overlapped' \in BOOLEAN /\ overlapped' = overlapped
<1>1. call' = [call EXCEPT ![c] = Idle] /\ overlapped' = overlapped
  BY DEF Finish
<1>2. overlapped \in BOOLEAN /\ call \in [Calls -> CallRecord]
  BY DEF ProbationInv, ProbationTypeOK
<1>3. call' \in [Calls -> CallRecord] /\ \A d \in Calls : call'[d] = IF d = c THEN Idle ELSE call[d]
  BY <1>1, <1>2, IdleType
<1>4. ASSUME NEW d \in Calls
      PROVE  Carried(call[d])'
  <2>1. CASE d = c
    <3>1. call'[d].at = "idle"
      BY <1>3, <2>1, IdleType
    <3> QED BY <3>1 DEF Carried, Deciding, Importing
  <2>2. CASE d # c
    <3>1. call'[d] = call[d] /\ Carried(call[d])
      BY <1>3, <2>2 DEF ProbationInv, CallsOK
    <3>2. call[d] \in CallRecord
      BY <1>2
    <3> QED BY <3>1, <3>2 DEF Carried, Deciding, Importing, Forward
  <2> QED BY <2>1, <2>2
<1>5. ASSUME NEW d \in Calls, ~overlapped
      PROVE  call'[d].at = "idle"
  <2>1. CASE d = c
    BY <1>3, <2>1, IdleType
  <2>2. CASE d # c
    <3>1. call[d].at = "idle"
      BY <1>5, <2>2 DEF ProbationInv, OverlapOK
    <3> QED BY <1>3, <2>2, <3>1
  <2> QED BY <2>1, <2>2
<1>6. OverlapOK'
  <2>1. ASSUME NEW d \in Calls, ~overlapped'
        PROVE  Fresh(call[d])'
    BY <1>1, <1>5, <2>1 DEF Fresh, Deciding
  <2>2. \A d, e \in Calls : d # e /\ call'[d].at # "idle" /\ call'[e].at # "idle" => overlapped'
    BY <1>1, <1>5
  <2> QED BY <2>1, <2>2 DEF OverlapOK
<1> QED BY <1>1, <1>2, <1>3, <1>4, <1>6 DEF CallsOK

-----------------------------------------------------------------------------
\* What the reads before a transaction find.
LEMMA FoundType ==
  ASSUME ProbationInv, NEW op \in Operation, NEW user \in Users \cup {None},
         NEW p \in Records, record[p].status \in Editable
  PROVE  /\ Found(op, user, p) \in CallRecord
         /\ Found(op, user, p).at = "found" /\ Found(op, user, p).op = op
         /\ Found(op, user, p).user = user /\ Found(op, user, p).record = p
         /\ record[p].status # "ABSENT"
  BY IdleType DEF Found, CallRecord, Editable, Evaluable

LEMMA FindKeeps ==
  ASSUME ProbationInv, NEW c \in Calls, Find(c)
  PROVE  ProbationInv'
<1>1. ASSUME NEW p \in Records, NEW start \in Date, NEW end \in Date, FindToUpdate(c, p, start, end)
      PROVE  ProbationInv'
  <2> DEFINE extends == Given(end, 0) > record[p].end
             k == [Found("update", None, p) EXCEPT
                     !.start = start, !.end = end, !.extends = extends]
  <2>0. extends \in BOOLEAN
    OBVIOUS
  <2> HIDE DEF extends
  <2>1. /\ record[p].status \in Editable /\ Begin(c, k)
        /\ Given(start, record[p].start) <= Given(end, record[p].end)
    BY <1>1 DEF FindToUpdate, extends
  <2>2. /\ Found("update", None, p) \in CallRecord /\ record[p].status # "ABSENT"
        /\ Found("update", None, p).at = "found" /\ Found("update", None, p).op = "update"
        /\ Found("update", None, p).record = p
    BY <2>1, FoundType DEF Operation
  <2>3. /\ k \in CallRecord /\ k.at = "found" /\ k.op = "update" /\ k.record = p
        /\ k.start = start /\ k.end = end
    BY <2>0, <2>2 DEF CallRecord
  <2> HIDE DEF k
  <2>4. Carried(k) /\ Fresh(k)
    BY <2>1, <2>2, <2>3 DEF Carried, Fresh, Deciding, Importing
  <2> QED BY <2>1, <2>3, <2>4, BeginKeeps
<1>2. ASSUME NEW p \in Records, FindToEvaluate(c, p)
      PROVE  ProbationInv'
  <2> DEFINE k == Found("evaluate", None, p)
  <2>1. record[p].status \in Editable /\ Begin(c, k)
    BY <1>2 DEF FindToEvaluate, Editable, Evaluable
  <2>2. /\ k \in CallRecord /\ k.at = "found" /\ k.op = "evaluate" /\ k.record = p
        /\ record[p].status # "ABSENT"
    BY <2>1, FoundType DEF Operation
  <2> HIDE DEF k
  <2>3. Carried(k) /\ Fresh(k)
    BY <2>2 DEF Carried, Fresh, Deciding, Importing
  <2> QED BY <2>1, <2>2, <2>3, BeginKeeps
<1>3. ASSUME NEW p \in Records, NEW op \in {"submit", "start"}, NEW user \in Users,
             FindToSubmit(c, op, p, user)
      PROVE  ProbationInv'
  <2> DEFINE k == Found(op, user, p)
  <2>1. record[p].status \in Editable /\ Begin(c, k)
    BY <1>3 DEF FindToSubmit, Editable, Evaluable
  <2>2. op \in Operation /\ user \in Users \cup {None}
    BY DEF Operation
  <2>3. /\ k \in CallRecord /\ k.at = "found" /\ k.op = op /\ k.user = user /\ k.record = p
        /\ record[p].status # "ABSENT"
    BY <2>1, <2>2, FoundType
  <2> HIDE DEF k
  <2>4. Carried(k) /\ Fresh(k)
    BY <2>3 DEF Carried, Fresh, Deciding, Importing
  <2> QED BY <2>1, <2>3, <2>4, BeginKeeps
<1>4. ASSUME NEW p \in Records, NEW op \in {"approve", "transfer", "return"}, NEW user \in Users,
             FindToDecide(c, op, p, user)
      PROVE  ProbationInv'
  <2> DEFINE k == Found(op, user, p)
  <2>1. record[p].status \in Editable /\ Begin(c, k)
    BY <1>4 DEF FindToDecide, Editable
  <2>2. op \in Operation /\ user \in Users \cup {None}
    BY DEF Operation
  <2>3. /\ k \in CallRecord /\ k.at = "found" /\ k.op = op /\ k.record = p
        /\ record[p].status # "ABSENT"
    BY <2>1, <2>2, FoundType
  <2> HIDE DEF k
  <2>4. Carried(k) /\ Fresh(k)
    BY <2>3 DEF Carried, Fresh, Deciding, Importing
  <2> QED BY <2>1, <2>3, <2>4, BeginKeeps
<1>5. ASSUME NEW p \in Records, NEW day \in Day, FindToConfirm(c, p, day)
      PROVE  ProbationInv'
  <2> DEFINE k == [Found("confirm", None, p) EXCEPT !.end = day]
  <2>1. record[p].status \in Editable /\ Begin(c, k) /\ day >= record[p].start
    BY <1>5 DEF FindToConfirm, Editable
  <2>2. Found("confirm", None, p) \in CallRecord /\ record[p].status # "ABSENT"
    BY <2>1, FoundType DEF Operation
  <2>3. k \in CallRecord /\ k.at = "found" /\ k.op = "confirm" /\ k.record = p /\ k.end = day
    BY <2>1, <2>2, FoundType DEF CallRecord, Operation, Date
  <2> HIDE DEF k
  <2>4. record[p].start \in Nat /\ day \in Nat
    BY DEF ProbationInv, ProbationTypeOK, RecordRow, Day
  <2>5. Carried(k) /\ Fresh(k)
    BY <2>1, <2>2, <2>3, <2>4 DEF Carried, Fresh, Deciding, Importing
  <2> QED BY <2>1, <2>3, <2>5, BeginKeeps
<1>6. ASSUME NEW start \in Day, NEW end \in Day, FindImportTarget(c, start, end)
      PROVE  ProbationInv'
  <2> DEFINE k == [Idle EXCEPT !.at = "found", !.op = "import", !.start = start, !.end = end]
  <2>1. Begin(c, k) /\ start <= end
    BY <1>6 DEF FindImportTarget
  <2>2. /\ k \in CallRecord /\ k.at = "found" /\ k.op = "import"
        /\ k.start = start /\ k.end = end
    BY IdleType DEF CallRecord, Operation, Date
  <2> HIDE DEF k
  <2>3. Carried(k) /\ Fresh(k)
    BY <2>1, <2>2 DEF Carried, Fresh, Deciding, Importing
  <2> QED BY <2>1, <2>2, <2>3, BeginKeeps
<1> QED BY <1>1, <1>2, <1>3, <1>4, <1>5, <1>6 DEF Find

\* What a call finds inside its transaction.
LEMMA ReadKeeps ==
  ASSUME ProbationInv, NEW c \in Calls, Read(c)
  PROVE  ProbationInv'
<1>1. call[c] \in CallRecord /\ Carried(call[c]) /\ (~overlapped => Fresh(call[c]))
  BY DEF ProbationInv, ProbationTypeOK, CallsOK, OverlapOK
<1>2. CASE CheckNoApproval(c)
  <2> DEFINE k == [call[c] EXCEPT !.at = "ready"]
  <2>1. call[c].at = "found" /\ call[c].op \in {"submit", "start"} /\ Ready(c, call[c])
    BY <1>2 DEF CheckNoApproval, Ready
  <2>2. k.at = "ready" /\ k.op = call[c].op /\ k.record = call[c].record /\ k.user = call[c].user
    BY <1>1 DEF CallRecord
  <2> HIDE DEF k
  <2>3. Carried(k) /\ Fresh(k)
    BY <1>1, <2>1, <2>2 DEF Carried, Fresh, Deciding, Importing
  <2> QED BY <1>1, <2>1, <2>3, ReadyKeeps DEF k
<1>3. ASSUME NEW r \in Requests, ReadPendingApproval(c, r)
      PROVE  ProbationInv'
  <2> DEFINE known == [call[c] EXCEPT !.request = r]
             k == [known EXCEPT !.at = "ready"]
  <2>1. /\ call[c].at = "found" /\ call[c].op \in {"approve", "transfer", "return"}
        /\ request[r].status = "PENDING" /\ request[r].record = call[c].record
        /\ request[r].approver = call[c].user /\ Ready(c, known)
    BY <1>3 DEF ReadPendingApproval, Ready, OpenRequests
  <2>2. /\ known \in CallRecord
        /\ k.at = "ready" /\ k.op = call[c].op /\ k.record = call[c].record
        /\ k.user = call[c].user /\ k.request = r
    BY <1>1 DEF CallRecord
  <2> HIDE DEF k
  <2>3. Carried(k) /\ Fresh(k)
    BY <1>1, <2>1, <2>2 DEF Carried, Fresh, Deciding, Importing
  <2> HIDE DEF known
  <2> QED BY <2>1, <2>2, <2>3, ReadyKeeps DEF k
<1>4. CASE ReadApprovedApproval(c)
  <2> DEFINE k == [call[c] EXCEPT !.at = "ready"]
  <2>1. call[c].at = "found" /\ call[c].op = "confirm" /\ Ready(c, call[c])
    BY <1>4 DEF ReadApprovedApproval, Ready
  <2>2. k.at = "ready" /\ k.op = call[c].op /\ k.record = call[c].record /\ k.end = call[c].end
    BY <1>1 DEF CallRecord
  <2> HIDE DEF k
  <2>3. Carried(k) /\ (~overlapped => Fresh(k))
    BY <1>1, <2>1, <2>2 DEF Carried, Fresh, Deciding, Importing
  <2> QED BY <1>1, <2>1, <2>3, ReadyKeeps DEF k
<1>5. ASSUME NEW p \in Records, ReadToImportUpdate(c, p)
      PROVE  ProbationInv'
  <2> DEFINE extends == call[c].end > record[p].end
             known == [call[c] EXCEPT !.record = p, !.extends = extends]
             k == [known EXCEPT !.at = "ready"]
  <2>0. extends \in BOOLEAN
    OBVIOUS
  <2> HIDE DEF extends
  <2>1. call[c].at = "found" /\ call[c].op = "import" /\ Ready(c, known)
    BY <1>5 DEF ReadToImportUpdate, Ready, extends
  <2>2. /\ known \in CallRecord
        /\ k.at = "ready" /\ k.op = call[c].op /\ k.start = call[c].start /\ k.end = call[c].end
    BY <1>1, <2>0 DEF CallRecord
  <2> HIDE DEF k
  <2>3. Carried(k) /\ Fresh(k)
    BY <1>1, <2>1, <2>2 DEF Carried, Fresh, Deciding, Importing
  <2> HIDE DEF known
  <2> QED BY <2>1, <2>2, <2>3, ReadyKeeps DEF k
<1>6. CASE ReadToImportNew(c)
  <2> DEFINE k == [call[c] EXCEPT !.at = "ready"]
  <2>1. call[c].at = "found" /\ call[c].op = "import" /\ Ready(c, call[c])
    BY <1>6 DEF ReadToImportNew, Ready
  <2>2. k.at = "ready" /\ k.op = call[c].op /\ k.start = call[c].start /\ k.end = call[c].end
    BY <1>1 DEF CallRecord
  <2> HIDE DEF k
  <2>3. Carried(k) /\ Fresh(k)
    BY <1>1, <2>1, <2>2 DEF Carried, Fresh, Deciding, Importing
  <2> QED BY <1>1, <2>1, <2>3, ReadyKeeps DEF k
<1> QED BY <1>2, <1>3, <1>4, <1>5, <1>6 DEF Read

-----------------------------------------------------------------------------
(***************************************************************************)
(* The commits.                                                            *)
(***************************************************************************)
\* A commit that changes a record's dates, or makes a draft of a free one, in a status in
\* which nothing is confirmed: the requests are not concerned.
LEMMA DatesKeep ==
  ASSUME ProbationInv, NEW c \in Calls, call[c].at # "idle", Finish(c),
         NEW p \in Records, NEW row \in RecordRow,
         record' = [record EXCEPT ![p] = row],
         row.status = record[p].status \/ (record[p].status = "ABSENT" /\ row.status = "DRAFT"),
         row.status \in Editable, row.confirmed = None,
         ~overlapped => row.start <= row.end,
         UNCHANGED <<request, employment, current>>
  PROVE  ProbationInv'
<1>1. record \in [Records -> RecordRow]
  BY DEF ProbationInv, ProbationTypeOK
<1>2. /\ record' \in [Records -> RecordRow]
      /\ record'[p] = row /\ \A q \in Records : q # p => record'[q] = record[q]
  BY <1>1
<1>3. Forward
  BY <1>2 DEF Forward, Editable, Evaluable
<1>4. /\ CallsOK' /\ OverlapOK' /\ call' \in [Calls -> CallRecord]
      /\ overlapped' \in BOOLEAN /\ overlapped' = overlapped
  BY <1>3, FinishKeeps
<1>5. ProbationTypeOK'
  BY <1>2, <1>4 DEF ProbationInv, ProbationTypeOK
<1>6. ConfirmedIsCompleted'
  BY <1>2 DEF ProbationInv, ConfirmedIsCompleted
<1>7. NoDanglingApproval'
  BY <1>2 DEF ProbationInv, NoDanglingApproval, OpenRequests, Editable, Evaluable
<1>8. {q \in Records : record'[q].status = "COMPLETED"} =
      {q \in Records : record[q].status = "COMPLETED"}
  BY <1>2 DEF Editable, Evaluable
<1>9. ConfirmedOnce'
  BY <1>2, <1>8 DEF ProbationInv, ConfirmedOnce, Editable, Evaluable
<1>10. DatesInOrder'
  BY <1>2, <1>4 DEF ProbationInv, DatesInOrder
<1> QED BY <1>4, <1>5, <1>6, <1>7, <1>9, <1>10 DEF ProbationInv

LEMMA WithDatesType ==
  ASSUME NEW row \in RecordRow, NEW start \in Date, NEW end \in Date, NEW extends \in BOOLEAN,
         extends => row.extensions < MaxExtensions
  PROVE  /\ WithDates(row, start, end, extends) \in RecordRow
         /\ WithDates(row, start, end, extends).status = row.status
         /\ WithDates(row, start, end, extends).confirmed = row.confirmed
         /\ WithDates(row, start, end, extends).start = Given(start, row.start)
         /\ WithDates(row, start, end, extends).end = Given(end, row.end)
<1>1. Given(start, row.start) \in Day /\ Given(end, row.end) \in Day
  BY DEF Given, Date, RecordRow
<1>2. (IF extends THEN row.extensions + 1 ELSE row.extensions) \in 0 .. MaxExtensions
  BY ProbationAssumption DEF RecordRow
<1> QED BY <1>1, <1>2 DEF WithDates, RecordRow

LEMMA UpdateDatesKeeps ==
  ASSUME ProbationInv, NEW c \in Calls, UpdateDates(c)
  PROVE  ProbationInv'
<1>1. /\ call[c] \in CallRecord /\ Carried(call[c]) /\ (~overlapped => Fresh(call[c]))
      /\ call[c].op = "update" /\ call[c].at = "found"
  BY DEF ProbationInv, ProbationTypeOK, CallsOK, OverlapOK, UpdateDates, At
<1>2. PICK p \in Records : p = call[c].record
  BY <1>1 DEF Carried
<1> DEFINE row == WithDates(record[p], call[c].start, call[c].end, call[c].extends)
<1>3. /\ record[p] \in RecordRow /\ record[p].status \in Editable
      /\ record[p].confirmed = None
  BY <1>1, <1>2 DEF ProbationInv, ProbationTypeOK, UpdateDates, CallRecord, ConfirmedIsCompleted,
     Editable, Evaluable
<1>4. /\ call[c].extends => record[p].extensions < MaxExtensions
      /\ record' = [record EXCEPT ![p] = row]
      /\ Finish(c) /\ UNCHANGED <<request, employment, current>>
  BY <1>2 DEF UpdateDates, SetDates
<1>5. /\ row \in RecordRow /\ row.status = record[p].status /\ row.confirmed = None
      /\ row.start = Given(call[c].start, record[p].start)
      /\ row.end = Given(call[c].end, record[p].end)
  BY <1>1, <1>3, <1>4, WithDatesType DEF CallRecord
<1>6. ~overlapped => row.start <= row.end
  BY <1>1, <1>2, <1>5 DEF Fresh
<1> HIDE DEF row
<1> QED BY <1>1, <1>3, <1>4, <1>5, <1>6, DatesKeep

LEMMA ImportUpdateKeeps ==
  ASSUME ProbationInv, NEW c \in Calls, ImportUpdate(c)
  PROVE  ProbationInv'
<1>1. /\ call[c] \in CallRecord /\ Carried(call[c])
      /\ call[c].op = "import" /\ call[c].at # "idle" /\ call[c].record # None
  BY DEF ProbationInv, ProbationTypeOK, CallsOK, ImportUpdate, At
<1>2. PICK p \in Records : p = call[c].record
  BY <1>1 DEF CallRecord
<1> DEFINE row == WithDates(record[p], call[c].start, call[c].end, call[c].extends)
<1>3. /\ record[p] \in RecordRow /\ record[p].status \in Evaluable
      /\ record[p].confirmed = None
  BY <1>2 DEF ProbationInv, ProbationTypeOK, ImportUpdate, ConfirmedIsCompleted, Evaluable
<1>4. /\ call[c].extends => record[p].extensions < MaxExtensions
      /\ record' = [record EXCEPT ![p] = row]
      /\ Finish(c) /\ UNCHANGED <<request, employment, current>>
  BY <1>2 DEF ImportUpdate, SetDates
<1>5. /\ row \in RecordRow /\ row.status = record[p].status /\ row.confirmed = None
      /\ row.start = Given(call[c].start, record[p].start)
      /\ row.end = Given(call[c].end, record[p].end)
  BY <1>1, <1>3, <1>4, WithDatesType DEF CallRecord
<1>6. call[c].start # None /\ call[c].end # None /\ call[c].start <= call[c].end
  BY <1>1, ProbationAssumption DEF Carried, Importing, Day
<1>7. row.start <= row.end /\ row.status \in Editable
  BY <1>3, <1>5, <1>6 DEF Given, Editable
<1> HIDE DEF row
<1> QED BY <1>1, <1>4, <1>5, <1>7, DatesKeep

LEMMA ImportNewKeeps ==
  ASSUME ProbationInv, NEW c \in Calls, NEW p \in Records, ImportNew(c, p)
  PROVE  ProbationInv'
<1> DEFINE row == Draft(call[c].start, call[c].end)
<1>1. /\ Carried(call[c]) /\ call[c].op = "import" /\ call[c].at # "idle"
      /\ record[p].status = "ABSENT" /\ record' = [record EXCEPT ![p] = row]
      /\ Finish(c) /\ UNCHANGED <<request, employment, current>>
  BY DEF ProbationInv, CallsOK, ImportNew, At
<1>2. call[c].start \in Day /\ call[c].end \in Day /\ call[c].start <= call[c].end
  BY <1>1 DEF Carried, Importing
<1>3. /\ row \in RecordRow /\ row.status = "DRAFT" /\ row.confirmed = None
      /\ row.start = call[c].start /\ row.end = call[c].end
  <2>1. 0 \in Day /\ 0 \in 0 .. MaxExtensions
    BY ProbationAssumption DEF Day
  <2>2. NoRecord \in RecordRow /\ NoRecord.confirmed = None
    BY <2>1 DEF NoRecord, RecordRow, Date
  <2> QED BY <1>2, <2>2 DEF Draft, RecordRow, Editable, Evaluable
<1>4. "DRAFT" \in Editable
  BY DEF Editable, Evaluable
<1> HIDE DEF row
<1> QED BY <1>1, <1>2, <1>3, <1>4, DatesKeep

LEMMA StartEvaluationKeeps ==
  ASSUME ProbationInv, NEW c \in Calls, StartEvaluation(c)
  PROVE  ProbationInv'
<1>1. /\ Carried(call[c]) /\ call[c].op = "evaluate" /\ call[c].at # "idle"
      /\ record[call[c].record].status = "DRAFT" /\ SetStatus(call[c].record, "IN_PROGRESS")
      /\ Finish(c) /\ UNCHANGED <<request, employment, current>>
  BY DEF ProbationInv, CallsOK, StartEvaluation, At
<1>2. PICK p \in Records : p = call[c].record
  BY <1>1 DEF Carried
<1>3. record \in [Records -> RecordRow]
  BY DEF ProbationInv, ProbationTypeOK
<1>4. /\ record[p].status = "DRAFT"
      /\ record' \in [Records -> RecordRow]
      /\ record'[p] = [record[p] EXCEPT !.status = "IN_PROGRESS"]
      /\ \A q \in Records : q # p => record'[q] = record[q]
  BY <1>1, <1>2, <1>3 DEF SetStatus, RecordRow, Editable, Evaluable
<1>5. /\ record'[p].status = "IN_PROGRESS" /\ record'[p].confirmed = record[p].confirmed
      /\ record'[p].start = record[p].start /\ record'[p].end = record[p].end
  BY <1>3, <1>4 DEF RecordRow
<1>6. Forward
  BY <1>1, <1>4, <1>5 DEF Forward
<1>7. /\ CallsOK' /\ OverlapOK' /\ call' \in [Calls -> CallRecord]
      /\ overlapped' \in BOOLEAN /\ overlapped' = overlapped
  BY <1>1, <1>6, FinishKeeps
<1>8. ProbationTypeOK'
  BY <1>1, <1>4, <1>7 DEF ProbationInv, ProbationTypeOK
<1>9. ConfirmedIsCompleted'
  BY <1>4, <1>5 DEF ProbationInv, ConfirmedIsCompleted
<1>10. NoDanglingApproval'
  <2>1. \A q \in Records :
          /\ record'[q].status = "PENDING" <=> record[q].status = "PENDING"
          /\ record'[q].status \in {"APPROVED", "COMPLETED"} <=>
               record[q].status \in {"APPROVED", "COMPLETED"}
    BY <1>4, <1>5
  <2> QED BY <1>1, <2>1 DEF ProbationInv, NoDanglingApproval, OpenRequests
<1>11. {q \in Records : record'[q].status = "COMPLETED"} =
       {q \in Records : record[q].status = "COMPLETED"}
  BY <1>4, <1>5
<1>12. ConfirmedOnce'
  BY <1>1, <1>4, <1>5, <1>11 DEF ProbationInv, ConfirmedOnce
<1>13. DatesInOrder'
  BY <1>4, <1>5, <1>7 DEF ProbationInv, DatesInOrder
<1> QED BY <1>7, <1>8, <1>9, <1>10, <1>12, <1>13 DEF ProbationInv

\* A commit that changes the status of a record, not its dates, and requests of it only.
LEMMA StatusKeeps ==
  ASSUME ProbationInv, NEW c \in Calls, call[c].at # "idle", Finish(c), Forward,
         NEW p \in Records, NEW status \in Editable,
         record[p].status \in Editable, SetStatus(p, status),
         request' \in [Requests -> RequestRow], NoDanglingApproval',
         UNCHANGED <<employment, current>>
  PROVE  ProbationInv'
<1>1. record \in [Records -> RecordRow]
  BY DEF ProbationInv, ProbationTypeOK
<1>2. /\ record' \in [Records -> RecordRow]
      /\ record'[p] = [record[p] EXCEPT !.status = status]
      /\ \A q \in Records : q # p => record'[q] = record[q]
  BY <1>1 DEF SetStatus, RecordRow
<1>3. /\ record'[p].status = status /\ record'[p].confirmed = record[p].confirmed
      /\ record'[p].start = record[p].start /\ record'[p].end = record[p].end
  BY <1>1, <1>2 DEF RecordRow
<1>4. /\ CallsOK' /\ OverlapOK' /\ call' \in [Calls -> CallRecord]
      /\ overlapped' \in BOOLEAN /\ overlapped' = overlapped
  BY FinishKeeps
<1>5. ProbationTypeOK'
  BY <1>2, <1>4 DEF ProbationInv, ProbationTypeOK
<1>6. status # "COMPLETED" /\ record[p].status # "COMPLETED"
  BY DEF Editable, Evaluable
<1>7. ConfirmedIsCompleted'
  BY <1>2, <1>3, <1>6 DEF ProbationInv, ConfirmedIsCompleted
<1>8. {q \in Records : record'[q].status = "COMPLETED"} =
      {q \in Records : record[q].status = "COMPLETED"}
  BY <1>2, <1>3, <1>6
<1>9. ConfirmedOnce'
  BY <1>2, <1>3, <1>6, <1>8 DEF ProbationInv, ConfirmedOnce
<1>10. DatesInOrder'
  BY <1>2, <1>3, <1>4 DEF ProbationInv, DatesInOrder
<1> QED BY <1>4, <1>5, <1>7, <1>9, <1>10 DEF ProbationInv

\* The record had no open request and no approved one, and gets its only open one.
LEMMA SubmitConfirmationKeeps ==
  ASSUME ProbationInv, NEW c \in Calls, NEW r \in Requests, SubmitConfirmation(c, r)
  PROVE  ProbationInv'
<1>1. /\ Carried(call[c]) /\ call[c].op \in {"submit", "start"} /\ call[c].at # "idle"
  BY DEF ProbationInv, CallsOK, SubmitConfirmation, At
<1>2. PICK p \in Records : p = call[c].record
  BY <1>1 DEF Carried
<1>3. PICK user \in Users : user = call[c].user
  BY <1>1 DEF Carried
<1> DEFINE row == [status |-> "PENDING", record |-> p, approver |-> user, decision |-> "PENDING"]
<1>4. /\ record[p].status \in Evaluable
      /\ SetStatus(p, "PENDING") /\ request[r].status = "ABSENT" /\ OpenRequests(p) = {}
      /\ request' = [request EXCEPT ![r] = row]
      /\ Finish(c) /\ UNCHANGED <<employment, current>>
  BY <1>2, <1>3 DEF SubmitConfirmation, Evaluable
<1>5. record \in [Records -> RecordRow] /\ request \in [Requests -> RequestRow]
  BY DEF ProbationInv, ProbationTypeOK
<1>6. /\ row \in RequestRow
      /\ row.status = "PENDING" /\ row.record = p /\ row.decision = "PENDING"
  BY DEF RequestRow
<1> HIDE DEF row
<1>7. /\ request' \in [Requests -> RequestRow]
      /\ request'[r] = row /\ \A s \in Requests : s # r => request'[s] = request[s]
      /\ record'[p].status = "PENDING" /\ \A q \in Records : q # p => record'[q] = record[q]
  BY <1>4, <1>5, <1>6 DEF SetStatus, RecordRow
<1>8. Forward
  BY <1>4, <1>6, <1>7 DEF Forward
<1>9. NoDanglingApproval'
  <2>1. ASSUME NEW s \in Requests, NEW q \in Records
        PROVE  /\ s \in OpenRequests(q)' <=> s \in OpenRequests(q) \/ (s = r /\ q = p)
               /\ request'[s].record = q /\ request'[s].status = "APPROVED" <=>
                    request[s].record = q /\ request[s].status = "APPROVED"
    BY <1>4, <1>6, <1>7 DEF OpenRequests
  <2>2. \A q \in Records : q # p => record'[q] = record[q]
    BY <1>7
  <2>3. OpenRequests(p)' = {r}
    BY <1>4, <2>1 DEF OpenRequests
  <2>4. \A q \in Records : q # p => OpenRequests(q)' = OpenRequests(q)
    BY <2>1 DEF OpenRequests
  <2>5. ~ \E s \in Requests : request[s].record = p /\ request[s].status = "APPROVED"
    BY <1>4 DEF ProbationInv, NoDanglingApproval, Evaluable
  <2>6. ASSUME NEW q \in Records
        PROVE  /\ record'[q].status = "PENDING" <=> OpenRequests(q)' # {}
               /\ \A s, t \in OpenRequests(q)' : s = t
               /\ record'[q].status \in {"APPROVED", "COMPLETED"} <=>
                    \E s \in Requests : request'[s].record = q /\ request'[s].status = "APPROVED"
    <3>1. CASE q = p
      BY <1>7, <2>1, <2>3, <2>5, <3>1
    <3>2. CASE q # p
      BY <2>1, <2>2, <2>4, <3>2 DEF ProbationInv, NoDanglingApproval
    <3> QED BY <3>1, <3>2
  <2>7. ASSUME NEW s \in Requests, request'[s].status # "ABSENT"
        PROVE  <<request'[s].status, request'[s].decision>> \in
                 {<<"PENDING", "PENDING">>, <<"APPROVED", "APPROVED">>, <<"WITHDRAWN", "SKIPPED">>}
    BY <1>6, <1>7, <2>7 DEF ProbationInv, NoDanglingApproval
  <2> QED BY <2>6, <2>7 DEF NoDanglingApproval
<1>10. record[p].status \in Editable /\ "PENDING" \in Editable
  BY <1>4 DEF Editable
<1> QED BY <1>1, <1>4, <1>7, <1>8, <1>9, <1>10, StatusKeeps

\* The decision closes the only open request of the record.
LEMMA DecideKeeps ==
  ASSUME ProbationInv, NEW c \in Calls, Deciding(call[c]),
         NEW decision, NEW outcome, NEW status, Decide(c, decision, outcome, status),
         <<decision, outcome, status>> \in
           {<<"APPROVED", "APPROVED", "APPROVED">>, <<"SKIPPED", "WITHDRAWN", "IN_PROGRESS">>}
  PROVE  ProbationInv'
<1>1. /\ Carried(call[c]) /\ call[c].op # "import" /\ call[c].at # "idle"
  BY DEF ProbationInv, CallsOK, Deciding
<1>2. PICK p \in Records : p = call[c].record
  BY <1>1 DEF Carried
<1>3. PICK r \in Requests : r = call[c].request /\ request[r].record = p
  BY <1>1, <1>2 DEF Carried
<1>4. /\ request[r].decision = "PENDING" /\ request[r].status = "PENDING"
      /\ request' = [request EXCEPT ![r].decision = decision, ![r].status = outcome]
      /\ record[p].status = "PENDING" /\ SetStatus(p, status)
      /\ Finish(c) /\ UNCHANGED <<employment, current>>
  BY <1>2, <1>3 DEF Decide
<1>5. record \in [Records -> RecordRow] /\ request \in [Requests -> RequestRow]
  BY DEF ProbationInv, ProbationTypeOK
<1>6. /\ request' \in [Requests -> RequestRow]
      /\ request'[r].record = p /\ request'[r].status = outcome /\ request'[r].decision = decision
      /\ \A s \in Requests : s # r => request'[s] = request[s]
      /\ record'[p].status = status /\ \A q \in Records : q # p => record'[q] = record[q]
  BY <1>3, <1>4, <1>5 DEF SetStatus, RecordRow, RequestRow
<1>7. Forward
  BY <1>3, <1>4, <1>6 DEF Forward
<1>8. NoDanglingApproval'
  <2>1. ASSUME NEW s \in Requests, NEW q \in Records
        PROVE  /\ s \in OpenRequests(q)' <=> s \in OpenRequests(q) /\ s # r
               /\ s # r => (request'[s].record = q /\ request'[s].status = "APPROVED" <=>
                              request[s].record = q /\ request[s].status = "APPROVED")
    BY <1>4, <1>6 DEF OpenRequests
  <2>2. OpenRequests(p) = {r}
    BY <1>3, <1>4 DEF ProbationInv, NoDanglingApproval, OpenRequests
  <2>3. OpenRequests(p)' = {}
    BY <2>1, <2>2 DEF OpenRequests
  <2>4. \A q \in Records : q # p => OpenRequests(q)' = OpenRequests(q)
    <3>1. \A q \in Records : q # p => r \notin OpenRequests(q)
      BY <1>3 DEF OpenRequests
    <3> QED BY <2>1, <3>1 DEF OpenRequests
  <2>5. ~ \E s \in Requests : request[s].record = p /\ request[s].status = "APPROVED"
    BY <1>4 DEF ProbationInv, NoDanglingApproval
  <2>6. ASSUME NEW q \in Records
        PROVE  /\ record'[q].status = "PENDING" <=> OpenRequests(q)' # {}
               /\ \A s, t \in OpenRequests(q)' : s = t
               /\ record'[q].status \in {"APPROVED", "COMPLETED"} <=>
                    \E s \in Requests : request'[s].record = q /\ request'[s].status = "APPROVED"
    <3>1. CASE q = p
      BY <1>6, <2>1, <2>3, <2>5, <3>1
    <3>2. CASE q # p
      <4>1. request[r].record # q /\ request'[r].record # q /\ record'[q] = record[q]
        BY <1>3, <1>6, <3>2
      <4> QED BY <2>1, <2>4, <3>2, <4>1 DEF ProbationInv, NoDanglingApproval
    <3> QED BY <3>1, <3>2
  <2>7. ASSUME NEW s \in Requests, request'[s].status # "ABSENT"
        PROVE  <<request'[s].status, request'[s].decision>> \in
                 {<<"PENDING", "PENDING">>, <<"APPROVED", "APPROVED">>, <<"WITHDRAWN", "SKIPPED">>}
    BY <1>6, <2>7 DEF ProbationInv, NoDanglingApproval
  <2> QED BY <2>6, <2>7 DEF NoDanglingApproval
<1>9. record[p].status \in Editable /\ status \in Editable
  BY <1>4 DEF Editable, Evaluable
<1> QED BY <1>1, <1>4, <1>6, <1>7, <1>8, <1>9, StatusKeeps

\* A transfer changes the approver of a step and nothing the others rely on.
LEMMA TransferKeeps ==
  ASSUME ProbationInv, NEW c \in Calls, NEW to \in Users, Transfer(c, to)
  PROVE  ProbationInv'
<1>1. Carried(call[c]) /\ Deciding(call[c]) /\ call[c].at # "idle"
  BY DEF ProbationInv, CallsOK, Deciding, Transfer, At
<1>2. PICK r \in Requests : r = call[c].request
  BY <1>1 DEF Carried
<1>3. /\ request' = [request EXCEPT ![r].approver = to]
      /\ Finish(c) /\ UNCHANGED <<record, employment, current>>
  BY <1>2 DEF Transfer
<1>4. request \in [Requests -> RequestRow]
  BY DEF ProbationInv, ProbationTypeOK
<1>5. /\ request' \in [Requests -> RequestRow]
      /\ \A s \in Requests : /\ request'[s].status = request[s].status
                             /\ request'[s].record = request[s].record
                             /\ request'[s].decision = request[s].decision
  BY <1>3, <1>4 DEF RequestRow
<1>6. Forward
  BY <1>3, <1>5 DEF Forward
<1>7. /\ CallsOK' /\ OverlapOK' /\ call' \in [Calls -> CallRecord]
      /\ overlapped' \in BOOLEAN /\ overlapped' = overlapped
  BY <1>1, <1>3, <1>6, FinishKeeps
<1>8. ProbationTypeOK'
  BY <1>3, <1>5, <1>7 DEF ProbationInv, ProbationTypeOK
<1>9. \A q : OpenRequests(q)' = OpenRequests(q)
  BY <1>5 DEF OpenRequests
<1>10. NoDanglingApproval'
  BY <1>3, <1>5, <1>9 DEF ProbationInv, NoDanglingApproval
<1>11. ConfirmedIsCompleted' /\ ConfirmedOnce' /\ DatesInOrder'
  BY <1>3, <1>7 DEF ProbationInv, ConfirmedIsCompleted, ConfirmedOnce, DatesInOrder
<1> QED BY <1>7, <1>8, <1>10, <1>11 DEF ProbationInv

\* The period was in probation, so no record of it was completed before.
LEMMA ConfirmKeeps ==
  ASSUME ProbationInv, NEW c \in Calls, Confirm(c)
  PROVE  ProbationInv'
<1>1. /\ Carried(call[c]) /\ (~overlapped => Fresh(call[c]))
      /\ call[c].op = "confirm" /\ call[c].at = "ready"
  BY DEF ProbationInv, CallsOK, OverlapOK, Confirm, At
<1>2. PICK p \in Records : p = call[c].record
  BY <1>1 DEF Carried
<1>3. PICK day \in Day : day = call[c].end
  BY <1>1 DEF Carried
<1>4. /\ record[p].status = "APPROVED"
      /\ record' = [record EXCEPT ![p].status = "COMPLETED", ![p].confirmed = day]
      /\ employment = "PROBATION" /\ employment' = "REGULAR"
      /\ current' = [status |-> "REGULAR", since |-> day]
      /\ Finish(c) /\ request' = request
  BY <1>2, <1>3 DEF Confirm
<1>5. record \in [Records -> RecordRow]
  BY DEF ProbationInv, ProbationTypeOK
<1>6. /\ record' \in [Records -> RecordRow]
      /\ record'[p].status = "COMPLETED" /\ record'[p].confirmed = day
      /\ record'[p].start = record[p].start /\ record'[p].end = record[p].end
      /\ \A q \in Records : q # p => record'[q] = record[q]
  BY <1>4, <1>5 DEF RecordRow, Date
<1>7. Forward
  BY <1>4, <1>6 DEF Forward
<1>8. /\ CallsOK' /\ OverlapOK' /\ call' \in [Calls -> CallRecord]
      /\ overlapped' \in BOOLEAN /\ overlapped' = overlapped
  BY <1>1, <1>4, <1>7, FinishKeeps
<1>9. ProbationTypeOK'
  BY <1>4, <1>6, <1>8 DEF ProbationInv, ProbationTypeOK
<1>10. ConfirmedIsCompleted'
  BY <1>6 DEF ProbationInv, ConfirmedIsCompleted
<1>11. NoDanglingApproval'
  <2>1. \A q \in Records :
          /\ record'[q].status = "PENDING" <=> record[q].status = "PENDING"
          /\ record'[q].status \in {"APPROVED", "COMPLETED"} <=>
               record[q].status \in {"APPROVED", "COMPLETED"}
    BY <1>4, <1>6
  <2>2. \A q \in Records : OpenRequests(q)' = OpenRequests(q)
    BY <1>4 DEF OpenRequests
  <2>3. request' = request /\ NoDanglingApproval
    BY <1>4 DEF ProbationInv
  <2>4. ASSUME NEW q \in Records
        PROVE  /\ record'[q].status = "PENDING" <=> OpenRequests(q)' # {}
               /\ \A s, t \in OpenRequests(q)' : s = t
               /\ record'[q].status \in {"APPROVED", "COMPLETED"} <=>
                    \E s \in Requests : request'[s].record = q /\ request'[s].status = "APPROVED"
    <3>1. /\ record[q].status = "PENDING" <=> OpenRequests(q) # {}
          /\ \A s, t \in OpenRequests(q) : s = t
          /\ record[q].status \in {"APPROVED", "COMPLETED"} <=>
               \E s \in Requests : request[s].record = q /\ request[s].status = "APPROVED"
      BY <2>3 DEF NoDanglingApproval
    <3> QED BY <2>1, <2>2, <2>3, <3>1
  <2> QED BY <2>3, <2>4 DEF NoDanglingApproval
<1>12. ConfirmedOnce'
  <2>1. \A q \in Records : record[q].status # "COMPLETED"
    BY <1>4 DEF ProbationInv, ConfirmedOnce
  <2>2. {q \in Records : record'[q].status = "COMPLETED"} = {p}
    BY <1>6, <2>1
  <2> QED BY <1>4, <1>6, <2>2 DEF ConfirmedOnce
<1>13. DatesInOrder'
  BY <1>1, <1>2, <1>3, <1>6, <1>8 DEF ProbationInv, DatesInOrder, Fresh
<1> QED BY <1>8, <1>9, <1>10, <1>11, <1>12, <1>13 DEF ProbationInv

LEMMA RollBackKeeps ==
  ASSUME ProbationInv, NEW c \in Calls, RollBack(c)
  PROVE  ProbationInv'
<1>1. /\ call[c].at # "idle" /\ Finish(c)
      /\ UNCHANGED rows /\ UNCHANGED <<record, request, employment, current>>
  BY DEF RollBack, rows
<1>2. Forward
  BY <1>1 DEF Forward
<1>3. /\ CallsOK' /\ OverlapOK' /\ call' \in [Calls -> CallRecord]
      /\ overlapped' \in BOOLEAN /\ overlapped' = overlapped
  BY <1>1, <1>2, FinishKeeps
<1>4. ProbationTypeOK'
  BY <1>1, <1>3 DEF ProbationInv, ProbationTypeOK
<1> QED BY <1>1, <1>3, <1>4, RowsKeep DEF ProbationInv

-----------------------------------------------------------------------------
(***************************************************************************)
(* The theorems.                                                           *)
(***************************************************************************)
LEMMA NextKeeps ==
  ASSUME ProbationInv, [Next]_vars
  PROVE  ProbationInv'
<1>1. ASSUME NEW c \in Calls, Find(c) \/ Read(c)
      PROVE  ProbationInv'
  BY <1>1, FindKeeps, ReadKeeps
<1>2. ASSUME NEW c \in Calls, Commit(c)
      PROVE  ProbationInv'
  <2>1. CASE Approve(c)
    <3>1. Deciding(call[c]) /\ Decide(c, "APPROVED", "APPROVED", "APPROVED")
      BY <2>1 DEF Approve, At, Deciding
    <3> QED BY <3>1, DecideKeeps
  <2>2. CASE ReturnToEvaluation(c)
    <3>1. Deciding(call[c]) /\ Decide(c, "SKIPPED", "WITHDRAWN", "IN_PROGRESS")
      BY <2>2 DEF ReturnToEvaluation, At, Deciding
    <3> QED BY <3>1, DecideKeeps
  <2> QED BY <1>2, <2>1, <2>2, UpdateDatesKeeps, StartEvaluationKeeps, SubmitConfirmationKeeps,
             TransferKeeps, ConfirmKeeps, ImportUpdateKeeps, ImportNewKeeps DEF Commit
<1>3. ASSUME NEW c \in Calls, RollBack(c)
      PROVE  ProbationInv'
  BY <1>3, RollBackKeeps
<1>4. CASE UNCHANGED vars
  <2>1. /\ record' = record /\ request' = request /\ employment' = employment
        /\ current' = current /\ call' = call /\ overlapped' = overlapped /\ UNCHANGED rows
    BY <1>4 DEF vars, rows
  <2>2. ProbationTypeOK' /\ CallsOK' /\ OverlapOK'
    BY <2>1 DEF ProbationInv, ProbationTypeOK, CallsOK, OverlapOK, Carried, Fresh
  <2> QED BY <2>1, <2>2, RowsKeep DEF ProbationInv
<1> QED BY <1>1, <1>2, <1>3, <1>4 DEF Next

LEMMA InitHolds ==
  ASSUME Init
  PROVE  ProbationInv
<1>1. /\ request = [r \in Requests |-> NoRequest] /\ call = [c \in Calls |-> Idle]
      /\ employment \in {"PROBATION", "REGULAR"} /\ current = [status |-> employment, since |-> 0]
      /\ overlapped = FALSE
  BY DEF Init
<1>2. 0 \in Day /\ 0 \in 0 .. MaxExtensions /\ 0 <= 0 /\ \A d \in Day : 0 <= d
  BY ProbationAssumption DEF Day
<1>3. NoRecord \in RecordRow /\ NoRecord.status = "ABSENT" /\ NoRecord.confirmed = None
      /\ NoRecord.start = 0 /\ NoRecord.end = 0
  BY <1>2 DEF NoRecord, RecordRow, Date
<1>4. \A end \in Day : /\ Draft(0, end) \in RecordRow /\ Draft(0, end).status = "DRAFT"
                       /\ Draft(0, end).confirmed = None
                       /\ Draft(0, end).start = 0 /\ Draft(0, end).end = end
  BY <1>2, <1>3 DEF Draft, RecordRow, Editable, Evaluable
<1>5. /\ record \in [Records -> RecordRow]
      /\ \A p \in Records : /\ record[p].status \in {"ABSENT", "DRAFT"}
                            /\ record[p].confirmed = None
                            /\ record[p].start <= record[p].end
  <2>1. CASE record = [p \in Records |-> NoRecord]
    BY <1>2, <1>3, <2>1
  <2>2. CASE \E p \in Records, end \in Day :
               record = [q \in Records |-> IF q = p THEN Draft(0, end) ELSE NoRecord]
    <3>1. PICK p \in Records, end \in Day :
            record = [q \in Records |-> IF q = p THEN Draft(0, end) ELSE NoRecord]
      BY <2>2
    <3> QED BY <1>2, <1>3, <1>4, <3>1
  <2> QED BY <2>1, <2>2 DEF Init
<1>6. NoRequest \in RequestRow /\ NoRequest.status = "ABSENT"
  BY DEF NoRequest, RequestRow
<1>7. request \in [Requests -> RequestRow] /\ \A r \in Requests : request[r].status = "ABSENT"
  BY <1>1, <1>6
<1>8. call \in [Calls -> CallRecord] /\ \A c \in Calls : call[c].at = "idle"
  BY <1>1, IdleType
<1>9. ProbationTypeOK
  BY <1>1, <1>2, <1>5, <1>7, <1>8 DEF ProbationTypeOK
<1>10. CallsOK /\ OverlapOK
  BY <1>8, IdleCarriesNothing DEF CallsOK, OverlapOK
<1>11. NoDanglingApproval
  BY <1>5, <1>7 DEF NoDanglingApproval, OpenRequests
<1>12. ConfirmedIsCompleted /\ ConfirmedOnce /\ DatesInOrder
  BY <1>1, <1>5 DEF ConfirmedIsCompleted, ConfirmedOnce, DatesInOrder
<1> QED BY <1>9, <1>10, <1>11, <1>12 DEF ProbationInv

\* Every reachable state satisfies the inductive invariant, whatever calls race.
THEOREM ProbationInvariance == Spec => []ProbationInv
<1>1. Init => ProbationInv
  BY InitHolds
<1>2. ProbationInv /\ [Next]_vars => ProbationInv'
  BY NextKeeps
<1> QED BY <1>1, <1>2, PTL DEF Spec

\* Every variable of the probation workflow keeps its shape.
THEOREM ProbationTyped == Spec => []ProbationTypeOK
<1>1. ProbationInv => ProbationTypeOK
  BY DEF ProbationInv
<1> QED BY <1>1, ProbationInvariance, PTL

\* A record waits for approval exactly while its only open request does, and is approved by
\* exactly one round: approving, returning and asking again leave nothing behind.
THEOREM NoApprovalDangles == Spec => []NoDanglingApproval
<1>1. ProbationInv => NoDanglingApproval
  BY DEF ProbationInv
<1> QED BY <1>1, ProbationInvariance, PTL

\* confirmProbation makes a period regular at most once.
THEOREM PeriodConfirmedOnce == Spec => []ConfirmedOnce
<1>1. ProbationInv => ConfirmedOnce
  BY DEF ProbationInv
<1> QED BY <1>1, ProbationInvariance, PTL

\* Unless calls overlap, update, import and confirmation keep a probation's dates in order.
THEOREM DatesStayInOrder == Spec => []DatesInOrder
<1>1. ProbationInv => DatesInOrder
  BY DEF ProbationInv
<1> QED BY <1>1, ProbationInvariance, PTL

\* No late call changes a decided request and, unless calls overlap, the approver of the
\* moment decides.
THEOREM ApproverDecides == Spec => DecidedByApprover
<1> DEFINE Decision(r) ==
      /\ request[r].status \in {"APPROVED", "WITHDRAWN"} => request'[r] = request[r]
      /\ ~overlapped /\ request[r].decision = "PENDING" /\ request'[r].decision # "PENDING" =>
           \E c \in Calls : call[c].request = r /\ call[c].user = request[r].approver
<1>1. ASSUME ProbationInv, [Next]_vars, NEW r \in Requests
      PROVE  Decision(r)
  <2>0. request \in [Requests -> RequestRow]
    BY <1>1 DEF ProbationInv, ProbationTypeOK
  <2>1. CASE request' = request
    BY <2>1
  <2>2. ASSUME NEW c \in Calls, NEW s \in Requests, SubmitConfirmation(c, s)
        PROVE  Decision(r)
    <3>1. /\ request[s].status = "ABSENT"
          /\ request'[s].decision = "PENDING" /\ (r # s => request'[r] = request[r])
      BY <2>0, <2>2 DEF SubmitConfirmation
    <3> QED BY <3>1
  <2>3. ASSUME NEW c \in Calls, NEW decision, NEW outcome, NEW status,
               Deciding(call[c]), Decide(c, decision, outcome, status)
        PROVE  Decision(r)
    <3>1. /\ request[call[c].request].status = "PENDING"
          /\ r # call[c].request => request'[r] = request[r]
      BY <2>0, <2>3 DEF Decide
    <3>2. ~overlapped => request[call[c].request].approver = call[c].user
      BY <1>1, <2>3 DEF ProbationInv, OverlapOK, Fresh
    <3> QED BY <3>1, <3>2
  <2>4. ASSUME NEW c \in Calls, NEW to \in Users, Transfer(c, to)
        PROVE  Decision(r)
    <3>1. /\ request[call[c].request].decision = "PENDING"
          /\ request' = [request EXCEPT ![call[c].request].approver = to]
      BY <2>4 DEF Transfer
    <3>2. request'[r].decision = request[r].decision
      BY <2>0, <3>1 DEF RequestRow
    <3>3. r # call[c].request => request'[r] = request[r]
      BY <2>0, <3>1
    <3>4. request[r].status \in {"APPROVED", "WITHDRAWN"} => request[r].decision # "PENDING"
      BY <1>1 DEF ProbationInv, NoDanglingApproval
    <3> QED BY <3>1, <3>2, <3>3, <3>4
  <2>5. ASSUME NEW c \in Calls, Find(c) \/ Read(c) \/ RollBack(c)
        PROVE  request' = request
    BY <2>5 DEF Find, Read, RollBack, FindToUpdate, FindToEvaluate, FindToSubmit, FindToDecide,
       FindToConfirm, FindImportTarget, Begin, CheckNoApproval, ReadPendingApproval,
       ReadApprovedApproval, ReadToImportUpdate, ReadToImportNew, Ready, rows
  <2>6. ASSUME NEW c \in Calls, Commit(c)
        PROVE  Decision(r)
    <3>1. CASE Approve(c) \/ ReturnToEvaluation(c)
      BY <2>3, <3>1 DEF Approve, ReturnToEvaluation, At, Deciding
    <3>2. CASE \/ UpdateDates(c) \/ StartEvaluation(c) \/ Confirm(c) \/ ImportUpdate(c)
               \/ \E p \in Records : ImportNew(c, p)
      <4>1. request' = request
        BY <3>2 DEF UpdateDates, StartEvaluation, Confirm, ImportUpdate, ImportNew
      <4> QED BY <2>1, <4>1
    <3> QED BY <2>2, <2>4, <2>6, <3>1, <3>2 DEF Commit
  <2>7. CASE UNCHANGED vars
    BY <2>1, <2>7 DEF vars
  <2> QED BY <1>1, <2>1, <2>5, <2>6, <2>7 DEF Next
<1>2. ProbationInv /\ [Next]_vars =>
        [\A r \in Requests :
           /\ request[r].status \in {"APPROVED", "WITHDRAWN"} => request'[r] = request[r]
           /\ ~overlapped /\ request[r].decision = "PENDING" /\ request'[r].decision # "PENDING" =>
                \E c \in Calls : call[c].request = r /\ call[c].user = request[r].approver]_vars
  BY <1>1
<1> QED BY <1>2, ProbationInvariance, PTL DEF Spec, DecidedByApprover
=============================================================================
