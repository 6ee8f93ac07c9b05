------------------------ MODULE PartTimeRecords_proofs ------------------------
(***************************************************************************)
(* For any number of records, duties, days, approval steps and concurrent  *)
(* calls: the invariants of PartTimeRecords that do not depend on calls    *)
(* being served one at a time.                                             *)
(***************************************************************************)
EXTENDS PartTimeRecords, TLAPS

\* The initial state satisfies the inductive invariant.
LEMMA InitPartTime == Init => PartTimeInv
<1> SUFFICES ASSUME Init
             PROVE  PartTimeInv
  OBVIOUS
<1> USE PartTimeAssumption DEF Init, AbsInit, NoRecord, NoCall, InFlight, Day, EndDate, States
<1>1. RowsTypeOK
  BY DEF RowsTypeOK, RecordRow, CallRecord, RecordStatus, NonTerminal
<1>2. RecordFollowsApproval
  BY DEF RecordFollowsApproval
<1>3. InForceOnlyWhenDue
  BY DEF InForceOnlyWhenDue
<1>4. PartTimeCallsConsistent
  BY DEF PartTimeCallsConsistent
<1>5. \A p \in Applications : ApprovedFrom(p) /\ NotAfter(record[p].start, record[p].end)
  BY DEF ApprovedFrom, NotAfter
<1> QED
  BY <1>1, <1>2, <1>3, <1>4, <1>5 DEF PartTimeInv

\* The calls in flight stay consistent when one of them finishes and only a
\* record no call holds, or the status of a record, changes.
LEMMA FinishedConsistent ==
  ASSUME PartTimeInv, NEW c \in Calls, Finish(c), today' = today,
         \A p \in Applications :
           state[p] \in {"approved", "effective"} =>
             record'[p].start = record[p].start /\ state'[p] \in {"approved", "effective"}
  PROVE  /\ call' \in [Calls -> CallRecord]
         /\ PartTimeCallsConsistent'
<1>1. /\ call' \in [Calls -> CallRecord]
      /\ \A d \in Calls : call'[d] = IF d = c THEN NoCall ELSE call[d]
  BY PartTimeAssumption
     DEF PartTimeInv, RowsTypeOK, Finish, NoCall, InFlight, CallRecord, Day, EndDate
<1>2. PartTimeCallsConsistent'
  BY <1>1 DEF PartTimeInv, PartTimeCallsConsistent, NoCall, InFlight
<1> QED
  BY <1>1, <1>2

\* A step that only takes up a call keeps the invariant if the new call is consistent.
LEMMA LoadStep ==
  ASSUME PartTimeInv, NEW c \in Calls, NEW op \in {"create", "activate", "end"},
         NEW p \in Applications \cup {None}, NEW duty \in Duties \cup {None},
         NEW start \in Day, NEW end \in EndDate,
         call' = [call EXCEPT ![c] = InFlight(op, p, duty, start, end)],
         UNCHANGED <<record, today, state, size, approved>>,
         op = "create" => duty \in Duties /\ NotAfter(start, end),
         op # "create" =>
           /\ p \in Applications
           /\ record[p].start <= today
           /\ state[p] \in {"approved", "effective"},
         op = "end" => end \in Day /\ record[p].start <= end
  PROVE  PartTimeInv'
<1>1. /\ call' \in [Calls -> CallRecord]
      /\ \A d \in Calls : call'[d] =
           IF d = c THEN InFlight(op, p, duty, start, end) ELSE call[d]
  BY DEF PartTimeInv, RowsTypeOK, CallRecord, InFlight
<1>2. PartTimeCallsConsistent'
  BY <1>1 DEF PartTimeInv, PartTimeCallsConsistent, NotAfter, InFlight
<1> QED
  BY <1>1, <1>2
     DEF PartTimeInv, RowsTypeOK, RecordFollowsApproval, InForceOnlyWhenDue,
         ApprovedFrom, NotAfter

LEMMA LoadForCreateStep ==
  ASSUME PartTimeInv, NEW c \in Calls, NEW duty \in Duties, NEW start \in Day,
         NEW end \in EndDate, LoadForCreate(c, duty, start, end)
  PROVE  PartTimeInv'
BY LoadStep DEF LoadForCreate, approvalVars

LEMMA LoadForActivateStep ==
  ASSUME PartTimeInv, NEW c \in Calls, NEW p \in Applications, LoadForActivate(c, p)
  PROVE  PartTimeInv'
<1>1. /\ call' = [call EXCEPT ![c] = InFlight("activate", p, None, 0, None)]
      /\ UNCHANGED <<record, today, state, size, approved>>
  BY DEF LoadForActivate, approvalVars
<1>2. /\ record[p].start <= today /\ state[p] = "approved"
      /\ 0 \in Day /\ None \in EndDate
  BY PartTimeAssumption DEF LoadForActivate, Day, EndDate
<1> QED
  BY <1>1, <1>2, LoadStep

LEMMA LoadForEndStep ==
  ASSUME PartTimeInv, NEW c \in Calls, NEW p \in Applications, NEW end \in Day,
         LoadForEnd(c, p, end)
  PROVE  PartTimeInv'
<1>1. /\ call' = [call EXCEPT ![c] = InFlight("end", p, None, 0, end)]
      /\ UNCHANGED <<record, today, state, size, approved>>
      /\ 0 \in Day /\ end \in EndDate
  BY PartTimeAssumption DEF LoadForEnd, approvalVars, Day, EndDate
<1>2. record[p].status = "ACTIVE" /\ record[p].start <= end
  BY DEF LoadForEnd, PartTimeInv, RowsTypeOK, RecordRow, Day
<1>3. state[p] = "effective"
  BY <1>2 DEF PartTimeInv, RecordFollowsApproval, RowsTypeOK, StatusOfOutcome, States
<1>4. record[p].start <= today
  BY <1>2 DEF PartTimeInv, InForceOnlyWhenDue
<1> QED
  BY <1>1, <1>2, <1>3, <1>4, LoadStep

LEMMA RollBackStep ==
  ASSUME PartTimeInv, NEW c \in Calls, RollBack(c)
  PROVE  PartTimeInv'
<1>1. /\ call' \in [Calls -> CallRecord]
      /\ PartTimeCallsConsistent'
  BY FinishedConsistent DEF RollBack, approvalVars
<1> QED
  BY <1>1
     DEF RollBack, approvalVars, PartTimeInv, RowsTypeOK, RecordFollowsApproval,
         InForceOnlyWhenDue, ApprovedFrom, NotAfter

LEMMA MidnightStep ==
  ASSUME PartTimeInv, Midnight
  PROVE  PartTimeInv'
<1>1. today' \in Day /\ today' = today + 1 /\ today \in Day
  BY PartTimeAssumption DEF Midnight, PartTimeInv, RowsTypeOK, Day
<1>2. \A p \in Applications : record[p].start \in Day
  BY DEF PartTimeInv, RowsTypeOK, RecordRow
<1>3. RowsTypeOK'
  BY <1>1 DEF Midnight, approvalVars, PartTimeInv, RowsTypeOK
<1>4. InForceOnlyWhenDue'
  BY <1>1, <1>2
     DEF Midnight, approvalVars, PartTimeInv, InForceOnlyWhenDue, NotAfter, Day
<1>5. PartTimeCallsConsistent'
  BY <1>1, <1>2
     DEF Midnight, approvalVars, PartTimeInv, PartTimeCallsConsistent, NotAfter, Day
<1> QED
  BY <1>3, <1>4, <1>5
     DEF Midnight, approvalVars, PartTimeInv, RecordFollowsApproval, ApprovedFrom, NotAfter

LEMMA CreateStep ==
  ASSUME PartTimeInv, NEW c \in Calls, NEW p \in Applications, NEW n \in 1 .. MaxSteps,
         Create(c, p, n)
  PROVE  PartTimeInv'
<1> USE DEF PartTimeInv
<1>1. /\ call[c].op = "create" /\ call[c].duty \in Duties
      /\ call[c].start \in Day /\ call[c].end \in EndDate
      /\ NotAfter(call[c].start, call[c].end)
  BY DEF Create, RowsTypeOK, CallRecord, PartTimeCallsConsistent
<1>2. /\ state[p] = "absent" /\ UNCHANGED <<approved, today>>
      /\ state' = [state EXCEPT ![p] = "pending"]
      /\ size' = [size EXCEPT ![p] = n]
      /\ record' = [record EXCEPT ![p] =
           [status |-> "PENDING", duty |-> call[c].duty,
            start |-> call[c].start, end |-> call[c].end]]
  BY DEF Create, Submit
<1>3. /\ call' \in [Calls -> CallRecord]
      /\ PartTimeCallsConsistent'
  <2>1. \A q \in Applications :
          state[q] \in {"approved", "effective"} =>
            record'[q].start = record[q].start /\ state'[q] \in {"approved", "effective"}
    BY <1>2 DEF RowsTypeOK
  <2> QED
    BY <2>1, <1>2, FinishedConsistent DEF Create
<1>4. record' \in [Applications -> RecordRow]
  BY <1>1, <1>2 DEF RowsTypeOK, RecordRow, RecordStatus, NonTerminal
<1>5. RowsTypeOK'
  BY <1>2, <1>3, <1>4 DEF RowsTypeOK, States
<1>6. RecordFollowsApproval'
  BY <1>2 DEF RowsTypeOK, RecordFollowsApproval, StatusOfOutcome
<1>7. InForceOnlyWhenDue'
  BY <1>2 DEF RowsTypeOK, InForceOnlyWhenDue, NotAfter
<1>8. \A q \in Applications : (ApprovedFrom(q) /\ NotAfter(record[q].start, record[q].end))'
  BY <1>1, <1>2 DEF RowsTypeOK, ApprovedFrom, NotAfter
<1> QED
  BY <1>3, <1>5, <1>6, <1>7, <1>8

LEMMA DecideApprovalStep ==
  ASSUME PartTimeInv, NEW p \in Applications, DecideApproval(p)
  PROVE  PartTimeInv'
<1> USE DEF PartTimeInv
<1>1. /\ UNCHANGED <<call, today, size>>
      /\ record' = [record EXCEPT ![p].status = StatusOfOutcome(state'[p])]
  BY DEF DecideApproval, Approve, TurnDown, WithdrawUndecided
<1>2. PICK outcome \in {"pending", "approved", "rejected", "returned", "withdrawn"} :
        /\ state[p] = "pending"
        /\ state' = [state EXCEPT ![p] = outcome]
        /\ approved' \in [Applications -> SUBSET (1 .. MaxSteps)]
        /\ outcome = "approved" => approved'[p] = 1 .. size[p]
        /\ \A q \in Applications \ {p} : approved'[q] = approved[q]
  <2>1. CASE \E k \in 1 .. size[p] : Approve(p, k)
    <3>1. PICK k \in 1 .. size[p] : Approve(p, k)
      BY <2>1
    <3>2. 1 .. k \in SUBSET (1 .. MaxSteps)
      BY <3>1, PartTimeAssumption DEF RowsTypeOK
    <3> QED
      BY <3>1, <3>2 DEF Approve, RowsTypeOK
  <2>2. CASE \E outcome \in {"rejected", "returned"} : TurnDown(p, outcome)
    BY <2>2 DEF TurnDown, RowsTypeOK
  <2>3. CASE WithdrawUndecided(p)
    BY <2>3 DEF WithdrawUndecided, RowsTypeOK
  <2> QED
    BY <2>1, <2>2, <2>3 DEF DecideApproval
<1>3. state'[p] = outcome /\ state' \in [Applications -> States]
  BY <1>2 DEF RowsTypeOK, States
<1>4. record[p].status = "PENDING"
  BY <1>2 DEF RecordFollowsApproval, StatusOfOutcome
<1>5. /\ StatusOfOutcome(outcome) \in RecordStatus
      /\ StatusOfOutcome(outcome) \notin {"ACTIVE", "ENDED"}
  BY <1>2 DEF StatusOfOutcome, RecordStatus, NonTerminal
<1>6. record' \in [Applications -> RecordRow]
  BY <1>1, <1>3, <1>5 DEF RowsTypeOK, RecordRow
<1>7. \A q \in Applications :
        /\ record'[q].start = record[q].start
        /\ record'[q].end = record[q].end
        /\ record'[q].status = IF q = p THEN StatusOfOutcome(outcome) ELSE record[q].status
  BY <1>1, <1>3 DEF RowsTypeOK, RecordRow
<1>8. RowsTypeOK'
  BY <1>1, <1>2, <1>3, <1>6 DEF RowsTypeOK
<1>9. RecordFollowsApproval'
  BY <1>2, <1>3, <1>7 DEF RowsTypeOK, RecordFollowsApproval
<1>10. InForceOnlyWhenDue'
  BY <1>1, <1>2, <1>5, <1>7 DEF InForceOnlyWhenDue, NotAfter
<1>11. PartTimeCallsConsistent'
  BY <1>1, <1>2, <1>7 DEF RowsTypeOK, PartTimeCallsConsistent, NotAfter
<1>12. \A q \in Applications : (ApprovedFrom(q) /\ NotAfter(record[q].start, record[q].end))'
  BY <1>1, <1>2, <1>7 DEF RowsTypeOK, ApprovedFrom, NotAfter
<1> QED
  BY <1>8, <1>9, <1>10, <1>11, <1>12

LEMMA ActivateStep ==
  ASSUME PartTimeInv, NEW c \in Calls, Activate(c)
  PROVE  PartTimeInv'
<1> USE DEF PartTimeInv
<1>1. PICK p \in Applications :
        /\ p = call[c].record /\ record[p].start <= today
  BY DEF Activate, PartTimeCallsConsistent
<1>2. /\ record[p].status = "PENDING_EFFECTIVE" /\ state[p] = "approved"
      /\ approved[p] = 1 .. size[p]
      /\ record' = [record EXCEPT ![p].status = "ACTIVE"]
      /\ state' = [state EXCEPT ![p] = "effective"]
      /\ UNCHANGED <<size, approved, today>>
  BY <1>1 DEF Activate, TakeEffect
<1>3. \A q \in Applications :
        /\ record'[q].start = record[q].start
        /\ record'[q].end = record[q].end
        /\ record'[q].status = IF q = p THEN "ACTIVE" ELSE record[q].status
  BY <1>2 DEF RowsTypeOK, RecordRow
<1>4. /\ call' \in [Calls -> CallRecord]
      /\ PartTimeCallsConsistent'
  BY <1>2, <1>3, FinishedConsistent DEF Activate, RowsTypeOK
<1>5. record' \in [Applications -> RecordRow]
  BY <1>2 DEF RowsTypeOK, RecordRow, RecordStatus, NonTerminal
<1>6. RowsTypeOK'
  BY <1>2, <1>4, <1>5 DEF RowsTypeOK, States
<1>7. RecordFollowsApproval'
  BY <1>2, <1>3 DEF RowsTypeOK, RecordFollowsApproval
<1>8. InForceOnlyWhenDue'
  BY <1>1, <1>2, <1>3 DEF InForceOnlyWhenDue, NotAfter
<1>9. \A q \in Applications : (ApprovedFrom(q) /\ NotAfter(record[q].start, record[q].end))'
  BY <1>2, <1>3 DEF RowsTypeOK, ApprovedFrom, NotAfter
<1> QED
  BY <1>4, <1>6, <1>7, <1>8, <1>9

LEMMA EndStep ==
  ASSUME PartTimeInv, NEW c \in Calls, End(c)
  PROVE  PartTimeInv'
<1> USE DEF PartTimeInv
<1>1. PICK p \in Applications, end \in Day :
        /\ p = call[c].record /\ end = call[c].end
        /\ record[p].start <= end
  BY DEF End, PartTimeCallsConsistent
<1>2. /\ record[p].status = "ACTIVE"
      /\ record' = [record EXCEPT ![p].status = "ENDED", ![p].end = end]
      /\ UNCHANGED <<state, size, approved, today>>
  BY <1>1 DEF End, approvalVars
<1>3. \A q \in Applications :
        /\ record'[q].start = record[q].start
        /\ record'[q].end = IF q = p THEN end ELSE record[q].end
        /\ record'[q].status = IF q = p THEN "ENDED" ELSE record[q].status
  BY <1>2 DEF RowsTypeOK, RecordRow
<1>4. /\ call' \in [Calls -> CallRecord]
      /\ PartTimeCallsConsistent'
  BY <1>2, <1>3, FinishedConsistent DEF End
<1>5. record' \in [Applications -> RecordRow]
  BY <1>2 DEF RowsTypeOK, RecordRow, RecordStatus, EndDate
<1>6. RowsTypeOK'
  BY <1>2, <1>4, <1>5 DEF RowsTypeOK
<1>7. RecordFollowsApproval'
  <2>1. state[p] = "effective"
    BY <1>2 DEF RecordFollowsApproval, RowsTypeOK, StatusOfOutcome, States
  <2> QED
    BY <2>1, <1>2, <1>3 DEF RecordFollowsApproval, RowsTypeOK
<1>8. InForceOnlyWhenDue'
  BY <1>1, <1>2, <1>3 DEF InForceOnlyWhenDue, NotAfter, RowsTypeOK
<1>9. \A q \in Applications : (ApprovedFrom(q) /\ NotAfter(record[q].start, record[q].end))'
  BY <1>1, <1>2, <1>3 DEF ApprovedFrom, NotAfter, RowsTypeOK
<1> QED
  BY <1>4, <1>6, <1>7, <1>8, <1>9

\* No step, taken or not, leaves the invariant.
LEMMA PartTimeStep == PartTimeInv /\ [Next]_vars => PartTimeInv'
<1> SUFFICES ASSUME PartTimeInv, [Next]_vars
             PROVE  PartTimeInv'
  OBVIOUS
<1>1. CASE \E c \in Calls : CallStep(c)
  BY <1>1, LoadForCreateStep, CreateStep, LoadForActivateStep, ActivateStep,
     LoadForEndStep, EndStep, RollBackStep
     DEF CallStep
<1>2. CASE \E p \in Applications : DecideApproval(p)
  BY <1>2, DecideApprovalStep
<1>3. CASE Midnight
  BY <1>3, MidnightStep
<1>4. CASE UNCHANGED vars
  BY <1>4
     DEF vars, PartTimeInv, RowsTypeOK, RecordFollowsApproval, InForceOnlyWhenDue,
         PartTimeCallsConsistent, ApprovedFrom, NotAfter
<1> QED
  BY <1>1, <1>2, <1>3, <1>4 DEF Next

\* The inductive invariant holds in every reachable state.
THEOREM PartTimeInvariance == Spec => []PartTimeInv
<1>1. Init => PartTimeInv
  BY InitPartTime
<1>2. PartTimeInv /\ [Next]_vars => PartTimeInv'
  BY PartTimeStep
<1> QED
  BY <1>1, <1>2, PTL DEF Spec

\* activate and end, with any number of calls in flight: a duty in force, or ended,
\* was unanimously approved, had reached its first day and does not end before it.
THEOREM DutyInForce == Spec => []InForceOnlyWhenDue
<1>1. PartTimeInv => InForceOnlyWhenDue
  BY DEF PartTimeInv
<1> QED
  BY <1>1, PartTimeInvariance, PTL

\* The status that syncBusinessStatus, activate and end leave in the record is the
\* one its approval request stands for.
THEOREM RecordAgreement == Spec => []RecordFollowsApproval
<1>1. PartTimeInv => RecordFollowsApproval
  BY DEF PartTimeInv
<1> QED
  BY <1>1, PartTimeInvariance, PTL

\* No call rewrites a duty that has ended, whatever it read before (the conditional
\* updates of activate and end, and the runtime's, which only touch PENDING records).
THEOREM EndedFinal == Spec => EndedIsHistory
<1>1. PartTimeInv /\ [Next]_vars =>
        [\A p \in Applications : record[p].status = "ENDED" => record'[p] = record[p]]_vars
  <2> SUFFICES ASSUME PartTimeInv, [Next]_vars, NEW p \in Applications,
                      record[p].status = "ENDED"
               PROVE  record'[p] = record[p]
    OBVIOUS
  <2>1. state[p] = "effective"
    BY DEF PartTimeInv, RecordFollowsApproval, RowsTypeOK, StatusOfOutcome, States
  <2>2. ASSUME NEW c \in Calls, CallStep(c)
        PROVE  record'[p] = record[p]
    BY <2>1, <2>2
       DEF PartTimeInv, RowsTypeOK, CallStep, LoadForCreate, Create, Submit, LoadForActivate,
           Activate, LoadForEnd, End, RollBack
  <2>3. ASSUME NEW q \in Applications, DecideApproval(q)
        PROVE  record'[p] = record[p]
    BY <2>1, <2>3
       DEF PartTimeInv, RowsTypeOK, DecideApproval, Approve, TurnDown, WithdrawUndecided
  <2>4. CASE Midnight \/ UNCHANGED vars
    BY <2>4 DEF Midnight, vars
  <2> QED
    BY <2>2, <2>3, <2>4 DEF Next
<1> QED
  BY <1>1, PartTimeInvariance, PTL DEF Spec, EndedIsHistory

-----------------------------------------------------------------------------
(***************************************************************************)
(* Submissions one at a time.  That the live records of a duty are apart   *)
(* is not inductive: the insert relies on what its call has compared, so   *)
(* the invariant says that no record has come into the way since.          *)
(***************************************************************************)
Apart(p, q) ==
  ~ (NotAfter(record[p].start, record[q].end) /\ NotAfter(record[q].start, record[p].end))

AllApart ==
  \A p, q \in Applications :
    /\ p # q
    /\ record[p].status \in NonTerminal /\ record[q].status \in NonTerminal
    /\ record[p].duty = record[q].duty
    => Apart(p, q)

StillFree ==
  \A c \in Calls :
    call[c].op = "create" => NoOverlap(call[c].duty, call[c].start, call[c].end)

SerialInv == ~overlapped => AllApart /\ StillFree /\ ~Overlap

\* A step that makes no record live and moves no live one, and takes up no submission.
LEMMA NothingNewIsLive ==
  ASSUME SerialInv, overlapped' = (overlapped \/ Overlap'),
         \A p \in Applications : record'[p].status \in NonTerminal =>
           /\ record[p].status \in NonTerminal
           /\ record'[p].duty = record[p].duty
           /\ record'[p].start = record[p].start
           /\ record'[p].end = record[p].end,
         \A c \in Calls : call'[c].op = "create" => call'[c] = call[c]
  PROVE  SerialInv'
<1> SUFFICES ASSUME ~overlapped' PROVE AllApart' /\ StillFree' /\ ~Overlap'
  BY DEF SerialInv
<1>1. AllApart /\ StillFree
  BY DEF SerialInv
<1>2. AllApart'
  BY <1>1 DEF AllApart, Apart, NotAfter
<1>3. StillFree'
  BY <1>1 DEF StillFree, NoOverlap, Overlaps, NotAfter
<1> QED BY <1>2, <1>3

LEMMA LoadForCreateSerially ==
  ASSUME RowsTypeOK, SerialInv, overlapped' = (overlapped \/ Overlap'),
         NEW c \in Calls, NEW duty \in Duties, NEW start \in Day, NEW end \in EndDate,
         LoadForCreate(c, duty, start, end)
  PROVE  SerialInv'
<1> SUFFICES ASSUME ~overlapped' PROVE AllApart' /\ StillFree' /\ ~Overlap'
  BY DEF SerialInv
<1>1. AllApart /\ StillFree
  BY DEF SerialInv
<1>2. /\ record' = record
      /\ NoOverlap(duty, start, end)
      /\ \A d \in Calls : call'[d] =
           IF d = c THEN InFlight("create", None, duty, start, end) ELSE call[d]
  BY DEF LoadForCreate, RowsTypeOK
<1>3. AllApart'
  BY <1>1, <1>2 DEF AllApart, Apart, NotAfter
<1>4. StillFree'
  BY <1>1, <1>2 DEF StillFree, NoOverlap, Overlaps, NotAfter, InFlight
<1> QED BY <1>3, <1>4

LEMMA CreateSerially ==
  ASSUME RowsTypeOK, SerialInv, overlapped' = (overlapped \/ Overlap'),
         NEW c \in Calls, NEW p \in Applications, NEW n \in 1 .. MaxSteps, Create(c, p, n)
  PROVE  SerialInv'
<1> SUFFICES ASSUME ~overlapped' PROVE AllApart' /\ StillFree' /\ ~Overlap'
  BY DEF SerialInv
<1>1. AllApart /\ StillFree /\ ~Overlap
  BY DEF SerialInv
<1>2. /\ call[c].op = "create"
      /\ \A q \in Applications : record'[q] =
           IF q = p THEN [status |-> "PENDING", duty |-> call[c].duty,
                          start |-> call[c].start, end |-> call[c].end]
           ELSE record[q]
      /\ \A d \in Calls : call'[d] = IF d = c THEN NoCall ELSE call[d]
  BY DEF Create, Finish, RowsTypeOK
<1>3. \A q \in Applications : ~Overlaps(q, call[c].duty, call[c].start, call[c].end)
  BY <1>1, <1>2 DEF StillFree, NoOverlap
<1>4. AllApart'
  BY <1>1, <1>2, <1>3 DEF AllApart, Apart, Overlaps, NotAfter, NonTerminal
<1>5. \A d \in Calls : call'[d].op = "none"
  BY <1>1, <1>2 DEF Overlap, NoCall, InFlight
<1>6. StillFree'
  BY <1>5 DEF StillFree
<1> QED BY <1>4, <1>6

LEMMA SerialStep == PartTimeInv /\ SerialInv /\ [Next]_vars => SerialInv'
<1> SUFFICES ASSUME PartTimeInv, SerialInv, [Next]_vars PROVE SerialInv'
  OBVIOUS
<1>1. RowsTypeOK /\ RecordFollowsApproval /\ PartTimeCallsConsistent
  BY DEF PartTimeInv
<1>2. CASE UNCHANGED vars
  <2>1. record' = record /\ call' = call /\ overlapped' = overlapped
    BY <1>2 DEF vars
  <2> QED
    BY <2>1 DEF SerialInv, AllApart, Apart, StillFree, NoOverlap, Overlaps, NotAfter, Overlap
<1>3. ASSUME Next PROVE SerialInv'
  <2>1. overlapped' = (overlapped \/ Overlap')
    BY <1>3 DEF Next
  <2>2. ASSUME NEW c \in Calls, CallStep(c) PROVE SerialInv'
    <3>1. ASSUME NEW duty \in Duties, NEW start \in Day, NEW end \in EndDate,
                 LoadForCreate(c, duty, start, end)
          PROVE  SerialInv'
      BY <1>1, <2>1, <3>1, LoadForCreateSerially
    <3>2. ASSUME NEW p \in Applications, NEW n \in 1 .. MaxSteps, Create(c, p, n)
          PROVE  SerialInv'
      BY <1>1, <2>1, <3>2, CreateSerially
    <3>3. CASE \/ \E p \in Applications : LoadForActivate(c, p)
               \/ \E p \in Applications, end \in Day : LoadForEnd(c, p, end)
      <4>1. /\ record' = record
            /\ \A d \in Calls : call'[d].op = "create" => call'[d] = call[d]
        BY <1>1, <3>3 DEF LoadForActivate, LoadForEnd, RowsTypeOK, InFlight
      <4> QED BY <2>1, <4>1, NothingNewIsLive
    <3>4. CASE Activate(c) \/ End(c) \/ RollBack(c)
      <4>1. \A d \in Calls : call'[d].op = "create" => call'[d] = call[d]
        BY <1>1, <3>4 DEF Activate, End, RollBack, Finish, RowsTypeOK, NoCall, InFlight
      <4>2. \A p \in Applications : record'[p].status \in NonTerminal =>
              /\ record[p].status \in NonTerminal
              /\ record'[p].duty = record[p].duty
              /\ record'[p].start = record[p].start
              /\ record'[p].end = record[p].end
        BY <1>1, <3>4 DEF Activate, End, RollBack, RowsTypeOK, RecordRow, NonTerminal
      <4> QED BY <2>1, <4>1, <4>2, NothingNewIsLive
    <3> QED BY <2>2, <3>1, <3>2, <3>3, <3>4 DEF CallStep
  <2>3. ASSUME NEW p \in Applications, DecideApproval(p) PROVE SerialInv'
    <3>1. state[p] = "pending" /\ call' = call
      BY <2>3 DEF DecideApproval, Approve, TurnDown, WithdrawUndecided
    <3>2. record[p].status = "PENDING"
      BY <1>1, <3>1 DEF RecordFollowsApproval, StatusOfOutcome
    <3>3. record' = [record EXCEPT ![p].status = StatusOfOutcome(state'[p])]
      BY <2>3 DEF DecideApproval
    <3>4. \A q \in Applications :
            /\ q # p => record'[q] = record[q]
            /\ record'[q].duty = record[q].duty
            /\ record'[q].start = record[q].start
            /\ record'[q].end = record[q].end
      BY <1>1, <3>3 DEF RowsTypeOK, RecordRow
    <3> QED BY <2>1, <3>1, <3>2, <3>4, NothingNewIsLive DEF NonTerminal
  <2>4. CASE Midnight
    <3>1. record' = record /\ call' = call
      BY <2>4 DEF Midnight
    <3> QED BY <2>1, <3>1, NothingNewIsLive
  <2> QED BY <1>3, <2>2, <2>3, <2>4 DEF Next
<1> QED BY <1>2, <1>3

\* Every variable of the part-time service keeps its shape.
THEOREM PartTimeTyping == Spec => []PartTimeTypeOK
<1>1. Init => overlapped \in BOOLEAN
  BY DEF Init
<1>2. overlapped \in BOOLEAN /\ [Next]_vars => (overlapped \in BOOLEAN)'
  BY DEF Next, vars, Overlap
<1>3. PartTimeInv /\ overlapped \in BOOLEAN => PartTimeTypeOK
  BY DEF PartTimeInv, PartTimeTypeOK
<1> QED
  BY <1>1, <1>2, <1>3, PartTimeInvariance, PTL DEF Spec

\* The comparison of assertNoOverlap is the right one: as long as no two calls overlap,
\* no two live records of a duty have a day in common, over any calendar.
THEOREM PeriodsDisjoint == Spec => []SeriallyDisjoint
<1>1. Init => SerialInv
  BY DEF Init, SerialInv, AllApart, StillFree, Overlap, NoRecord, NoCall, InFlight, NonTerminal
<1>2. PartTimeInv /\ SerialInv /\ [Next]_vars => SerialInv'
  BY SerialStep
<1>3. PartTimeInv /\ SerialInv => SeriallyDisjoint
  <2> SUFFICES ASSUME PartTimeInv, SerialInv, ~overlapped,
                      NEW p \in Applications, NEW q \in Applications, p # q,
                      record[p].status \in NonTerminal, record[q].status \in NonTerminal,
                      record[p].duty = record[q].duty,
                      NEW d \in Covers(p) \cap Covers(q)
               PROVE  FALSE
    BY DEF SeriallyDisjoint, NonTerminalDisjoint
  <2>1. Apart(p, q)
    BY DEF SerialInv, AllApart
  <2>2. /\ record[p].start \in Nat /\ record[q].start \in Nat /\ d \in Nat
        /\ record[p].end \in Nat \cup {None} /\ record[q].end \in Nat \cup {None}
    BY PartTimeAssumption DEF PartTimeInv, RowsTypeOK, RecordRow, Covers, Day, EndDate
  <2>3. /\ record[p].start <= d /\ NotAfter(d, record[p].end)
        /\ record[q].start <= d /\ NotAfter(d, record[q].end)
    BY DEF Covers
  <2> QED BY <2>1, <2>2, <2>3 DEF Apart, NotAfter
<1> QED
  BY <1>1, <1>2, <1>3, PartTimeInvariance, PTL DEF Spec
=============================================================================
