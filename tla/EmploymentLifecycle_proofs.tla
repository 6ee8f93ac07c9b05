---------------------- MODULE EmploymentLifecycle_proofs ----------------------
(***************************************************************************)
(* Proofs about the periods of an employee, for any conversions, racing    *)
(* calls, corrections and calendar: the periods form a chain and end by    *)
(* completed conversions and, unless calls overlap or dates are written    *)
(* over, no day has two departments.                                       *)
(*                                                                         *)
(* That a stale call cannot break the chain rests on the update of the     *)
(* current record, which it makes conditional on the source period.  The   *)
(* departments have no such condition: what Fresh says of a call in flight *)
(* is true only while no other is.                                         *)
(***************************************************************************)
EXTENDS EmploymentLifecycle, TLAPS

Creating(k) == k.at \in {"create", "open"}
Changing(k) == k.at \in {"update", "import"}

Carried(k) ==
  /\ Creating(k) => k.source \in Periods
  /\ k.at = "activate" =>
       /\ k.conversion \in Applications
       /\ k.source \in Periods
       /\ state[k.conversion] # "absent"
       /\ conversion[k.conversion].source = k.source
       /\ conversion[k.conversion].planned = k.day
       /\ 1 <= k.day /\ k.day <= today
  /\ Changing(k) =>
       /\ k.source \in Periods
       /\ k.assignment \in Assignments
       /\ assignment[k.assignment].status # "ABSENT"
       /\ 1 <= k.day

Fresh(k) ==
  /\ Creating(k) => period[k.source].exit = None
  /\ k.at = "activate" => \A a \in ActiveIn(k.source) : assignment[a].start < k.day
  /\ Changing(k) =>
       /\ assignment[k.assignment].status = "ACTIVE"
       /\ assignment[k.assignment].period = k.source
       /\ k.day <= serverDay
  /\ k.at = "update" /\ ~misdated => assignment[k.assignment].start <= k.day

CallsOK == \A c \in Calls : Carried(call[c])
OverlapOK ==
  /\ overlapped \in BOOLEAN
  /\ Overlap => overlapped
  /\ ~overlapped => \A c \in Calls : Fresh(call[c])

\* A conversion and its approval tell the same story.
ConversionFollowsApproval ==
  \A v \in Applications :
    /\ <<state[v], conversion[v].status>> \in
         {<<"absent", "ABSENT">>, <<"pending", "PENDING">>, <<"approved", "PENDING_EFFECTIVE">>,
          <<"rejected", "REJECTED">>, <<"returned", "DRAFT">>, <<"withdrawn", "WITHDRAWN">>,
          <<"effective", "COMPLETED">>}
    /\ state[v] = "effective" => approved[v] = 1 .. size[v]
    /\ state[v] # "absent" => conversion[v].source \in Periods

\* The partial unique index on open conversions.
OneOpenConversion ==
  \A v, w \in Applications :
    conversion[v].status \in Open /\ conversion[w].status \in Open
      /\ conversion[v].source = conversion[w].source => v = w

RowsOK ==
  /\ state \in [Applications -> States]
  /\ size \in [Applications -> 1 .. MaxSteps]
  /\ approved \in [Applications -> SUBSET Nat]
  /\ 1 <= serverDay
  /\ misdated \in BOOLEAN
  /\ Exists(current)
  /\ \A p \in Periods : ~Exists(p) => period[p].exit = None /\ period[p].previous = None
  /\ \A a \in Assignments : assignment[a].end # None <=> assignment[a].status = "ENDED"

\* The only active assignment is that of the current period.
CurrentDepartment ==
  ~overlapped =>
    \A a \in Assignments : assignment[a].status = "ACTIVE" =>
      /\ assignment[a].period = current
      /\ \A b \in Assignments \ {a} : assignment[b].status # "ACTIVE"

\* It starts after all others ended, as long as no date is written over.
LatestDepartment ==
  ~overlapped /\ ~misdated =>
    \A a \in Assignments : assignment[a].status = "ACTIVE" =>
      /\ assignment[a].start = period[current].entry \/ assignment[a].start <= serverDay
      /\ \A b \in Assignments \ {a} :
           assignment[b].status = "ENDED" => assignment[b].end < assignment[a].start

LifecycleInv ==
  /\ LifecycleTypeOK /\ RowsOK /\ CallsOK /\ OverlapOK
  /\ ConversionFollowsApproval /\ OneOpenConversion /\ CurrentDepartment /\ LatestDepartment
  /\ OneDepartmentPerDay /\ EndedPeriodIsLeft /\ ChainOfPeriods /\ EndedByCompletedConversion

-----------------------------------------------------------------------------
\* No row goes back to ABSENT, and a conversion keeps its source and its day.
Forward ==
  /\ \A v \in Applications : state[v] # "absent" =>
       /\ state'[v] # "absent"
       /\ conversion'[v].source = conversion[v].source
       /\ conversion'[v].planned = conversion[v].planned
  /\ \A a \in Assignments : assignment[a].status # "ABSENT" => assignment'[a].status # "ABSENT"
  /\ today <= today'

LEMMA IdleType == Idle \in CallRecord /\ Idle.at = "idle"
  BY LifecycleAssumption DEF Idle, InFlight, CallRecord, Day

LEMMA IdleCarriesNothing ==
  ASSUME NEW k, k.at = "idle"
  PROVE  Carried(k) /\ Fresh(k)
  BY DEF Carried, Fresh, Creating, Changing

LEMMA OverlapKept ==
  ASSUME overlapped \in BOOLEAN, overlapped' = (overlapped \/ Overlap')
  PROVE  /\ overlapped' \in BOOLEAN
         /\ Overlap' => overlapped'
         /\ overlapped => overlapped'
  OBVIOUS

\* The invariant on the rows does not depend on the calls.
LEMMA RowsKeep ==
  ASSUME LifecycleInv, UNCHANGED <<rows, clock, approvalVars, misdated>>, overlapped => overlapped',
         call' \in [Calls -> CallRecord]
  PROVE  /\ LifecycleTypeOK' /\ RowsOK'
         /\ ConversionFollowsApproval' /\ OneOpenConversion'
         /\ CurrentDepartment' /\ LatestDepartment'
         /\ OneDepartmentPerDay' /\ EndedPeriodIsLeft' /\ ChainOfPeriods'
         /\ EndedByCompletedConversion'
<1>1. /\ period' = period /\ assignment' = assignment /\ current' = current
      /\ conversion' = conversion /\ today' = today /\ serverDay' = serverDay
      /\ state' = state /\ size' = size /\ approved' = approved /\ misdated' = misdated
  BY DEF rows, clock, approvalVars
<1>2. LifecycleTypeOK' /\ RowsOK'
  BY <1>1 DEF LifecycleInv, LifecycleTypeOK, RowsOK, Exists
<1>3. ConversionFollowsApproval' /\ OneOpenConversion' /\ CurrentDepartment' /\ LatestDepartment'
  BY <1>1 DEF LifecycleInv, ConversionFollowsApproval, OneOpenConversion, CurrentDepartment,
     LatestDepartment
<1>4. \A a : Covers(a)' = Covers(a)
  BY <1>1 DEF Covers
<1>5. OneDepartmentPerDay'
  BY <1>1, <1>4 DEF LifecycleInv, OneDepartmentPerDay
<1>6. EndedPeriodIsLeft'
  BY <1>1 DEF LifecycleInv, EndedPeriodIsLeft, ActiveIn
<1>7. ChainOfPeriods' /\ EndedByCompletedConversion'
  BY <1>1 DEF LifecycleInv, ChainOfPeriods, EndedByCompletedConversion, Exists
<1> QED BY <1>2, <1>3, <1>5, <1>6, <1>7

\* A read: the call keeps what it has found.
LEMMA KnowsKeeps ==
  ASSUME LifecycleInv, NEW c \in Calls, NEW k \in CallRecord, Carried(k),
         ~overlapped => Fresh(k),
         call' = [call EXCEPT ![c] = k], UNCHANGED <<rows, clock, approvalVars, misdated>>,
         overlapped' = (overlapped \/ Overlap')
  PROVE  LifecycleInv'
<1>1. /\ period' = period /\ assignment' = assignment /\ current' = current
      /\ conversion' = conversion /\ today' = today /\ serverDay' = serverDay
      /\ state' = state /\ size' = size /\ approved' = approved /\ misdated' = misdated
  BY DEF rows, clock, approvalVars
<1>2. overlapped' \in BOOLEAN /\ (Overlap' => overlapped') /\ (overlapped => overlapped')
  BY OverlapKept DEF LifecycleInv, OverlapOK
<1>3. call \in [Calls -> CallRecord]
  BY DEF LifecycleInv, LifecycleTypeOK
<1>4. call' \in [Calls -> CallRecord] /\ \A d \in Calls : call'[d] = IF d = c THEN k ELSE call[d]
  BY <1>3
<1>5. \A d \in Calls : Carried(call'[d]) /\ (~overlapped' => Fresh(call'[d]))
  BY <1>2, <1>4 DEF LifecycleInv, CallsOK, OverlapOK
<1>6. CallsOK'
  BY <1>1, <1>5 DEF CallsOK, Carried
<1>7. OverlapOK'
  BY <1>1, <1>2, <1>5 DEF OverlapOK, Fresh, ActiveIn
<1> QED BY <1>2, <1>4, <1>6, <1>7, RowsKeep DEF LifecycleInv

\* The end of a call: the others still have what they carry.  When no other call is in
\* flight, nothing is left to be fresh.
LEMMA FinishKeeps ==
  ASSUME LifecycleInv, NEW c \in Calls, call[c].at # "idle", Finish(c), Forward,
         today \in Int, today' \in Int,
         overlapped' = (overlapped \/ Overlap')
  PROVE  /\ CallsOK' /\ OverlapOK' /\ call' \in [Calls -> CallRecord]
         /\ overlapped => overlapped'
<1>1. call' = [call EXCEPT ![c] = Idle] /\ call \in [Calls -> CallRecord]
  BY DEF Finish, LifecycleInv, LifecycleTypeOK
<1>2. overlapped' \in BOOLEAN /\ (Overlap' => overlapped') /\ (overlapped => overlapped')
  BY OverlapKept DEF LifecycleInv, OverlapOK
<1>3. call' \in [Calls -> CallRecord] /\ \A d \in Calls : call'[d] = IF d = c THEN Idle ELSE call[d]
  BY <1>1, IdleType
<1>4. ASSUME NEW d \in Calls
      PROVE  Carried(call[d])'
  <2>1. CASE d = c
    <3>1. call'[d].at = "idle"
      BY <1>3, <2>1, IdleType
    <3> QED BY <3>1 DEF Carried, Creating, Changing
  <2>2. CASE d # c
    <3>1. call'[d] = call[d] /\ Carried(call[d]) /\ call[d] \in CallRecord
      BY <1>1, <1>3, <2>2 DEF LifecycleInv, CallsOK
    <3>2. call[d].day \in Int
      BY <3>1 DEF CallRecord, Day
    <3> QED BY <3>1, <3>2 DEF Carried, Creating, Changing, Forward
  <2> QED BY <2>1, <2>2
<1>5. ASSUME NEW d \in Calls, ~overlapped'
      PROVE  call'[d].at = "idle"
  <2>1. CASE d = c
    BY <1>3, <2>1, IdleType
  <2>2. CASE d # c
    <3>1. call[d].at = "idle"
      BY <1>2, <1>5, <2>2 DEF LifecycleInv, OverlapOK, Overlap
    <3> QED BY <1>3, <2>2, <3>1
  <2> QED BY <2>1, <2>2
<1>6. OverlapOK'
  <2>1. ASSUME NEW d \in Calls, ~overlapped'
        PROVE  Fresh(call[d])'
    BY <1>5, <2>1 DEF Fresh, Creating, Changing
  <2> QED BY <1>2, <2>1 DEF OverlapOK
<1> QED BY <1>2, <1>3, <1>4, <1>6 DEF CallsOK

-----------------------------------------------------------------------------
(***************************************************************************)
(* The reads.                                                              *)
(***************************************************************************)
LEMMA LoadSourceKeeps ==
  ASSUME LifecycleInv, NEW c \in Calls, NEW p \in Periods, NEW planned \in Day,
         LoadSource(c, p, planned), overlapped' = (overlapped \/ Overlap')
  PROVE  LifecycleInv'
<1> DEFINE k == InFlight("create", None, p, None, planned)
<1>1. /\ ActiveIn(p) # {}
      /\ call' = [call EXCEPT ![c] = k] /\ UNCHANGED <<rows, clock, approvalVars, misdated>>
  BY DEF LoadSource
<1>2. k \in CallRecord /\ k.at = "create" /\ k.source = p
  BY DEF InFlight, CallRecord
<1>3. ~overlapped => period[p].exit = None
  <2>1. PICK a \in Assignments : assignment[a].status = "ACTIVE" /\ assignment[a].period = p
    BY <1>1 DEF ActiveIn
  <2>2. ~overlapped => p = current
    BY <2>1 DEF LifecycleInv, CurrentDepartment
  <2> QED BY <2>2 DEF LifecycleInv, RowsOK, ChainOfPeriods
<1> HIDE DEF k
<1>4. Carried(k) /\ (~overlapped => Fresh(k))
  BY <1>2, <1>3 DEF Carried, Fresh, Creating, Changing
<1> QED BY <1>1, <1>2, <1>4, KnowsKeeps

LEMMA CheckDuplicateKeeps ==
  ASSUME LifecycleInv, NEW c \in Calls, CheckDuplicate(c), overlapped' = (overlapped \/ Overlap')
  PROVE  LifecycleInv'
<1> DEFINE k == [call[c] EXCEPT !.at = "open"]
<1>1. /\ call[c] \in CallRecord /\ Carried(call[c]) /\ (~overlapped => Fresh(call[c]))
      /\ call[c].at = "create" /\ UNCHANGED <<rows, clock, approvalVars, misdated>>
  BY DEF LifecycleInv, LifecycleTypeOK, CallsOK, OverlapOK, CheckDuplicate
<1>2. call' = [call EXCEPT ![c] = k]
  BY DEF CheckDuplicate
<1>3. k \in CallRecord /\ k.at = "open" /\ k.source = call[c].source
  BY <1>1 DEF CallRecord
<1> HIDE DEF k
<1>4. Carried(k) /\ (~overlapped => Fresh(k))
  BY <1>1, <1>3 DEF Carried, Fresh, Creating, Changing
<1> QED BY <1>1, <1>2, <1>3, <1>4, KnowsKeeps

\* The day of the conversion is past the start of the source's latest department, so of all.
LEMMA LoadConversionKeeps ==
  ASSUME LifecycleInv, NEW c \in Calls, NEW v \in Applications, LoadConversion(c, v),
         overlapped' = (overlapped \/ Overlap')
  PROVE  LifecycleInv'
<1>1. /\ conversion[v].source \in Periods /\ conversion[v].planned \in Day
      /\ today \in Day
      /\ \A a \in Assignments : assignment[a].start \in Day
      /\ \A p \in Periods : period[p].entry \in Day
  BY DEF LifecycleInv, LifecycleTypeOK, ConversionFollowsApproval, ConversionRow, AssignmentRow,
     PeriodRow, LoadConversion
<1>2. PICK p \in Periods : p = conversion[v].source
  BY <1>1
<1>3. PICK day \in Day : day = conversion[v].planned
  BY <1>1
<1> DEFINE k == InFlight("activate", v, p, None, day)
<1>4. /\ state[v] = "approved" /\ day <= today /\ LeavesLastDay(p, day)
      /\ call' = [call EXCEPT ![c] = k] /\ UNCHANGED <<rows, clock, approvalVars, misdated>>
  BY <1>2, <1>3 DEF LoadConversion
<1>5. /\ k \in CallRecord /\ k.at = "activate" /\ k.source = p /\ k.conversion = v /\ k.day = day
  BY DEF InFlight, CallRecord
<1> HIDE DEF k
<1>6. 1 <= day /\ \A a \in ActiveIn(p) : assignment[a].start < day
  <2>1. DayBefore(day) >= period[p].entry
    BY <1>4 DEF LeavesLastDay
  <2>2. PICK a \in ActiveIn(p) :
          /\ \A b \in ActiveIn(p) : assignment[b].start <= assignment[a].start
          /\ DayBefore(day) >= assignment[a].start
    BY <1>4 DEF LeavesLastDay
  <2>3. ActiveIn(p) \subseteq Assignments
    BY DEF ActiveIn
  <2> QED BY <1>1, <2>1, <2>2, <2>3 DEF DayBefore, Day
<1>7. Carried(k) /\ Fresh(k)
  BY <1>2, <1>3, <1>4, <1>5, <1>6 DEF Carried, Fresh, Creating, Changing
<1> QED BY <1>4, <1>5, <1>7, KnowsKeeps

\* What is read is written down as it is; an assignment that update reads has begun.
LEMMA ReadsKeeps ==
  ASSUME LifecycleInv, NEW c \in Calls, NEW a \in Assignments, NEW at \in {"update", "import"},
         NEW candidates, Reads(c, at, a, candidates), assignment[a].status = "ACTIVE",
         at = "update" => period[assignment[a].period].entry <= serverDay,
         overlapped' = (overlapped \/ Overlap')
  PROVE  LifecycleInv'
<1>1. /\ assignment[a] \in AssignmentRow /\ today \in Day /\ serverDay \in {today - 1, today}
      /\ 1 <= serverDay
  BY DEF LifecycleInv, LifecycleTypeOK, RowsOK
<1>2. serverDay \in Day
  BY <1>1, LifecycleAssumption DEF Day
<1>3. PICK p \in Periods : p = assignment[a].period
  BY <1>1 DEF AssignmentRow
<1> DEFINE k == InFlight(at, None, p, a, serverDay)
<1>4. /\ at = "update" => period[p].entry <= serverDay
      /\ call' = [call EXCEPT ![c] = k] /\ UNCHANGED <<rows, clock, approvalVars, misdated>>
  BY <1>3 DEF Reads
<1>5. /\ k \in CallRecord /\ k.at = at /\ k.source = p /\ k.assignment = a
      /\ k.day = serverDay
  BY <1>2 DEF InFlight, CallRecord
<1> HIDE DEF k
<1>6. ~overlapped /\ ~misdated /\ at = "update" => assignment[a].start <= serverDay
  <2>1. ASSUME ~overlapped, ~misdated
        PROVE  /\ p = current
               /\ assignment[a].start = period[current].entry \/ assignment[a].start <= serverDay
    BY <1>3, <2>1 DEF LifecycleInv, CurrentDepartment, LatestDepartment
  <2> QED BY <1>4, <2>1
<1>7. Carried(k) /\ (~overlapped => Fresh(k))
  BY <1>1, <1>2, <1>3, <1>4, <1>5, <1>6 DEF Carried, Fresh, Creating, Changing, Day
<1> QED BY <1>4, <1>5, <1>7, KnowsKeeps

-----------------------------------------------------------------------------
(***************************************************************************)
(* The clock and the approval.                                             *)
(***************************************************************************)
LEMMA ClockKeeps ==
  ASSUME LifecycleInv, Midnight \/ ServerMidnight, overlapped' = (overlapped \/ Overlap')
  PROVE  LifecycleInv'
<1>1. /\ period' = period /\ assignment' = assignment /\ current' = current
      /\ conversion' = conversion /\ call' = call
      /\ state' = state /\ size' = size /\ approved' = approved /\ misdated' = misdated
  BY DEF Midnight, ServerMidnight, rows, approvalVars
<1>2. /\ today \in Day /\ serverDay \in {today - 1, today} /\ 1 <= serverDay
  BY DEF LifecycleInv, LifecycleTypeOK, RowsOK
<1>3. /\ today' \in Day /\ serverDay' \in {today' - 1, today'}
      /\ today <= today' /\ serverDay <= serverDay' /\ 1 <= serverDay'
      /\ serverDay \in Int /\ serverDay' \in Int /\ today \in Int /\ today' \in Int
  BY <1>2, LifecycleAssumption DEF Midnight, ServerMidnight, Day
<1>4. overlapped' \in BOOLEAN /\ (Overlap' => overlapped') /\ (overlapped => overlapped')
  BY OverlapKept DEF LifecycleInv, OverlapOK
<1>5. LifecycleTypeOK' /\ RowsOK'
  BY <1>1, <1>3 DEF LifecycleInv, LifecycleTypeOK, RowsOK, Exists
<1>6. CallsOK'
  <2>1. ASSUME NEW c \in Calls
        PROVE  Carried(call[c])'
    <3>1. Carried(call[c]) /\ call[c].day \in Int
      BY DEF LifecycleInv, CallsOK, LifecycleTypeOK, CallRecord, Day
    <3> QED BY <1>1, <1>3, <3>1 DEF Carried, Creating, Changing
  <2> QED BY <2>1 DEF CallsOK
<1>7. OverlapOK'
  <2>1. ASSUME NEW c \in Calls, ~overlapped'
        PROVE  Fresh(call[c])'
    <3>1. Fresh(call[c]) /\ call[c].day \in Int
      BY <1>4, <2>1 DEF LifecycleInv, OverlapOK, LifecycleTypeOK, CallRecord, Day
    <3> QED BY <1>1, <1>3, <3>1 DEF Fresh, Creating, Changing, ActiveIn
  <2> QED BY <1>4, <2>1 DEF OverlapOK
<1>8. ConversionFollowsApproval' /\ OneOpenConversion'
  BY <1>1 DEF LifecycleInv, ConversionFollowsApproval, OneOpenConversion
<1>9. CurrentDepartment' /\ LatestDepartment'
  <2>1. \A a \in Assignments : assignment[a].start \in Int
    BY DEF LifecycleInv, LifecycleTypeOK, AssignmentRow, Day
  <2> QED BY <1>1, <1>3, <1>4, <2>1 DEF LifecycleInv, CurrentDepartment, LatestDepartment
<1>10. \A a : Covers(a)' = Covers(a)
  BY <1>1 DEF Covers
<1>11. OneDepartmentPerDay' /\ EndedPeriodIsLeft'
  BY <1>1, <1>4, <1>10 DEF LifecycleInv, OneDepartmentPerDay, EndedPeriodIsLeft, ActiveIn
<1>12. ChainOfPeriods'
  BY <1>1 DEF LifecycleInv, ChainOfPeriods, Exists
<1>13. EndedByCompletedConversion'
  <2>1. \A v \in Applications : conversion[v].planned \in Int
    BY DEF LifecycleInv, LifecycleTypeOK, ConversionRow, Day
  <2> QED BY <1>1, <1>3, <2>1 DEF LifecycleInv, EndedByCompletedConversion
<1> QED BY <1>5, <1>6, <1>7, <1>8, <1>9, <1>11, <1>12, <1>13 DEF LifecycleInv

\* A decision leaves the pending state and moves the conversion with it.
LEMMA DecideApprovalKeeps ==
  ASSUME LifecycleInv, NEW v \in Applications, DecideApproval(v),
         overlapped' = (overlapped \/ Overlap')
  PROVE  LifecycleInv'
<1>1. /\ period' = period /\ assignment' = assignment /\ current' = current
      /\ today' = today /\ serverDay' = serverDay /\ call' = call /\ misdated' = misdated
      /\ conversion' = [conversion EXCEPT ![v].status = StatusOfOutcome(state'[v])]
  BY DEF DecideApproval, clock
<1>2. /\ state \in [Applications -> States] /\ size \in [Applications -> 1 .. MaxSteps]
      /\ approved \in [Applications -> SUBSET Nat] /\ conversion \in [Applications -> ConversionRow]
  BY DEF LifecycleInv, RowsOK, LifecycleTypeOK
<1> DEFINE Decided ==
      /\ state[v] = "pending" /\ size' = size
      /\ state' \in [Applications -> States]
      /\ state'[v] \in {"pending", "approved", "rejected", "returned", "withdrawn"}
      /\ approved' \in [Applications -> SUBSET Nat]
      /\ \A w \in Applications : w # v => state'[w] = state[w] /\ approved'[w] = approved[w]
<1>3. Decided
  <2>1. ASSUME NEW k \in 1 .. size[v], Approve(v, k)
        PROVE  Decided
    <3>1. 1 .. k \in SUBSET Nat
      BY <1>2
    <3> QED BY <1>2, <2>1, <3>1 DEF Approve, States
  <2>2. ASSUME NEW outcome \in {"rejected", "returned"}, TurnDown(v, outcome)
        PROVE  Decided
    BY <1>2, <2>2 DEF TurnDown, States
  <2>3. CASE WithdrawUndecided(v)
    BY <1>2, <2>3 DEF WithdrawUndecided, States
  <2> HIDE DEF Decided
  <2> QED BY <2>1, <2>2, <2>3 DEF DecideApproval
<1>4. conversion[v].status = "PENDING" /\ conversion[v].source \in Periods
  BY <1>3 DEF LifecycleInv, ConversionFollowsApproval
<1>5. <<state'[v], StatusOfOutcome(state'[v])>> \in
        {<<"pending", "PENDING">>, <<"approved", "PENDING_EFFECTIVE">>,
         <<"rejected", "REJECTED">>, <<"returned", "DRAFT">>, <<"withdrawn", "WITHDRAWN">>}
  BY <1>3 DEF StatusOfOutcome
<1>6. /\ conversion' \in [Applications -> ConversionRow]
      /\ <<state'[v], conversion'[v].status>> \in
           {<<"pending", "PENDING">>, <<"approved", "PENDING_EFFECTIVE">>,
            <<"rejected", "REJECTED">>, <<"returned", "DRAFT">>, <<"withdrawn", "WITHDRAWN">>}
      /\ \A w \in Applications : /\ w # v => conversion'[w] = conversion[w]
                                 /\ conversion'[w].source = conversion[w].source
                                 /\ conversion'[w].planned = conversion[w].planned
  BY <1>1, <1>2, <1>5 DEF ConversionRow, Open
<1>7. overlapped' \in BOOLEAN /\ (Overlap' => overlapped') /\ (overlapped => overlapped')
  BY OverlapKept DEF LifecycleInv, OverlapOK
<1>8. LifecycleTypeOK' /\ RowsOK'
  BY <1>1, <1>2, <1>3, <1>6 DEF LifecycleInv, LifecycleTypeOK, RowsOK, Exists
<1>9. CallsOK' /\ OverlapOK'
  <2>1. ASSUME NEW c \in Calls
        PROVE  Carried(call[c])'
    <3>1. Carried(call[c])
      BY DEF LifecycleInv, CallsOK
    <3>2. \A w \in Applications : state[w] # "absent" => state'[w] # "absent"
      BY <1>3
    <3> QED BY <1>1, <1>6, <3>1, <3>2 DEF Carried
  <2>2. ASSUME NEW c \in Calls, ~overlapped'
        PROVE  Fresh(call[c])'
    BY <1>1, <1>7, <2>2 DEF LifecycleInv, OverlapOK, Fresh, ActiveIn
  <2> QED BY <1>7, <2>1, <2>2 DEF CallsOK, OverlapOK
<1>10. ConversionFollowsApproval'
  <2>1. ASSUME NEW w \in Applications
        PROVE  /\ <<state'[w], conversion'[w].status>> \in
                    {<<"absent", "ABSENT">>, <<"pending", "PENDING">>,
                     <<"approved", "PENDING_EFFECTIVE">>, <<"rejected", "REJECTED">>,
                     <<"returned", "DRAFT">>, <<"withdrawn", "WITHDRAWN">>,
                     <<"effective", "COMPLETED">>}
               /\ state'[w] = "effective" => approved'[w] = 1 .. size'[w]
               /\ state'[w] # "absent" => conversion'[w].source \in Periods
    <3>1. CASE w = v
      BY <1>3, <1>4, <1>6, <3>1
    <3>2. CASE w # v
      BY <1>3, <1>6, <3>2 DEF LifecycleInv, ConversionFollowsApproval
    <3> QED BY <3>1, <3>2
  <2> QED BY <2>1 DEF ConversionFollowsApproval
<1>11. OneOpenConversion'
  <2>1. \A w \in Applications : conversion'[w].status \in Open => conversion[w].status \in Open
    BY <1>4, <1>6 DEF Open
  <2> QED BY <1>6, <2>1 DEF LifecycleInv, OneOpenConversion
<1>12. \A a : Covers(a)' = Covers(a)
  BY <1>1 DEF Covers
<1>13. CurrentDepartment' /\ LatestDepartment' /\ OneDepartmentPerDay'
  BY <1>1, <1>7, <1>12 DEF LifecycleInv, CurrentDepartment, LatestDepartment, OneDepartmentPerDay
<1>14. EndedPeriodIsLeft'
  <2>1. \A w \in Applications : conversion'[w].status = "PENDING" => conversion[w].status = "PENDING"
    BY <1>4, <1>6
  <2> QED BY <1>1, <1>6, <1>7, <2>1 DEF LifecycleInv, EndedPeriodIsLeft, ActiveIn
<1>15. ChainOfPeriods'
  BY <1>1 DEF LifecycleInv, ChainOfPeriods, Exists
<1>16. EndedByCompletedConversion'
  <2>1. \A w \in Applications :
          /\ conversion'[w].status = "COMPLETED" <=> conversion[w].status = "COMPLETED"
          /\ conversion[w].status = "COMPLETED" => approved'[w] = approved[w]
    BY <1>3, <1>4, <1>6
  <2> QED BY <1>1, <1>3, <1>6, <2>1 DEF LifecycleInv, EndedByCompletedConversion
<1> QED BY <1>8, <1>9, <1>10, <1>11, <1>13, <1>14, <1>15, <1>16 DEF LifecycleInv

-----------------------------------------------------------------------------
(***************************************************************************)
(* The commits.                                                            *)
(***************************************************************************)
\* The new conversion is the only open one of its source, which has not ended.
LEMMA OpenConversionKeeps ==
  ASSUME LifecycleInv, NEW c \in Calls, NEW v \in Applications, NEW n \in 1 .. MaxSteps,
         OpenConversion(c, v, n), overlapped' = (overlapped \/ Overlap')
  PROVE  LifecycleInv'
<1>1. /\ call[c] \in CallRecord /\ Carried(call[c]) /\ (~overlapped => Fresh(call[c]))
      /\ call[c].at = "open"
  BY DEF LifecycleInv, LifecycleTypeOK, CallsOK, OverlapOK, OpenConversion
<1>2. PICK p \in Periods : p = call[c].source
  BY <1>1 DEF Carried, Creating
<1>3. PICK day \in Day : day = call[c].day
  BY <1>1 DEF CallRecord
<1> DEFINE row == [status |-> "PENDING", source |-> p, planned |-> day]
<1>4. /\ period' = period /\ assignment' = assignment /\ current' = current
      /\ today' = today /\ serverDay' = serverDay /\ misdated' = misdated
      /\ NoOpenConversion(p)
      /\ conversion' = [conversion EXCEPT ![v] = row]
      /\ state[v] = "absent" /\ state' = [state EXCEPT ![v] = "pending"]
      /\ size' = [size EXCEPT ![v] = n] /\ approved' = approved
      /\ Finish(c)
  BY <1>2, <1>3 DEF OpenConversion, Submit, clock
<1>5. /\ row \in ConversionRow /\ row.status = "PENDING" /\ row.source = p
  BY DEF ConversionRow, Open
<1> HIDE DEF row
<1>6. /\ state \in [Applications -> States] /\ size \in [Applications -> 1 .. MaxSteps]
      /\ conversion \in [Applications -> ConversionRow] /\ today \in Int
  BY DEF LifecycleInv, RowsOK, LifecycleTypeOK, Day
<1>7. /\ state' \in [Applications -> States] /\ size' \in [Applications -> 1 .. MaxSteps]
      /\ conversion' \in [Applications -> ConversionRow]
      /\ state'[v] = "pending" /\ conversion'[v] = row
      /\ \A w \in Applications : w # v =>
           state'[w] = state[w] /\ size'[w] = size[w] /\ conversion'[w] = conversion[w]
  BY <1>4, <1>5, <1>6 DEF States
<1>8. Forward
  BY <1>4, <1>6, <1>7 DEF Forward
<1>9. /\ CallsOK' /\ OverlapOK' /\ call' \in [Calls -> CallRecord]
      /\ overlapped => overlapped'
  BY <1>1, <1>4, <1>6, <1>8, FinishKeeps
<1>10. LifecycleTypeOK' /\ RowsOK'
  BY <1>4, <1>7, <1>9 DEF LifecycleInv, LifecycleTypeOK, RowsOK, Exists
<1>11. ConversionFollowsApproval'
  <2>1. ASSUME NEW w \in Applications
        PROVE  /\ <<state'[w], conversion'[w].status>> \in
                    {<<"absent", "ABSENT">>, <<"pending", "PENDING">>,
                     <<"approved", "PENDING_EFFECTIVE">>, <<"rejected", "REJECTED">>,
                     <<"returned", "DRAFT">>, <<"withdrawn", "WITHDRAWN">>,
                     <<"effective", "COMPLETED">>}
               /\ state'[w] = "effective" => approved'[w] = 1 .. size'[w]
               /\ state'[w] # "absent" => conversion'[w].source \in Periods
    <3>1. CASE w = v
      BY <1>5, <1>7, <3>1
    <3>2. CASE w # v
      BY <1>4, <1>7, <3>2 DEF LifecycleInv, ConversionFollowsApproval
    <3> QED BY <3>1, <3>2
  <2> QED BY <2>1 DEF ConversionFollowsApproval
<1>12. OneOpenConversion'
  BY <1>4, <1>5, <1>7 DEF LifecycleInv, OneOpenConversion, NoOpenConversion
<1>13. \A a : Covers(a)' = Covers(a)
  BY <1>4 DEF Covers
<1>14. CurrentDepartment' /\ LatestDepartment' /\ OneDepartmentPerDay'
  BY <1>4, <1>9, <1>13 DEF LifecycleInv, CurrentDepartment, LatestDepartment, OneDepartmentPerDay
<1>15. EndedPeriodIsLeft'
  <2>1. ~overlapped => period[p].exit = None
    BY <1>1, <1>2 DEF Fresh, Creating
  <2>2. \A q : ActiveIn(q)' = ActiveIn(q)
    BY <1>4 DEF ActiveIn
  <2> QED BY <1>4, <1>5, <1>7, <1>9, <2>1, <2>2 DEF LifecycleInv, EndedPeriodIsLeft
<1>16. ChainOfPeriods'
  BY <1>4 DEF LifecycleInv, ChainOfPeriods, Exists
<1>17. EndedByCompletedConversion'
  <2>1. conversion[v].status = "ABSENT"
    BY <1>4 DEF LifecycleInv, ConversionFollowsApproval
  <2> QED BY <1>4, <1>5, <1>7, <2>1 DEF LifecycleInv, EndedByCompletedConversion
<1> QED BY <1>9, <1>10, <1>11, <1>12, <1>14, <1>15, <1>16, <1>17 DEF LifecycleInv

\* The department that was read is, unless calls overlapped, still the active one.  Dates
\* that are written over change neither who is active nor where a period ends.
LEMMA ChangeEmploymentKeeps ==
  ASSUME LifecycleInv, NEW c \in Calls, NEW new \in Assignments \cup {None},
         NEW start \in Corrections \cup {None}, NEW entry \in Corrections \cup {None},
         ChangeEmployment(c, new, start, entry), overlapped' = (overlapped \/ Overlap')
  PROVE  LifecycleInv'
<1>1. /\ call[c] \in CallRecord /\ Carried(call[c]) /\ (~overlapped => Fresh(call[c]))
      /\ call[c].at \in {"update", "import"} /\ Changing(call[c])
  BY DEF LifecycleInv, LifecycleTypeOK, CallsOK, OverlapOK, ChangeEmployment, Changing
<1>2. PICK p \in Periods : p = call[c].source
  BY <1>1 DEF Carried
<1>3. PICK day \in Day : day = call[c].day
  BY <1>1 DEF CallRecord
<1>4. PICK old \in Assignments : old = call[c].assignment
  BY <1>1 DEF Carried
<1> DEFINE row == [status |-> "ACTIVE", period |-> p, start |-> day, end |-> None]
           last == DayBefore(day)
           moved == IF new = None THEN assignment
                    ELSE [assignment EXCEPT ![old].status = "ENDED", ![old].end = last,
                                            ![new] = row]
<1>5. /\ conversion' = conversion /\ current' = current
      /\ today' = today /\ serverDay' = serverDay
      /\ state' = state /\ size' = size /\ approved' = approved
      /\ period' = IF entry = None THEN period ELSE [period EXCEPT ![p].entry = entry]
      /\ new # None => assignment[new].status = "ABSENT"
      /\ assignment[old].status # "ABSENT"
      /\ assignment' = IF start = None THEN moved ELSE [moved EXCEPT ![old].start = start]
      /\ misdated' = \/ misdated
                     \/ start # None
                     \/ entry # None
                     \/ call[c].at = "import" /\ new # None /\ assignment[old].start > day
      /\ Finish(c)
  BY <1>1, <1>2, <1>3, <1>4
     DEF Carried, ChangeEmployment, ChangeDepartment, NextAssignment, clock, approvalVars
<1>6. /\ assignment \in [Assignments -> AssignmentRow] /\ period \in [Periods -> PeriodRow]
      /\ today \in Int /\ serverDay \in Int /\ misdated \in BOOLEAN /\ day \in Int
      /\ \A a \in Assignments : assignment[a].start \in Int
  BY DEF LifecycleInv, LifecycleTypeOK, RowsOK, AssignmentRow, Day
<1>7. last \in Day /\ last \in Int /\ last < day /\ last # None
  BY <1>1, <1>3, LifecycleAssumption DEF Carried, DayBefore, Day
<1>8. /\ row \in AssignmentRow /\ row.status = "ACTIVE" /\ row.period = p
      /\ row.start = day /\ row.end = None
  BY DEF AssignmentRow
<1>9. /\ start # None => start \in Day
      /\ entry # None => entry \in Day
      /\ new # None => new \in Assignments /\ new # old
  BY <1>5, LifecycleAssumption DEF Day
<1> HIDE DEF row, last
<1>10. /\ moved \in [Assignments -> AssignmentRow]
       /\ new # None =>
            /\ moved[new] = row
            /\ moved[old].status = "ENDED" /\ moved[old].end = last
            /\ moved[old].start = assignment[old].start
            /\ moved[old].period = assignment[old].period
            /\ \A a \in Assignments : a # new /\ a # old => moved[a] = assignment[a]
  BY <1>6, <1>7, <1>8, <1>9 DEF AssignmentRow
<1>11. /\ assignment' \in [Assignments -> AssignmentRow]
       /\ assignment'[old].status = moved[old].status /\ assignment'[old].end = moved[old].end
       /\ assignment'[old].period = moved[old].period
       /\ \A a \in Assignments : a # old => assignment'[a] = moved[a]
       /\ start = None => assignment' = moved
  <2> HIDE DEF moved
  <2> QED BY <1>5, <1>9, <1>10 DEF AssignmentRow
<1>12. new = None =>
         \A a \in Assignments : /\ assignment'[a].status = assignment[a].status
                                /\ assignment'[a].end = assignment[a].end
                                /\ assignment'[a].period = assignment[a].period
  BY <1>11
<1>13. new # None =>
         /\ assignment'[new] = row
         /\ assignment'[old].status = "ENDED" /\ assignment'[old].end = last
         /\ assignment'[old].period = assignment[old].period
         /\ \A a \in Assignments : a # new /\ a # old => assignment'[a] = assignment[a]
         /\ start = None => assignment'[old].start = assignment[old].start
  <2> HIDE DEF moved
  <2> QED BY <1>9, <1>10, <1>11
<1>14. start = None /\ new = None => assignment' = assignment
  BY <1>11
<1> HIDE DEF moved
<1>15. /\ period' \in [Periods -> PeriodRow]
       /\ \A q \in Periods : /\ period'[q].relationship = period[q].relationship
                             /\ period'[q].exit = period[q].exit
                             /\ period'[q].employment = period[q].employment
                             /\ period'[q].previous = period[q].previous
       /\ entry = None => period' = period
  BY <1>5, <1>6, <1>9 DEF PeriodRow
<1>16. Forward
  <2>1. ASSUME NEW a \in Assignments, assignment[a].status # "ABSENT"
        PROVE  assignment'[a].status # "ABSENT"
    BY <1>5, <1>12, <1>13, <2>1
  <2> QED BY <1>5, <1>6, <2>1 DEF Forward
<1>17. /\ CallsOK' /\ OverlapOK' /\ call' \in [Calls -> CallRecord]
       /\ overlapped => overlapped'
  BY <1>1, <1>5, <1>6, <1>16, FinishKeeps
<1>18. LifecycleTypeOK'
  BY <1>5, <1>11, <1>15, <1>17 DEF LifecycleInv, LifecycleTypeOK
<1>19. RowsOK'
  <2>1. ASSUME NEW a \in Assignments
        PROVE  assignment'[a].end # None <=> assignment'[a].status = "ENDED"
    BY <1>7, <1>8, <1>12, <1>13 DEF LifecycleInv, RowsOK
  <2>2. /\ Exists(current)'
        /\ \A q \in Periods : ~Exists(q)' => period'[q].exit = None /\ period'[q].previous = None
    BY <1>5, <1>15 DEF LifecycleInv, LifecycleTypeOK, RowsOK, Exists
  <2>3. misdated' \in BOOLEAN
    BY <1>5
  <2> QED BY <1>5, <2>1, <2>2, <2>3 DEF LifecycleInv, RowsOK
<1>20. ConversionFollowsApproval' /\ OneOpenConversion'
  BY <1>5 DEF LifecycleInv, ConversionFollowsApproval, OneOpenConversion
<1>21. ASSUME ~overlapped'
       PROVE  /\ ~overlapped
              /\ assignment[old].status = "ACTIVE" /\ assignment[old].period = p
              /\ p = current /\ day <= serverDay
              /\ \A b \in Assignments \ {old} : assignment[b].status # "ACTIVE"
  <2>1. ~overlapped
    BY <1>17, <1>21
  <2>2. assignment[old].status = "ACTIVE" /\ assignment[old].period = p /\ day <= serverDay
    BY <1>1, <1>2, <1>3, <1>4, <2>1 DEF Fresh
  <2> QED BY <2>1, <2>2 DEF LifecycleInv, CurrentDepartment
<1>22. ASSUME ~overlapped', ~misdated'
       PROVE  /\ ~misdated /\ start = None /\ entry = None
              /\ new # None => assignment[old].start <= day
              /\ \A b \in Assignments \ {old} :
                   assignment[b].status = "ENDED" =>
                     assignment[b].end \in Int /\ assignment[b].end < assignment[old].start
  <2>1. ~misdated /\ start = None /\ entry = None
    BY <1>5, <1>22
  <2>2. new # None => assignment[old].start <= day
    <3>1. CASE call[c].at = "update"
      BY <1>1, <1>3, <1>4, <1>21, <1>22, <2>1, <3>1 DEF Fresh
    <3>2. CASE call[c].at = "import"
      BY <1>5, <1>6, <1>22, <3>2
    <3> QED BY <1>1, <3>1, <3>2
  <2>3. \A b \in Assignments : assignment[b].status = "ENDED" => assignment[b].end \in Int
    BY <1>6 DEF LifecycleInv, RowsOK, AssignmentRow, Day
  <2> QED BY <1>21, <1>22, <2>1, <2>2, <2>3 DEF LifecycleInv, LatestDepartment
<1>23. CurrentDepartment'
  <2>1. ASSUME ~overlapped', NEW a \in Assignments, assignment'[a].status = "ACTIVE"
        PROVE  /\ a = IF new = None THEN old ELSE new
               /\ assignment'[a].period = current'
    <3>1. CASE new = None
      BY <1>5, <1>12, <1>21, <2>1, <3>1
    <3>2. CASE new # None
      BY <1>5, <1>8, <1>13, <1>21, <2>1, <3>2
    <3> QED BY <3>1, <3>2
  <2> QED BY <2>1 DEF CurrentDepartment
<1>24. LatestDepartment'
  <2>1. CASE new = None
    BY <1>5, <1>14, <1>15, <1>21, <1>22, <2>1 DEF LifecycleInv, LatestDepartment
  <2>2. CASE new # None
    <3>1. ASSUME ~overlapped', ~misdated', NEW a \in Assignments, assignment'[a].status = "ACTIVE"
          PROVE  /\ assignment'[a].start <= serverDay'
                 /\ \A b \in Assignments \ {a} :
                      assignment'[b].status = "ENDED" => assignment'[b].end < assignment'[a].start
      <4>1. a = new
        BY <1>13, <1>21, <2>2, <3>1
      <4>2. ASSUME NEW b \in Assignments \ {new}, assignment'[b].status = "ENDED"
            PROVE  assignment'[b].end < day
        <5>1. CASE b = old
          BY <1>7, <1>13, <2>2, <5>1
        <5>2. CASE b # old
          BY <1>6, <1>13, <1>22, <2>2, <3>1, <4>2, <5>2
        <5> QED BY <5>1, <5>2
      <4> QED BY <1>5, <1>8, <1>13, <1>21, <2>2, <3>1, <4>1, <4>2
    <3> QED BY <3>1 DEF LatestDepartment
  <2> QED BY <2>1, <2>2
<1>25. OneDepartmentPerDay'
  <2>1. ASSUME ~overlapped', ~misdated', new # None, NEW a \in Assignments, a # new
        PROVE  /\ Covers(a)' \subseteq Covers(a)
               /\ \A d \in Covers(a)' : d < day
    <3>1. Day \subseteq Int
      BY DEF Day
    <3>2. CASE a = old
      BY <1>6, <1>7, <1>13, <1>21, <1>22, <2>1, <3>1, <3>2 DEF Covers, LifecycleInv, RowsOK
    <3>3. CASE a # old
      <4>1. assignment'[a] = assignment[a] /\ assignment[a].status # "ACTIVE"
        BY <1>13, <1>21, <2>1, <3>3
      <4>2. Covers(a)' = Covers(a)
        BY <4>1 DEF Covers
      <4>3. ASSUME NEW d \in Covers(a)
            PROVE  d < day
        <5>1. assignment[a].status = "ENDED"
          BY <1>6, <4>1, <4>3 DEF Covers, AssignmentRow
        <5>2. assignment[a].end \in Int /\ assignment[a].end < assignment[old].start
          BY <1>22, <2>1, <3>3, <5>1
        <5>3. d \in Int /\ d <= assignment[a].end
          BY <3>1, <5>2, LifecycleAssumption DEF Covers
        <5> QED BY <1>6, <1>22, <2>1, <5>2, <5>3
      <4> QED BY <4>2, <4>3
    <3> QED BY <3>2, <3>3
  <2>2. ASSUME ~overlapped', ~misdated', NEW a \in Assignments, NEW b \in Assignments, a # b
        PROVE  Covers(a)' \cap Covers(b)' = {}
    <3>0. ~overlapped /\ ~misdated /\ Covers(a) \cap Covers(b) = {}
      BY <1>21, <1>22, <2>2 DEF LifecycleInv, OneDepartmentPerDay
    <3>1. CASE new = None
      <4>1. assignment' = assignment
        BY <1>14, <1>22, <2>2, <3>1
      <4> QED BY <3>0, <4>1 DEF Covers
    <3>2. CASE new # None
      <4>1. \A d \in Covers(new)' : d >= day
        BY <1>8, <1>13, <3>2 DEF Covers
      <4>2. ASSUME NEW e \in Assignments, e # new
            PROVE  Covers(e)' \cap Covers(new)' = {}
        <5>1. \A d \in Covers(e)' : d \in Int /\ d < day
          BY <2>1, <2>2, <3>2, <4>2 DEF Covers, Day
        <5> QED BY <1>6, <4>1, <5>1
      <4>3. CASE a # new /\ b # new
        <5>1. Covers(a)' \subseteq Covers(a) /\ Covers(b)' \subseteq Covers(b)
          BY <2>1, <2>2, <3>2, <4>3
        <5> QED BY <3>0, <5>1
      <4> QED BY <2>2, <4>2, <4>3
    <3> QED BY <3>1, <3>2
  <2>3. ASSUME ~overlapped', NEW a \in Assignments, NEW b \in Assignments, a # b
        PROVE  ~(assignment'[a].status = "ACTIVE" /\ assignment'[b].status = "ACTIVE")
    BY <1>23, <2>3 DEF CurrentDepartment
  <2> QED BY <2>2, <2>3 DEF OneDepartmentPerDay
<1>26. EndedPeriodIsLeft'
  <2>1. ASSUME ~overlapped', NEW q \in Periods, period'[q].exit # None
        PROVE  ActiveIn(q)' = {}
    <3>1. period'[current'].exit = None
      BY <1>5, <1>15 DEF LifecycleInv, RowsOK, ChainOfPeriods, LifecycleTypeOK
    <3>2. q # current'
      BY <2>1, <3>1
    <3> QED BY <1>23, <2>1, <3>2 DEF CurrentDepartment, ActiveIn
  <2>2. ASSUME ~overlapped', NEW v \in Applications, conversion'[v].status = "PENDING"
        PROVE  period'[conversion'[v].source].exit = None
    <3>1. conversion[v].source \in Periods /\ period[conversion[v].source].exit = None
      BY <1>5, <1>21, <2>2 DEF LifecycleInv, ConversionFollowsApproval, EndedPeriodIsLeft
    <3> QED BY <1>5, <1>15, <3>1
  <2> QED BY <2>1, <2>2 DEF EndedPeriodIsLeft
<1>27. ChainOfPeriods'
  <2>1. ASSUME NEW q \in Periods, period'[q].previous # None
        PROVE  /\ period'[period'[q].previous].exit # None
               /\ ~misdated' => period'[period'[q].previous].exit = period'[q].entry - 1
               /\ period'[period'[q].previous].employment = "TRANSFERRED_OUT"
    <3>1. PICK r \in Periods : r = period[q].previous
      BY <1>6, <1>15, <2>1 DEF PeriodRow
    <3>2. ~misdated' => ~misdated /\ period' = period
      BY <1>5, <1>6, <1>15
    <3> QED BY <1>15, <2>1, <3>1, <3>2 DEF LifecycleInv, ChainOfPeriods
  <2>2. \A q, r \in Periods :
          period'[q].previous # None /\ period'[q].previous = period'[r].previous => q = r
    BY <1>15 DEF LifecycleInv, ChainOfPeriods
  <2>3. \A q \in Periods :
          period'[q].exit # None => \E r \in Periods : period'[r].previous = q
    BY <1>15 DEF LifecycleInv, ChainOfPeriods
  <2>4. \A q \in Periods : Exists(q)' => (period'[q].exit = None <=> current' = q)
    BY <1>5, <1>15 DEF LifecycleInv, ChainOfPeriods, Exists
  <2> QED BY <2>1, <2>2, <2>3, <2>4 DEF ChainOfPeriods
<1>28. EndedByCompletedConversion'
  <2>1. \A v \in Applications : conversion[v].status = "COMPLETED" => conversion[v].source \in Periods
    BY DEF LifecycleInv, ConversionFollowsApproval
  <2> QED BY <1>5, <1>15, <2>1 DEF LifecycleInv, EndedByCompletedConversion
<1> QED BY <1>17, <1>18, <1>19, <1>20, <1>23, <1>24, <1>25, <1>26, <1>27, <1>28 DEF LifecycleInv

\* The source was the current period, so no other conversion has ended it, and no period
\* continues it.  Its only department, unless calls overlapped, has started before.
LEMMA ActivateKeeps ==
  ASSUME LifecycleInv, NEW c \in Calls, NEW p \in Periods, NEW new \in Assignments,
         Activate(c, p, new), overlapped' = (overlapped \/ Overlap')
  PROVE  LifecycleInv'
<1>1. /\ call[c] \in CallRecord /\ Carried(call[c]) /\ (~overlapped => Fresh(call[c]))
      /\ call[c].at = "activate"
  BY DEF LifecycleInv, LifecycleTypeOK, CallsOK, OverlapOK, Activate
<1>2. PICK v \in Applications : v = call[c].conversion
  BY <1>1 DEF Carried
<1>3. PICK source \in Periods : source = call[c].source
  BY <1>1 DEF Carried
<1>4. PICK day \in Day : day = call[c].day
  BY <1>1 DEF CallRecord
<1> DEFINE last == DayBefore(day)
           next == [relationship |-> "INTERNAL_EMPLOYEE", entry |-> day, exit |-> None,
                    employment |-> "REGULAR", previous |-> source]
           row == [status |-> "ACTIVE", period |-> p, start |-> day, end |-> None]
<1>5. /\ period[source].exit = None /\ period[p].relationship = "ABSENT"
      /\ period' = [period EXCEPT ![source].exit = last,
                                  ![source].employment = "TRANSFERRED_OUT", ![p] = next]
      /\ ActiveIn(source) # {} /\ assignment[new].status = "ABSENT"
      /\ assignment' = [b \in Assignments |->
           IF b \in ActiveIn(source)
           THEN [assignment[b] EXCEPT !.status = "ENDED", !.end = last]
           ELSE IF b = new THEN row ELSE assignment[b]]
      /\ current = source /\ current' = p
      /\ conversion[v].status = "PENDING_EFFECTIVE"
      /\ conversion' = [conversion EXCEPT ![v].status = "COMPLETED"]
      /\ state[v] = "approved" /\ approved[v] = 1 .. size[v]
      /\ state' = [state EXCEPT ![v] = "effective"] /\ size' = size /\ approved' = approved
      /\ today' = today /\ serverDay' = serverDay /\ misdated' = misdated /\ Finish(c)
  BY <1>2, <1>3, <1>4 DEF Activate, ContinuePeriod, NextPeriod, MoveAssignments, NextAssignment,
     MoveCurrentRecord, TakeEffect, clock
<1>6. /\ conversion[v].source = source /\ conversion[v].planned = day
      /\ 1 <= day /\ day <= today
  BY <1>1, <1>2, <1>3, <1>4 DEF Carried
<1>7. /\ period \in [Periods -> PeriodRow] /\ assignment \in [Assignments -> AssignmentRow]
      /\ conversion \in [Applications -> ConversionRow] /\ state \in [Applications -> States]
      /\ today \in Int /\ serverDay \in Int /\ day \in Int
      /\ \A a \in Assignments : assignment[a].start \in Int
      /\ \A q \in Periods : period[q].entry \in Int
  BY DEF LifecycleInv, LifecycleTypeOK, RowsOK, PeriodRow, AssignmentRow, Day
<1>8. last \in Day /\ last \in Int /\ last = day - 1 /\ last # None
  BY <1>6, LifecycleAssumption DEF DayBefore, Day
<1>9. /\ next \in PeriodRow /\ next.relationship = "INTERNAL_EMPLOYEE" /\ next.entry = day
      /\ next.exit = None /\ next.previous = source
      /\ row \in AssignmentRow /\ row.status = "ACTIVE" /\ row.period = p
      /\ row.start = day /\ row.end = None
  BY DEF PeriodRow, AssignmentRow
<1> HIDE DEF last, next, row
<1>10. source # p /\ Exists(source)
  BY <1>5 DEF LifecycleInv, RowsOK, Exists
<1>11. /\ period' \in [Periods -> PeriodRow] /\ period'[p] = next
       /\ period'[source].exit = last /\ period'[source].employment = "TRANSFERRED_OUT"
       /\ period'[source].relationship = period[source].relationship
       /\ period'[source].entry = period[source].entry
       /\ period'[source].previous = period[source].previous
       /\ \A q \in Periods : q # p /\ q # source => period'[q] = period[q]
  <2> DEFINE ended == [period[source] EXCEPT !.exit = last, !.employment = "TRANSFERRED_OUT"]
  <2>1. /\ ended \in PeriodRow /\ ended.exit = last /\ ended.employment = "TRANSFERRED_OUT"
        /\ ended.relationship = period[source].relationship
        /\ ended.entry = period[source].entry /\ ended.previous = period[source].previous
    BY <1>7, <1>8 DEF PeriodRow
  <2>2. period' = [period EXCEPT ![source] = ended, ![p] = next]
    BY <1>5, <1>7, <1>10
  <2> HIDE DEF ended
  <2> QED BY <1>7, <1>9, <1>10, <2>1, <2>2
<1>12. new \notin ActiveIn(source) /\ ActiveIn(source) \subseteq Assignments
  BY <1>5 DEF ActiveIn
<1>13. /\ assignment' \in [Assignments -> AssignmentRow] /\ assignment'[new] = row
       /\ \A a \in ActiveIn(source) :
            /\ assignment'[a].status = "ENDED" /\ assignment'[a].end = last
            /\ assignment'[a].start = assignment[a].start
            /\ assignment'[a].period = assignment[a].period
       /\ \A a \in Assignments : a # new /\ a \notin ActiveIn(source) =>
            assignment'[a] = assignment[a]
  <2>1. \A a \in Assignments :
          [assignment[a] EXCEPT !.status = "ENDED", !.end = last] \in AssignmentRow
    BY <1>7, <1>8 DEF AssignmentRow
  <2>2. assignment' \in [Assignments -> AssignmentRow]
    BY <1>5, <1>7, <1>9, <2>1
  <2>3. \A a \in ActiveIn(source) :
          assignment'[a] = [assignment[a] EXCEPT !.status = "ENDED", !.end = last]
    BY <1>5, <1>12
  <2>4. \A a \in ActiveIn(source) : assignment[a] \in AssignmentRow
    BY <1>7, <1>12
  <2>5. \A a \in ActiveIn(source) :
            /\ assignment'[a].status = "ENDED" /\ assignment'[a].end = last
            /\ assignment'[a].start = assignment[a].start
            /\ assignment'[a].period = assignment[a].period
    BY <2>3, <2>4 DEF AssignmentRow
  <2> QED BY <1>5, <1>12, <2>2, <2>5
<1>14. /\ conversion' \in [Applications -> ConversionRow] /\ state' \in [Applications -> States]
       /\ conversion'[v].status = "COMPLETED" /\ state'[v] = "effective"
       /\ \A w \in Applications :
            /\ w # v => conversion'[w] = conversion[w] /\ state'[w] = state[w]
            /\ conversion'[w].source = conversion[w].source
            /\ conversion'[w].planned = conversion[w].planned
  BY <1>5, <1>7 DEF ConversionRow, States
<1>15. Forward
  <2>1. \A a \in Assignments : assignment[a].status # "ABSENT" => assignment'[a].status # "ABSENT"
    BY <1>5, <1>13
  <2>2. \A w \in Applications : state[w] # "absent" => state'[w] # "absent"
    BY <1>14
  <2>3. today <= today'
    <3>1. today' = today /\ today \in Int
      BY <1>5, <1>7
    <3> QED BY <3>1
  <2> QED BY <1>14, <2>1, <2>2, <2>3 DEF Forward
<1>16. /\ CallsOK' /\ OverlapOK' /\ call' \in [Calls -> CallRecord]
       /\ overlapped => overlapped'
  BY <1>1, <1>5, <1>7, <1>15, FinishKeeps
<1>17. LifecycleTypeOK'
  BY <1>5, <1>11, <1>13, <1>14, <1>16 DEF LifecycleInv, LifecycleTypeOK
<1>18. RowsOK'
  <2>1. \A q \in Periods : ~Exists(q)' => period'[q].exit = None /\ period'[q].previous = None
    BY <1>9, <1>10, <1>11 DEF LifecycleInv, RowsOK, Exists
  <2>2. Exists(current)'
    BY <1>5, <1>9, <1>11 DEF Exists
  <2>3. \A a \in Assignments : assignment'[a].end # None <=> assignment'[a].status = "ENDED"
    <3>1. ASSUME NEW a \in Assignments
          PROVE  assignment'[a].end # None <=> assignment'[a].status = "ENDED"
      <4>1. CASE a \in ActiveIn(source)
        BY <1>8, <1>13, <4>1
      <4>2. CASE a = new
        BY <1>9, <1>13, <4>2
      <4>3. CASE a \notin ActiveIn(source) /\ a # new
        BY <1>13, <4>3 DEF LifecycleInv, RowsOK
      <4> QED BY <4>1, <4>2, <4>3
    <3> QED BY <3>1
  <2> QED BY <1>5, <1>14, <2>1, <2>2, <2>3 DEF LifecycleInv, RowsOK
<1>19. ConversionFollowsApproval'
  <2>1. ASSUME NEW w \in Applications
        PROVE  /\ <<state'[w], conversion'[w].status>> \in
                    {<<"absent", "ABSENT">>, <<"pending", "PENDING">>,
                     <<"approved", "PENDING_EFFECTIVE">>, <<"rejected", "REJECTED">>,
                     <<"returned", "DRAFT">>, <<"withdrawn", "WITHDRAWN">>,
                     <<"effective", "COMPLETED">>}
               /\ state'[w] = "effective" => approved'[w] = 1 .. size'[w]
               /\ state'[w] # "absent" => conversion'[w].source \in Periods
    <3>1. CASE w = v
      BY <1>5, <1>6, <1>14, <3>1
    <3>2. CASE w # v
      BY <1>5, <1>14, <3>2 DEF LifecycleInv, ConversionFollowsApproval
    <3> QED BY <3>1, <3>2
  <2> QED BY <2>1 DEF ConversionFollowsApproval
<1>20. OneOpenConversion'
  BY <1>14 DEF LifecycleInv, OneOpenConversion, Open
<1>21. ASSUME ~overlapped', NEW a \in Assignments, a # new
       PROVE  /\ assignment'[a].status # "ACTIVE"
              /\ ~misdated /\ assignment'[a].status = "ENDED" =>
                   assignment'[a].end \in Int /\ assignment'[a].end < day
              /\ Covers(a)' \subseteq Covers(a)
  <2>0. ~overlapped
    BY <1>16, <1>21
  <2>1. \A b \in ActiveIn(source) : assignment[b].start < day
    BY <1>1, <1>3, <1>4, <2>0 DEF Fresh
  <2>2. CASE a \in ActiveIn(source)
    <3>1. assignment'[a].status = "ENDED" /\ assignment'[a].end = last
      BY <1>13, <2>2
    <3>2. assignment[a].end = None /\ assignment[a].status # "ABSENT"
      BY <2>2 DEF ActiveIn, LifecycleInv, RowsOK
    <3>3. Covers(a)' \subseteq Covers(a)
      BY <1>13, <2>2, <3>2 DEF Covers
    <3> QED BY <1>7, <1>8, <3>1, <3>3
  <2>3. CASE a \notin ActiveIn(source)
    <3>1. assignment'[a] = assignment[a]
      BY <1>13, <1>21, <2>3
    <3>2. assignment[a].status # "ACTIVE"
      BY <1>5, <1>21, <2>0, <2>3 DEF ActiveIn, LifecycleInv, CurrentDepartment
    <3>3. PICK b \in Assignments : b \in ActiveIn(source)
      BY <1>5, <1>12
    <3>4. ~misdated /\ assignment[a].status = "ENDED" => assignment[a].end < assignment[b].start
      BY <2>0, <2>3, <3>3 DEF ActiveIn, LifecycleInv, LatestDepartment
    <3>5. assignment[a].status = "ENDED" => assignment[a].end \in Int
      BY <1>7 DEF LifecycleInv, RowsOK, AssignmentRow, Day
    <3>6. Covers(a)' = Covers(a)
      BY <3>1 DEF Covers
    <3> QED BY <1>7, <2>1, <3>1, <3>2, <3>3, <3>4, <3>5, <3>6
  <2> QED BY <2>2, <2>3
<1>22. CurrentDepartment' /\ LatestDepartment'
  <2>1. ASSUME ~overlapped', NEW a \in Assignments, assignment'[a].status = "ACTIVE"
        PROVE  /\ assignment'[a].period = current'
               /\ assignment'[a].start = period'[current'].entry
               /\ \A b \in Assignments \ {a} :
                    /\ assignment'[b].status # "ACTIVE"
                    /\ ~misdated /\ assignment'[b].status = "ENDED" =>
                         assignment'[b].end < assignment'[a].start
    <3>1. a = new
      BY <1>21, <2>1
    <3>2. assignment'[a] = row /\ period'[current'] = next
      BY <1>5, <1>11, <1>13, <3>1
    <3>3. ASSUME NEW b \in Assignments \ {a}
          PROVE  /\ assignment'[b].status # "ACTIVE"
                 /\ ~misdated /\ assignment'[b].status = "ENDED" => assignment'[b].end < day
      BY <1>21, <2>1, <3>1
    <3> QED BY <1>5, <1>9, <3>2, <3>3
  <2> QED BY <1>5, <2>1 DEF CurrentDepartment, LatestDepartment
<1>23. OneDepartmentPerDay'
  <2>1. \A d \in Covers(new)' : d >= day
    BY <1>9, <1>13 DEF Covers
  <2>2. ASSUME ~overlapped', ~misdated, NEW a \in Assignments, a # new
        PROVE  Covers(a)' \cap Covers(new)' = {}
    <3>1. ASSUME NEW d \in Covers(a)'
          PROVE  d \in Int /\ d < day
      <4>1. d \in Int
        BY <3>1 DEF Covers, Day
      <4>2. assignment'[a].status = "ENDED" /\ assignment'[a].end \in Int /\ assignment'[a].end < day
        BY <1>13, <1>21, <2>2, <3>1 DEF Covers, AssignmentRow
      <4>3. d <= assignment'[a].end
        BY <3>1, <4>2, LifecycleAssumption DEF Covers
      <4> QED BY <1>7, <4>1, <4>2, <4>3
    <3> QED BY <1>7, <2>1, <3>1
  <2>3. ASSUME ~overlapped', ~misdated, NEW a \in Assignments, NEW b \in Assignments, a # b
        PROVE  Covers(a)' \cap Covers(b)' = {}
    <3>1. CASE a # new /\ b # new
      <4>1. Covers(a)' \subseteq Covers(a) /\ Covers(b)' \subseteq Covers(b)
        BY <1>21, <2>3, <3>1
      <4>2. Covers(a) \cap Covers(b) = {}
        BY <1>16, <2>3 DEF LifecycleInv, OneDepartmentPerDay
      <4> QED BY <4>1, <4>2
    <3> QED BY <2>2, <2>3, <3>1
  <2>4. ASSUME ~overlapped', NEW a \in Assignments, NEW b \in Assignments, a # b
        PROVE  ~(assignment'[a].status = "ACTIVE" /\ assignment'[b].status = "ACTIVE")
    BY <1>21, <2>4
  <2> QED BY <1>5, <2>3, <2>4 DEF OneDepartmentPerDay
<1>24. EndedPeriodIsLeft'
  <2>1. ASSUME ~overlapped', NEW q \in Periods, period'[q].exit # None
        PROVE  ActiveIn(q)' = {}
    <3>1. q # p
      BY <1>9, <1>11, <2>1
    <3> QED BY <1>5, <1>22, <2>1, <3>1 DEF CurrentDepartment, ActiveIn
  <2>2. ASSUME ~overlapped', NEW w \in Applications, conversion'[w].status = "PENDING"
        PROVE  period'[conversion'[w].source].exit = None
    <3>1. w # v /\ conversion[w].status = "PENDING"
      BY <1>14, <2>2
    <3>2. conversion[w].source # source
      BY <1>5, <1>6, <3>1 DEF LifecycleInv, OneOpenConversion, Open
    <3>3. conversion[w].source \in Periods /\ period[conversion[w].source].exit = None
      BY <1>16, <2>2, <3>1 DEF LifecycleInv, ConversionFollowsApproval, EndedPeriodIsLeft
    <3> QED BY <1>9, <1>11, <1>14, <3>2, <3>3
  <2> QED BY <2>1, <2>2 DEF EndedPeriodIsLeft
<1>25. ChainOfPeriods'
  <2>0. /\ period[p].exit = None /\ period[p].previous = None
        /\ \A q \in Periods : period[q].previous # None =>
             period[q].previous \in Periods /\ period[period[q].previous].exit # None
    <3>1. ASSUME NEW q \in Periods, period[q].previous # None
          PROVE  period[q].previous \in Periods /\ period[period[q].previous].exit # None
      BY <1>7, <3>1 DEF PeriodRow, LifecycleInv, ChainOfPeriods
    <3> QED BY <1>5, <3>1 DEF LifecycleInv, RowsOK, Exists
  <2>2. source # None /\ p # None
    BY LifecycleAssumption DEF Periods
  <2>1. ASSUME NEW q \in Periods
        PROVE  /\ period[q].previous # p /\ period[q].previous # source
               /\ q # p => /\ period'[q].previous = period[q].previous
                           /\ period'[q].entry = period[q].entry
    <3>1. period[q].previous # p /\ period[q].previous # source
      BY <1>5, <2>0, <2>2
    <3>2. q # p => /\ period'[q].previous = period[q].previous
                   /\ period'[q].entry = period[q].entry
      BY <1>11
    <3> QED BY <3>1, <3>2
  <2>3. \A q, r \in Periods :
          period'[q].previous # None /\ period'[q].previous = period'[r].previous => q = r
    BY <1>9, <1>11, <2>1 DEF LifecycleInv, ChainOfPeriods
  <2>4. ASSUME NEW q \in Periods, period'[q].previous # None
        PROVE  /\ period'[period'[q].previous].exit # None
               /\ ~misdated => period'[period'[q].previous].exit = period'[q].entry - 1
               /\ period'[period'[q].previous].employment = "TRANSFERRED_OUT"
    <3>1. CASE q = p
      BY <1>8, <1>9, <1>11, <3>1
    <3>2. CASE q # p
      <4>1. PICK r \in Periods : r = period[q].previous /\ r # p /\ r # source
        BY <2>0, <2>1, <2>4, <3>2
      <4>2. /\ period[r].exit # None
            /\ ~misdated => period[r].exit = period[q].entry - 1
            /\ period[r].employment = "TRANSFERRED_OUT"
        BY <2>1, <2>4, <3>2, <4>1 DEF LifecycleInv, ChainOfPeriods
      <4> QED BY <1>11, <2>1, <3>2, <4>1, <4>2
    <3> QED BY <3>1, <3>2
  <2>5. ASSUME NEW q \in Periods, period'[q].exit # None
        PROVE  \E r \in Periods : period'[r].previous = q
    <3>1. CASE q = source
      BY <1>9, <1>11, <3>1
    <3>2. CASE q # source
      <4>1. q # p /\ period[q].exit # None
        BY <1>9, <1>11, <2>5, <3>2
      <4>2. PICK r \in Periods : period[r].previous = q
        BY <4>1 DEF LifecycleInv, ChainOfPeriods
      <4>3. r # p
        BY <2>0, <4>2, LifecycleAssumption DEF Periods
      <4> QED BY <2>1, <4>2, <4>3
    <3> QED BY <3>1, <3>2
  <2>6. ASSUME NEW q \in Periods, Exists(q)'
        PROVE  period'[q].exit = None <=> current' = q
    <3>1. CASE q = p
      BY <1>5, <1>9, <1>11, <3>1
    <3>2. CASE q = source
      BY <1>5, <1>8, <1>10, <1>11, <3>2
    <3>3. CASE q # p /\ q # source
      BY <1>5, <1>11, <2>6, <3>3 DEF LifecycleInv, ChainOfPeriods, Exists
    <3> QED BY <3>1, <3>2, <3>3
  <2> QED BY <1>5, <2>3, <2>4, <2>5, <2>6 DEF ChainOfPeriods
<1>26. EndedByCompletedConversion'
  <2>1. ASSUME NEW q \in Periods, period'[q].exit # None
        PROVE  \E w \in Applications :
                 /\ conversion'[w].status = "COMPLETED"
                 /\ conversion'[w].source = q
                 /\ conversion'[w].planned = period'[q].exit + 1
    <3>1. CASE q = source
      BY <1>6, <1>7, <1>8, <1>11, <1>14, <3>1
    <3>2. CASE q # source
      <4>1. period'[q] = period[q]
        BY <1>9, <1>11, <2>1, <3>2
      <4> QED BY <1>14, <2>1, <4>1 DEF LifecycleInv, EndedByCompletedConversion
    <3> QED BY <3>1, <3>2
  <2>2. ASSUME NEW w \in Applications, conversion'[w].status = "COMPLETED"
        PROVE  /\ period'[conversion'[w].source].exit = conversion'[w].planned - 1
               /\ conversion'[w].planned <= today'
               /\ approved'[w] = 1 .. size'[w]
    <3>1. CASE w = v
      BY <1>5, <1>6, <1>8, <1>11, <1>14, <3>1
    <3>2. CASE w # v
      <4>1. /\ conversion'[w] = conversion[w] /\ conversion[w].status = "COMPLETED"
        BY <1>14, <2>2, <3>2
      <4>2. /\ conversion[w].source \in Periods
            /\ period[conversion[w].source].exit = conversion[w].planned - 1
            /\ conversion[w].planned <= today /\ approved[w] = 1 .. size[w]
        BY <4>1 DEF LifecycleInv, EndedByCompletedConversion, ConversionFollowsApproval
      <4>3. conversion[w].planned \in Int
        BY <1>7 DEF ConversionRow, Day
      <4>4. period[conversion[w].source].exit # None
        BY <4>2, <4>3, LifecycleAssumption
      <4>5. conversion[w].source # source /\ conversion[w].source # p
        BY <1>5, <4>4 DEF LifecycleInv, RowsOK, Exists
      <4> QED BY <1>5, <1>11, <4>1, <4>2, <4>5
    <3> QED BY <3>1, <3>2
  <2> QED BY <2>1, <2>2 DEF EndedByCompletedConversion
<1> QED BY <1>16, <1>17, <1>18, <1>19, <1>20, <1>22, <1>23, <1>24, <1>25, <1>26 DEF LifecycleInv

LEMMA RollBackKeeps ==
  ASSUME LifecycleInv, NEW c \in Calls, RollBack(c), overlapped' = (overlapped \/ Overlap')
  PROVE  LifecycleInv'
<1>1. /\ call[c].at # "idle" /\ Finish(c) /\ UNCHANGED <<rows, clock, approvalVars, misdated>>
  BY DEF RollBack
<1>2. conversion' = conversion /\ state' = state /\ assignment' = assignment /\ today' = today
  BY <1>1 DEF rows, clock, approvalVars
<1>3. today \in Int
  BY DEF LifecycleInv, LifecycleTypeOK, Day
<1>4. Forward
  BY <1>2, <1>3 DEF Forward
<1>5. CallsOK' /\ OverlapOK' /\ call' \in [Calls -> CallRecord] /\ (overlapped => overlapped')
  BY <1>1, <1>2, <1>3, <1>4, FinishKeeps
<1> QED BY <1>1, <1>5, RowsKeep DEF LifecycleInv

-----------------------------------------------------------------------------
(***************************************************************************)
(* The theorems.                                                           *)
(***************************************************************************)
LEMMA NextKeeps ==
  ASSUME LifecycleInv, [Next]_vars
  PROVE  LifecycleInv'
<1>1. ASSUME NEW c \in Calls, CallStep(c), overlapped' = (overlapped \/ Overlap')
      PROVE  LifecycleInv'
  <2>1. ASSUME NEW a \in Assignments, LoadAssignment(c, a) \/ LoadImported(c, a)
        PROVE  LifecycleInv'
    <3>1. CASE LoadAssignment(c, a)
      <4> DEFINE begun == {b \in Assignments : /\ assignment[b].status = "ACTIVE"
                                               /\ period[assignment[b].period].entry <= serverDay}
      <4>1. Reads(c, "update", a, begun) /\ a \in begun
        BY <3>1 DEF LoadAssignment, Reads
      <4>2. assignment[a].status = "ACTIVE" /\ period[assignment[a].period].entry <= serverDay
        BY <4>1
      <4> HIDE DEF begun
      <4> QED BY <1>1, <4>1, <4>2, ReadsKeeps
    <3>2. CASE LoadImported(c, a)
      <4> DEFINE active == {b \in Assignments : assignment[b].status = "ACTIVE"}
      <4>1. Reads(c, "import", a, active) /\ a \in active
        BY <3>2 DEF LoadImported, Reads
      <4>2. assignment[a].status = "ACTIVE"
        BY <4>1
      <4> HIDE DEF active
      <4> QED BY <1>1, <4>1, <4>2, ReadsKeeps
    <3> QED BY <2>1, <3>1, <3>2
  <2> QED BY <1>1, <2>1, LoadSourceKeeps, CheckDuplicateKeeps, OpenConversionKeeps,
             LoadConversionKeeps, ActivateKeeps, ChangeEmploymentKeeps, RollBackKeeps DEF CallStep
<1>2. CASE UNCHANGED vars
  <2>1. /\ UNCHANGED <<rows, clock, approvalVars, misdated>> /\ call' = call /\ overlapped' = overlapped
        /\ period' = period /\ assignment' = assignment
        /\ conversion' = conversion /\ today' = today /\ serverDay' = serverDay
        /\ state' = state /\ misdated' = misdated
    BY <1>2 DEF vars, rows, clock, approvalVars
  <2>2. call' \in [Calls -> CallRecord]
    BY <2>1 DEF LifecycleInv, LifecycleTypeOK
  <2>3. CallsOK' /\ OverlapOK'
    BY <2>1 DEF LifecycleInv, CallsOK, OverlapOK, Overlap, Carried, Fresh, Creating, Changing, ActiveIn
  <2> QED BY <2>1, <2>2, <2>3, RowsKeep DEF LifecycleInv
<1> QED BY <1>1, <1>2, ClockKeeps, DecideApprovalKeeps DEF Next

LEMMA InitHolds ==
  ASSUME Init
  PROVE  LifecycleInv
<1>1. /\ state = [v \in Applications |-> "absent"] /\ size = [v \in Applications |-> 1]
      /\ approved = [v \in Applications |-> {}]
      /\ current = 1 /\ conversion = [v \in Applications |-> NoConversion]
      /\ call = [c \in Calls |-> Idle] /\ today = 2 /\ serverDay \in {1, 2} /\ overlapped = FALSE
      /\ misdated = FALSE
  BY DEF Init, AbsInit
<1>2. /\ 1 \in Periods /\ 1 \in Assignments /\ 0 \in Day /\ 2 \in Day /\ 1 \in 1 .. MaxSteps
      /\ None \notin Int
  BY LifecycleAssumption DEF Periods, Assignments, Day
<1>3. NoPeriod \in PeriodRow /\ NoPeriod.relationship = "ABSENT"
      /\ NoPeriod.exit = None /\ NoPeriod.previous = None
  BY <1>2 DEF NoPeriod, PeriodRow
<1>4. NoAssignment \in AssignmentRow /\ NoAssignment.status = "ABSENT" /\ NoAssignment.end = None
      /\ NoAssignment.period = 1 /\ NoAssignment.start = 0
  BY <1>2 DEF NoAssignment, AssignmentRow
<1>5. NoConversion \in ConversionRow /\ NoConversion.status = "ABSENT"
  BY <1>2 DEF NoConversion, ConversionRow
<1>6. /\ period \in [Periods -> PeriodRow]
      /\ \A p \in Periods : /\ period[p].exit = None /\ period[p].previous = None
                            /\ period[p].relationship # "ABSENT" <=> p = 1
      /\ period[1].entry = 0
  <2>1. period = [p \in Periods |->
          IF p = 1 THEN [NoPeriod EXCEPT !.relationship = "INTERN", !.employment = "INTERNSHIP"]
          ELSE NoPeriod]
    BY DEF Init
  <2>2. NoPeriod.entry = 0
    BY DEF NoPeriod
  <2> QED BY <1>2, <1>3, <2>1, <2>2 DEF PeriodRow
<1>7. /\ assignment \in [Assignments -> AssignmentRow]
      /\ \A a \in Assignments : /\ assignment[a].status = IF a = 1 THEN "ACTIVE" ELSE "ABSENT"
                                /\ assignment[a].end = None /\ assignment[a].start = 0
                                /\ assignment[a].period = 1
  <2>1. assignment = [a \in Assignments |->
          IF a = 1 THEN [NoAssignment EXCEPT !.status = "ACTIVE"] ELSE NoAssignment]
    BY DEF Init
  <2> QED BY <1>2, <1>4, <2>1 DEF AssignmentRow
<1>8. call \in [Calls -> CallRecord] /\ \A c \in Calls : call[c].at = "idle"
  BY <1>1, IdleType
<1>9. LifecycleTypeOK
  BY <1>1, <1>2, <1>5, <1>6, <1>7, <1>8 DEF LifecycleTypeOK
<1>10. RowsOK
  <2>1. misdated \in BOOLEAN
    BY <1>1
  <2>2. /\ state \in [Applications -> States] /\ size \in [Applications -> 1 .. MaxSteps]
        /\ approved \in [Applications -> SUBSET Nat] /\ 1 <= serverDay
    BY <1>1, <1>2 DEF States
  <2>3. /\ Exists(current)
        /\ \A p \in Periods : ~Exists(p) => period[p].exit = None /\ period[p].previous = None
        /\ \A a \in Assignments : assignment[a].end # None <=> assignment[a].status = "ENDED"
    BY <1>1, <1>2, <1>6, <1>7 DEF Exists
  <2> QED BY <2>1, <2>2, <2>3 DEF RowsOK
<1>11. CallsOK /\ OverlapOK
  BY <1>1, <1>8, IdleCarriesNothing DEF CallsOK, OverlapOK, Overlap
<1>12. ConversionFollowsApproval /\ OneOpenConversion
  BY <1>1, <1>5 DEF ConversionFollowsApproval, OneOpenConversion, Open
<1>13. CurrentDepartment /\ LatestDepartment
  BY <1>1, <1>6, <1>7 DEF CurrentDepartment, LatestDepartment
<1>14. OneDepartmentPerDay
  BY <1>7 DEF OneDepartmentPerDay, Covers
<1>15. EndedPeriodIsLeft /\ ChainOfPeriods /\ EndedByCompletedConversion
  BY <1>1, <1>5, <1>6 DEF EndedPeriodIsLeft, ChainOfPeriods, EndedByCompletedConversion, Exists
<1> QED BY <1>9, <1>10, <1>11, <1>12, <1>13, <1>14, <1>15 DEF LifecycleInv

\* Every reachable state satisfies the inductive invariant, whatever calls race.
THEOREM LifecycleInvariance == Spec => []LifecycleInv
<1>1. Init => LifecycleInv
  BY InitHolds
<1>2. LifecycleInv /\ [Next]_vars => LifecycleInv'
  BY NextKeeps
<1> QED BY <1>1, <1>2, PTL DEF Spec

\* Every variable of the employment lifecycle keeps its shape.
THEOREM LifecycleTyped == Spec => []LifecycleTypeOK
<1>1. LifecycleInv => LifecycleTypeOK
  BY DEF LifecycleInv
<1> QED BY <1>1, LifecycleInvariance, PTL

\* The periods of an employee form a chain, without gap or overlap as long as no date is
\* written over, whatever activations, changes of department and imports race.
THEOREM PeriodsFormChain == Spec => []ChainOfPeriods
<1>1. LifecycleInv => ChainOfPeriods
  BY DEF LifecycleInv
<1> QED BY <1>1, LifecycleInvariance, PTL

\* Only a completed conversion, unanimously approved and due, ends a period, and it does.
THEOREM ConversionsEndPeriods == Spec => []EndedByCompletedConversion
<1>1. LifecycleInv => EndedByCompletedConversion
  BY DEF LifecycleInv
<1> QED BY <1>1, LifecycleInvariance, PTL

\* Unless calls overlap or dates are written over, activations and changes of department
\* never leave two departments on a day, although they count days by different clocks.
THEOREM DaysHaveOneDepartment == Spec => []OneDepartmentPerDay
<1>1. LifecycleInv => OneDepartmentPerDay
  BY DEF LifecycleInv
<1> QED BY <1>1, LifecycleInvariance, PTL

\* Unless calls overlap, an ended period keeps no department and no application.
THEOREM EndedPeriodsAreLeft == Spec => []EndedPeriodIsLeft
<1>1. LifecycleInv => EndedPeriodIsLeft
  BY DEF LifecycleInv
<1> QED BY <1>1, LifecycleInvariance, PTL

=============================================================================
