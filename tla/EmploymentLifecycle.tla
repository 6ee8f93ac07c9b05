------------------------- MODULE EmploymentLifecycle -------------------------
(***************************************************************************)
(* Employment periods, department assignments and conversions of one       *)
(* employee: conversions from internship or labour service to regular      *)
(* employment (backend/src/employment-conversions/employment-conversions   *)
(* .service) next to changes of department and of dates from the personnel *)
(* page and from imported files (backend/src/employees/employees.service,  *)
(* update and import).  Employees share no row, so one is modelled.        *)
(*                                                                         *)
(* Approval enters as SerialApproval, which the runtime implements; a      *)
(* conversion and its approval request are created together and share a    *)
(* name.  A call first reads, in one or two steps, and then commits one    *)
(* READ COMMITTED transaction.  Whatever the transaction does not check    *)
(* again it takes from its reads.                                          *)
(***************************************************************************)
EXTENDS Integers, SerialApproval

CONSTANTS
  MaxPeriods,      \* bound: employment periods of the employee
  MaxAssignments,  \* bound: department assignments of the employee
  MaxDay,          \* bound: the last day of the calendar
  Corrections,     \* bound: the days that dates are corrected to
  Calls,           \* API calls that may be in flight at the same time
  None             \* the SQL NULL

ASSUME LifecycleAssumption ==
  /\ MaxPeriods \in Nat \ {0}
  /\ MaxAssignments \in Nat \ {0}
  /\ MaxDay \in Nat \ {0, 1}
  /\ Corrections \subseteq 0 .. MaxDay
  /\ MaxSteps \in Nat \ {0}
  /\ None \notin Int \cup Applications

Periods == 1 .. MaxPeriods          \* a period is named by its sequenceNo
Assignments == 1 .. MaxAssignments
Day == 0 .. MaxDay

\* OPEN_CONVERSION_STATUSES, which the partial unique index repeats; APPROVED,
\* the fourth, is never written.
Open == {"DRAFT", "PENDING", "PENDING_EFFECTIVE"}

PeriodRow ==
  [relationship : {"ABSENT", "INTERN", "INTERNAL_EMPLOYEE"}, entry : Day,
   exit : Day \cup {None}, employment : {"INTERNSHIP", "REGULAR", "TRANSFERRED_OUT"},
   previous : Periods \cup {None}]
AssignmentRow ==
  [status : {"ABSENT", "ACTIVE", "ENDED"}, period : Periods,
   start : Day, end : Day \cup {None}]
ConversionRow ==
  [status : Open \cup {"ABSENT", "REJECTED", "WITHDRAWN", "COMPLETED"},
   source : Periods \cup {None}, planned : Day]
CallRecord ==
  [at : {"idle", "create", "open", "activate", "update", "import"},
   conversion : Applications \cup {None}, source : Periods \cup {None},
   assignment : Assignments \cup {None}, day : Day]

VARIABLES
  period,      \* period[p]: the EmploymentPeriod row, status ACTIVE throughout
  assignment,  \* assignment[a]: the EmployeeAssignment row, primary throughout
  current,     \* the period of the EmploymentRecord with currentFlag
  conversion,  \* conversion[v]: the EmploymentConversion row
  call,        \* call[c]: what the call in flight has read
  today,       \* shanghaiBusinessDate
  serverDay,   \* utcCalendarDay: the day of the server's own clock
  \* What the properties ask of the past:
  overlapped,  \* two calls have been in flight at the same time
  misdated     \* dates were written over, or an import left a department before it began

approvalVars == <<state, size, approved>>
rows == <<period, assignment, current, conversion>>
clock == <<today, serverDay>>
vars ==
  <<period, assignment, current, conversion, call, today, serverDay, overlapped,
    misdated, state, size, approved>>

NoPeriod ==
  [relationship |-> "ABSENT", entry |-> 0, exit |-> None, employment |-> "REGULAR",
   previous |-> None]
NoAssignment == [status |-> "ABSENT", period |-> 1, start |-> 0, end |-> None]
NoConversion == [status |-> "ABSENT", source |-> None, planned |-> 0]
InFlight(at, v, p, a, day) ==
  [at |-> at, conversion |-> v, source |-> p, assignment |-> a, day |-> day]
Idle == InFlight("idle", None, None, None, 0)

\* An intern in the first period, with one department and one current record.
Init ==
  /\ AbsInit
  /\ period = [p \in Periods |->
       IF p = 1 THEN [NoPeriod EXCEPT !.relationship = "INTERN", !.employment = "INTERNSHIP"]
       ELSE NoPeriod]
  /\ assignment = [a \in Assignments |->
       IF a = 1 THEN [NoAssignment EXCEPT !.status = "ACTIVE"] ELSE NoAssignment]
  /\ current = 1
  /\ conversion = [v \in Applications |-> NoConversion]
  /\ call = [c \in Calls |-> Idle]
  /\ today = 2
  /\ serverDay \in {1, 2}
  /\ overlapped = FALSE
  /\ misdated = FALSE

-----------------------------------------------------------------------------
ActiveIn(p) == {a \in Assignments : assignment[a].status = "ACTIVE" /\ assignment[a].period = p}

NoOpenConversion(p) ==
  \A v \in Applications : ~(conversion[v].status \in Open /\ conversion[v].source = p)

\* New rows take the next free name; sequenceNo is the latest plus one.
NextPeriod(p) ==
  /\ p \in Periods
  /\ period[p].relationship = "ABSENT"
  /\ \A q \in Periods : q < p => period[q].relationship # "ABSENT"

NextAssignment(a) ==
  /\ assignment[a].status = "ABSENT"
  /\ \A b \in Assignments : b < a => assignment[b].status # "ABSENT"

Finish(c) == call' = [call EXCEPT ![c] = Idle]

(***************************************************************************)
(* create: the source period with its active assignments, and the open     *)
(* conversions, are read before the transaction starts.                    *)
(***************************************************************************)
LoadSource(c, p, planned) ==
  /\ call[c].at = "idle"
  /\ planned >= today
  /\ period[p].relationship = "INTERN"
  /\ ActiveIn(p) # {}
  /\ call' = [call EXCEPT ![c] = InFlight("create", None, p, None, planned)]
  /\ UNCHANGED <<rows, clock, approvalVars, misdated>>

CheckDuplicate(c) ==
  /\ call[c].at = "create"
  /\ NoOpenConversion(call[c].source)
  /\ call' = [call EXCEPT ![c].at = "open"]
  /\ UNCHANGED <<rows, clock, approvalVars, misdated>>

\* The transaction: conversion and approval request; the unique index on open
\* conversions of a source period is checked by the insert.
OpenConversion(c, v, n) ==
  /\ call[c].at = "open"
  /\ NoOpenConversion(call[c].source)
  /\ conversion' = [conversion EXCEPT ![v] =
       [status |-> "PENDING", source |-> call[c].source, planned |-> call[c].day]]
  /\ Submit(v, n)
  /\ Finish(c)
  /\ UNCHANGED <<period, assignment, current, clock, misdated>>

\* Mutant: the generic process status is written into the conversion.
ProcessStatusOfOutcome(outcome) ==
  CASE outcome = "pending" -> "PENDING"
    [] outcome = "approved" -> "APPROVED"
    [] outcome = "rejected" -> "REJECTED"
    [] outcome = "returned" -> "DRAFT"
    [] OTHER -> "WITHDRAWN"

\* What the runtime writes into the conversion it approves (syncBusinessStatus).
StatusOfOutcome(outcome) ==
  CASE outcome = "pending" -> "PENDING"
    [] outcome = "approved" -> "PENDING_EFFECTIVE"
    [] outcome = "rejected" -> "REJECTED"
    [] outcome = "returned" -> "DRAFT"
    [] OTHER -> "WITHDRAWN"

DecideApproval(v) ==
  /\ \/ \E k \in 1 .. size[v] : Approve(v, k)
     \/ \E outcome \in {"rejected", "returned"} : TurnDown(v, outcome)
     \/ WithdrawUndecided(v)
  /\ conversion' = [conversion EXCEPT ![v].status = StatusOfOutcome(state'[v])]
  /\ UNCHANGED <<period, assignment, current, call, clock, misdated>>

-----------------------------------------------------------------------------
(***************************************************************************)
(* activate: everything but the conditional updates is decided on reads    *)
(* made before the transaction.                                            *)
(***************************************************************************)
\* Mutant: the old rows end on the day the new ones start.
SameDay(day) == day

\* previousUtcCalendarDate
DayBefore(day) == day - 1

\* The effective date leaves the source period and its assignment a last day.
LeavesLastDay(p, planned) ==
  /\ DayBefore(planned) >= period[p].entry
  /\ \E a \in ActiveIn(p) :
       /\ \A b \in ActiveIn(p) : assignment[b].start <= assignment[a].start
       /\ DayBefore(planned) >= assignment[a].start

\* Mutant: the effective date need not have come.
LoadsEarlyConversion(c, v) ==
  /\ call[c].at = "idle"
  /\ conversion[v].status = "PENDING_EFFECTIVE"
  /\ state[v] = "approved"
  /\ LeavesLastDay(conversion[v].source, conversion[v].planned)
  /\ call' = [call EXCEPT ![c] =
       InFlight("activate", v, conversion[v].source, None, conversion[v].planned)]
  /\ UNCHANGED <<rows, clock, approvalVars, misdated>>

LoadConversion(c, v) ==
  /\ call[c].at = "idle"
  /\ conversion[v].status = "PENDING_EFFECTIVE"
  /\ state[v] = "approved"
  /\ conversion[v].planned <= today
  /\ LeavesLastDay(conversion[v].source, conversion[v].planned)
  /\ call' = [call EXCEPT ![c] =
       InFlight("activate", v, conversion[v].source, None, conversion[v].planned)]
  /\ UNCHANGED <<rows, clock, approvalVars, misdated>>

\* The source period ends unless it was ended meanwhile, and p continues it.
ContinuePeriod(source, p, effective) ==
  /\ period[source].exit = None
  /\ NextPeriod(p)
  /\ period' = [period EXCEPT
       ![source].exit = DayBefore(effective), ![source].employment = "TRANSFERRED_OUT",
       ![p] = [relationship |-> "INTERNAL_EMPLOYEE", entry |-> effective, exit |-> None,
               employment |-> "REGULAR", previous |-> source]]

\* Mutant: only the new assignment is written.
AddsAssignment(source, p, a, effective) ==
  /\ ActiveIn(source) # {}
  /\ NextAssignment(a)
  /\ assignment' = [assignment EXCEPT ![a] =
       [status |-> "ACTIVE", period |-> p, start |-> effective, end |-> None]]

\* All active assignments of the source end, one at least; a is the one of p.
MoveAssignments(source, p, a, effective) ==
  /\ ActiveIn(source) # {}
  /\ NextAssignment(a)
  /\ assignment' = [b \in Assignments |->
       IF b \in ActiveIn(source)
       THEN [assignment[b] EXCEPT !.status = "ENDED", !.end = DayBefore(effective)]
       ELSE IF b = a
       THEN [status |-> "ACTIVE", period |-> p, start |-> effective, end |-> None]
       ELSE assignment[b]]

MoveCurrentRecord(source, p) ==
  /\ current = source
  /\ current' = p

Activate(c, p, a) ==
  LET v == call[c].conversion IN
  /\ call[c].at = "activate"
  /\ ContinuePeriod(call[c].source, p, call[c].day)
  /\ MoveAssignments(call[c].source, p, a, call[c].day)
  /\ MoveCurrentRecord(call[c].source, p)
  /\ conversion[v].status = "PENDING_EFFECTIVE"
  /\ conversion' = [conversion EXCEPT ![v].status = "COMPLETED"]
  /\ TakeEffect(v)
  /\ Finish(c)
  /\ UNCHANGED <<clock, misdated>>

-----------------------------------------------------------------------------
(***************************************************************************)
(* The personnel page (update) and imported files: the current assignment  *)
(* is read without a lock, and it and its period are later written by id,  *)
(* whatever became of them.                                                *)
(***************************************************************************)
Reads(c, at, a, candidates) ==
  /\ call[c].at = "idle"
  /\ a \in candidates
  /\ \A b \in candidates : assignment[b].start <= assignment[a].start
  /\ call' = [call EXCEPT ![c] = InFlight(at, None, assignment[a].period, a, serverDay)]
  /\ UNCHANGED <<rows, clock, approvalVars, misdated>>

\* update asks for a period that has begun, by the day of the server.
LoadAssignment(c, a) ==
  Reads(c, "update", a,
        {b \in Assignments : /\ assignment[b].status = "ACTIVE"
                             /\ period[assignment[b].period].entry <= serverDay})

\* findCurrentImportEmployment does not.
LoadImported(c, a) ==
  Reads(c, "import", a, {b \in Assignments : assignment[b].status = "ACTIVE"})

\* Mutant: the old assignment is not ended.
AddsDepartment(c, new) ==
  [assignment EXCEPT
     ![new] = [status |-> "ACTIVE", period |-> call[c].source,
               start |-> call[c].day, end |-> None]]

\* Another organizationId: the old assignment ends yesterday, the new one starts today.
ChangeDepartment(c, new) ==
  [assignment EXCEPT
     ![call[c].assignment].status = "ENDED",
     ![call[c].assignment].end = DayBefore(call[c].day),
     ![new] = [status |-> "ACTIVE", period |-> call[c].source,
               start |-> call[c].day, end |-> None]]

\* The department (None: it stays), the start of the assignment that was read and the entry
\* date of its period are written over, each if it is given; an import gives both one date.
ChangeEmployment(c, new, start, entry) ==
  LET old == call[c].assignment
      moved == IF new = None THEN assignment ELSE ChangeDepartment(c, new)
  IN
  /\ call[c].at \in {"update", "import"}
  /\ call[c].at = "import" => start = entry
  /\ new # None => NextAssignment(new)
  /\ assignment' = IF start = None THEN moved ELSE [moved EXCEPT ![old].start = start]
  /\ period' = IF entry = None THEN period ELSE [period EXCEPT ![call[c].source].entry = entry]
  /\ misdated' = \/ misdated
                 \/ start # None
                 \/ entry # None
                 \/ call[c].at = "import" /\ new # None /\ assignment[old].start > call[c].day
  /\ Finish(c)
  /\ UNCHANGED <<current, conversion, clock, approvalVars>>

-----------------------------------------------------------------------------
\* A check or a conditional update throws, or the process dies: nothing is kept.
RollBack(c) ==
  /\ call[c].at # "idle"
  /\ Finish(c)
  /\ UNCHANGED <<rows, clock, approvalVars, misdated>>

\* Midnight in Shanghai, and up to eight hours later on the server's own clock.
Midnight ==
  /\ serverDay = today
  /\ today < MaxDay
  /\ today' = today + 1
  /\ UNCHANGED <<rows, call, serverDay, approvalVars, misdated>>

ServerMidnight ==
  /\ serverDay < today
  /\ serverDay' = today
  /\ UNCHANGED <<rows, call, today, approvalVars, misdated>>

CallStep(c) ==
  \/ \E p \in Periods, planned \in Day : LoadSource(c, p, planned)
  \/ CheckDuplicate(c)
  \/ \E v \in Applications, n \in 1 .. MaxSteps : OpenConversion(c, v, n)
  \/ \E v \in Applications : LoadConversion(c, v)
  \/ \E p \in Periods, a \in Assignments : Activate(c, p, a)
  \/ \E a \in Assignments : LoadAssignment(c, a)
  \/ \E a \in Assignments : LoadImported(c, a)
  \/ \E new \in Assignments \cup {None}, start, entry \in Corrections \cup {None} :
       ChangeEmployment(c, new, start, entry)
  \/ RollBack(c)

Overlap == \E c, d \in Calls : c # d /\ call[c].at # "idle" /\ call[d].at # "idle"

Next ==
  /\ \/ \E c \in Calls : CallStep(c)
     \/ \E v \in Applications : DecideApproval(v)
     \/ Midnight
     \/ ServerMidnight
  /\ overlapped' = (overlapped \/ Overlap')

Spec == Init /\ [][Next]_vars

-----------------------------------------------------------------------------
(***************************************************************************)
(* Properties                                                              *)
(***************************************************************************)
\* Every variable keeps its shape.
LifecycleTypeOK ==
  /\ period \in [Periods -> PeriodRow]
  /\ assignment \in [Assignments -> AssignmentRow]
  /\ current \in Periods
  /\ conversion \in [Applications -> ConversionRow]
  /\ call \in [Calls -> CallRecord]
  /\ today \in Day
  /\ serverDay \in {today - 1, today}

Exists(p) == period[p].relationship # "ABSENT"

Covers(a) ==
  {d \in Day : /\ assignment[a].status # "ABSENT"
               /\ assignment[a].start <= d
               /\ assignment[a].end # None => d <= assignment[a].end}

\* docs/EMPLOYMENT_BUSINESS_RULES.md 6.3 (line 212) and docs/DATA_MODEL.md line 144: at
\* most one department is active, and no day has two unless dates are written over.
\* Conversions count in Shanghai days, changes of department in server days, and an
\* activation may come days after its effective date.  Two changes of department that
\* read the same assignment break this.
OneDepartmentPerDay ==
  ~overlapped =>
    \A a, b \in Assignments : a # b =>
      /\ ~misdated => Covers(a) \cap Covers(b) = {}
      /\ ~(assignment[a].status = "ACTIVE" /\ assignment[b].status = "ACTIVE")

\* docs/EMPLOYMENT_BUSINESS_RULES.md 6.3 (line 205) and 6.1 (line 176): the activation
\* ends all active assignments of the source period, so none is active in a period that
\* has ended, and the source of an application under approval is a valid one.  A change
\* of department, or a submission, that read the source before it ended breaks this.
EndedPeriodIsLeft ==
  ~overlapped =>
    /\ \A p \in Periods : period[p].exit # None => ActiveIn(p) = {}
    /\ \A v \in Applications :
         conversion[v].status = "PENDING" => period[conversion[v].source].exit = None

\* A period is continued at most once, and the chain has neither a gap nor, unless dates
\* are written over, an overlap: the next period starts the day after the last one ended.
\* Its last period alone has not ended and holds the current employment record.  Two
\* activations of one or of two conversions may race for it.
ChainOfPeriods ==
  /\ \A p, q \in Periods :
       period[p].previous # None /\ period[p].previous = period[q].previous => p = q
  /\ \A p \in Periods :
       period[p].previous # None =>
         /\ period[period[p].previous].exit # None
         /\ ~misdated => period[period[p].previous].exit = period[p].entry - 1
         /\ period[period[p].previous].employment = "TRANSFERRED_OUT"
  /\ \A p \in Periods :
       period[p].exit # None => \E q \in Periods : period[q].previous = p
  /\ \A p \in Periods : Exists(p) => (period[p].exit = None <=> current = p)

\* A period ends by a completed conversion of it, approved by all and due, and a
\* completed conversion has ended its source.
EndedByCompletedConversion ==
  /\ \A p \in Periods :
       period[p].exit # None =>
         \E v \in Applications :
           /\ conversion[v].status = "COMPLETED"
           /\ conversion[v].source = p
           /\ conversion[v].planned = period[p].exit + 1
  /\ \A v \in Applications :
       conversion[v].status = "COMPLETED" =>
         /\ period[conversion[v].source].exit = conversion[v].planned - 1
         /\ conversion[v].planned <= today
         /\ approved[v] = 1 .. size[v]
=============================================================================
