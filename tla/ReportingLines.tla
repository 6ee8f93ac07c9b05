---- MODULE ReportingLines ----
(***************************************************************************)
(* Who reports to whom: the primary administrative rows of                 *)
(* ReportingRelationship over a calendar.  They are written by the         *)
(* creation, the update and the import of employees (employees.service.ts) *)
(* and shown as lists and as a graph (reporting-relationships.service.ts). *)
(*                                                                         *)
(* Days are numbers; an open row ends on Open, after every day.  An import *)
(* looks up managers one statement at a time, and an update or an import   *)
(* writes by the id of a row it has read before: each statement is a step  *)
(* of its call, and the steps of several calls interleave.                 *)
(***************************************************************************)
EXTENDS Integers, FiniteSets, Sequences

CONSTANTS
  Employees,  \* employees, on file or not yet
  Calls,      \* slots for requests that are being served
  LastDay,    \* bound: the calendar is 0..LastDay
  MaxRows     \* bound: rows ever inserted

ASSUME ReportingAssumption ==
  /\ IsFiniteSet(Employees)
  /\ LastDay \in Nat
  /\ MaxRows \in Nat

Days == 0 .. LastDay
Open == LastDay + 1

Row == [employee : Employees, manager : Employees,
        start : Days, end : -1 .. Open, status : {"ACTIVE", "INACTIVE"}]

VARIABLES
  today,       \* utcCalendarDay()
  hired,       \* employees on file
  rows,        \* the table, in the order of insertion
  call,        \* the requests being served
  \* What the properties ask of the past:
  overlapped,  \* two calls have been in flight at once
  misdated,    \* a row was dated otherwise than from the day it was written
  edited       \* an update has set a manager

vars == <<today, hired, rows, call, overlapped, misdated, edited>>

CallState ==
  [step : {"walk", "find", "write"}, kind : {"update", "import"},
   employee : Employees, manager : Employees, start : Days,
   at : Employees, visited : SUBSET Employees, row : 0 .. MaxRows]

Idle == [step |-> "idle"]

\* Rows a findFirst for `e` on `day` may return: ACTIVE rows that cover the
\* day, those with the latest start first (their ids are in no known order).
Covers(r, day) == r.start <= day /\ day <= r.end
Current(e, day) ==
  {i \in DOMAIN rows : /\ rows[i].employee = e
                       /\ rows[i].status = "ACTIVE"
                       /\ Covers(rows[i], day)}
Latest(e, day) ==
  {i \in Current(e, day) : \A j \in Current(e, day) : rows[j].start <= rows[i].start}

OpenRow(e, m, day) ==
  [employee |-> e, manager |-> m, start |-> day, end |-> Open, status |-> "ACTIVE"]

InFlight == {c \in Calls : call[c] # Idle}
HasRoom == Len(rows) + Cardinality(InFlight) < MaxRows

----------------------------------------------------------------------------
Init ==
  /\ today = 0
  /\ hired = {}
  /\ rows = <<>>
  /\ call = [c \in Calls |-> Idle]
  /\ overlapped = FALSE
  /\ misdated = FALSE
  /\ edited = FALSE

\* create without a manager, or the employee of an imported row.
Hire(e) ==
  /\ e \notin hired
  /\ hired' = hired \cup {e}
  /\ UNCHANGED <<today, rows, call, overlapped, misdated, edited>>

HireUnderAnyone(e, m, entryDate) == \* mutant
  /\ e \notin hired
  /\ HasRoom
  /\ hired' = hired \cup {e}
  /\ rows' = Append(rows, OpenRow(e, m, entryDate))
  /\ UNCHANGED <<today, call, overlapped, misdated, edited>>

\* create with a manager: the row starts on the entry date, past or to come.
HireUnder(e, m, entryDate) ==
  /\ e \notin hired
  /\ m \in hired
  /\ HasRoom
  /\ hired' = hired \cup {e}
  /\ rows' = Append(rows, OpenRow(e, m, entryDate))
  /\ misdated' = (misdated \/ entryDate > today)
  /\ UNCHANGED <<today, call, overlapped, edited>>

Begin(c, e, m, start, kind, step) ==
  /\ call[c] = Idle
  /\ HasRoom
  /\ call' = [call EXCEPT ![c] =
       [step |-> step, kind |-> kind, employee |-> e, manager |-> m,
        start |-> start, at |-> m, visited |-> {e}, row |-> 0]]
  /\ overlapped' = (overlapped \/ InFlight # {})
  /\ misdated' = (misdated \/ start # today)
  /\ UNCHANGED <<today, hired, rows, edited>>

Finish(c) == call' = [call EXCEPT ![c] = Idle]

\* update with managerEmployeeId: another employee on file; nothing else is asked.
StartUpdate(c, e, m) ==
  /\ {e, m} \subseteq hired
  /\ e # m
  /\ Begin(c, e, m, today, "update", "find")

\* A row of an import that names a manager.  It starts today, or on the entry
\* date when the same row has just created the employment.
StartImport(c, e, m, start) ==
  /\ {e, m} \subseteq hired
  /\ e # m
  /\ Begin(c, e, m, start, "import", "walk")

\* The import leaves the manager out when the way up from the manager comes
\* back to the employee, or runs in a circle.
CycleFound(c) ==
  /\ call[c].step = "walk"
  /\ call[c].at \in call[c].visited
  /\ Finish(c)
  /\ UNCHANGED <<today, hired, rows, overlapped, misdated, edited>>

StopsAtManager(c) == \* mutant of WalkUp
  /\ call[c].step = "walk"
  /\ call' = [call EXCEPT ![c].step = "find"]
  /\ UNCHANGED <<today, hired, rows, overlapped, misdated, edited>>

\* One level further up, by today's rows.
WalkUp(c) ==
  /\ call[c].step = "walk"
  /\ call[c].at \notin call[c].visited
  /\ \E i \in Latest(call[c].at, today) :
       call' = [call EXCEPT ![c].at = rows[i].manager, ![c].visited = @ \cup {call[c].at}]
  /\ UNCHANGED <<today, hired, rows, overlapped, misdated, edited>>

TopReached(c) ==
  /\ call[c].step = "walk"
  /\ call[c].at \notin call[c].visited
  /\ Current(call[c].at, today) = {}
  /\ call' = [call EXCEPT ![c].step = "find"]
  /\ UNCHANGED <<today, hired, rows, overlapped, misdated, edited>>

\* The row that is current on the first day of the new one; 0 for none.
FindCurrent(c) ==
  /\ call[c].step = "find"
  /\ LET found == Latest(call[c].employee, call[c].start) IN
     \E i \in IF found = {} THEN {0} ELSE found :
       IF i # 0 /\ call[c].kind = "import" /\ rows[i].manager = call[c].manager
       THEN Finish(c)
       ELSE call' = [call EXCEPT ![c].step = "write", ![c].row = i]
  /\ UNCHANGED <<today, hired, rows, overlapped, misdated, edited>>

\* An update replaces the manager in the row it has found.
WriteUpdate(c) ==
  /\ call[c].step = "write"
  /\ call[c].kind = "update"
  /\ rows' = IF call[c].row # 0
             THEN [rows EXCEPT ![call[c].row].manager = call[c].manager]
             ELSE Append(rows, OpenRow(call[c].employee, call[c].manager, call[c].start))
  /\ edited' = TRUE
  /\ Finish(c)
  /\ UNCHANGED <<today, hired, overlapped, misdated>>

\* An import ends the row it has found the day before and adds a row of its own.
EndedRow(r, start) == [r EXCEPT !.end = start - 1, !.status = "INACTIVE"]

WriteImport(c) ==
  /\ call[c].step = "write"
  /\ call[c].kind = "import"
  /\ LET i == call[c].row
         old == IF i = 0 THEN rows ELSE [rows EXCEPT ![i] = EndedRow(@, call[c].start)]
     IN rows' = Append(old, OpenRow(call[c].employee, call[c].manager, call[c].start))
  /\ Finish(c)
  /\ UNCHANGED <<today, hired, overlapped, misdated, edited>>

NextDay ==
  /\ today < LastDay
  /\ today' = today + 1
  /\ UNCHANGED <<hired, rows, call, overlapped, misdated, edited>>

CallStep(c) ==
  \/ CycleFound(c)
  \/ WalkUp(c)
  \/ TopReached(c)
  \/ FindCurrent(c)
  \/ WriteUpdate(c)
  \/ WriteImport(c)

Next ==
  \/ \E e \in Employees : Hire(e)
  \/ \E e, m \in Employees, d \in Days : HireUnder(e, m, d)
  \/ \E c \in Calls, e, m \in Employees : StartUpdate(c, e, m)
  \/ \E c \in Calls, e, m \in Employees, d \in Days : StartImport(c, e, m, d)
  \/ \E c \in Calls : CallStep(c)
  \/ NextDay

Spec == Init /\ [][Next]_vars

----------------------------------------------------------------------------
(* What findAll shows of a business day to a user who may see `visible`: the *)
(* rows left by sanitizeRelationships, as indices of the table.              *)

Raw(visible, day) ==
  {i \in DOMAIN rows : /\ rows[i].status = "ACTIVE"
                       /\ Covers(rows[i], day)
                       /\ rows[i].employee \in visible}

NonSelf(visible, day) == {i \in Raw(visible, day) : rows[i].employee # rows[i].manager}

\* An employee with several rows is shown with none of them; that is decided
\* before rows to managers out of sight are left out.
UniqueRows(visible, day) ==
  {i \in NonSelf(visible, day) :
     /\ \A j \in NonSelf(visible, day) : rows[j].employee = rows[i].employee => j = i
     /\ rows[i].manager \in visible}

ManagersOf(es, edges) == {rows[i].manager : i \in {j \in edges : rows[j].employee \in es}}

\* hasPath: who is found above `e` along `edges`, itself included.
Found(e, edges) ==
  LET found[n \in Nat] ==
        IF n = 0 THEN {e}
        ELSE LET below == found[n - 1] IN below \cup ManagersOf(below, edges)
  IN found[Cardinality(Employees)]

HasPathDirectly(from, to, edges) == to \in {from} \cup ManagersOf({from}, edges) \* mutant
HasPath(from, to, edges) == to \in Found(from, edges)

Shown(visible, day) ==
  LET edges == UniqueRows(visible, day) IN
  {i \in edges : ~HasPath(rows[i].manager, rows[i].employee, edges)}

----------------------------------------------------------------------------
(* Every variable keeps its type, and rows name employees on file. *)
ReportingTypeOK ==
  /\ today \in Days
  /\ hired \subseteq Employees
  /\ rows \in Seq(Row) /\ Len(rows) <= MaxRows
  /\ \A i \in DOMAIN rows : {rows[i].employee, rows[i].manager} \subseteq hired
  /\ call \in [Calls -> CallState \cup {Idle}]
  /\ {overlapped, misdated, edited} \subseteq BOOLEAN

Acyclic(edges) ==
  \A group \in (SUBSET Employees) \ {{}} :
    \E e \in group : ManagersOf({e}, edges) \cap group = {}

(* Whatever the writers have left in the table, the graph that findAll shows *)
(* of any day to anybody is a forest of visible employees: one manager each, *)
(* no circle.  And no more is hidden than has to be: an unambiguous row      *)
(* between visible employees is missing only if it is part of a circle.      *)
ShownIsForest ==
  \A visible \in SUBSET hired, day \in Days :
    LET edges == UniqueRows(visible, day)
        shown == Shown(visible, day)
        Circles == {group \in SUBSET visible : ManagersOf(group, edges) = group}
    IN /\ Acyclic(shown)
       /\ \A i, j \in shown : rows[i].employee = rows[j].employee => i = j
       /\ \A i \in edges \ shown : \E group \in Circles : rows[i].employee \in group

(* As long as calls come one at a time and rows start on the day they are    *)
(* written, nobody has two managers on one day; and as long as managers are  *)
(* set by creations and imports only, today's rows contain no circle.        *)
LinesInOrder ==
  ~overlapped /\ ~misdated =>
    /\ \A e \in Employees, day \in Days : Cardinality(Current(e, day)) <= 1
    /\ ~edited => Acyclic(UNION {Current(e, today) : e \in Employees})

====
