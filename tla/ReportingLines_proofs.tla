------------------------ MODULE ReportingLines_proofs ------------------------
(***************************************************************************)
(* Proofs about reporting lines, for any employees, requests, rows and     *)
(* length of the calendar: the table keeps its shape, LinesInOrder holds,  *)
(* although nothing in the database forbids a second manager or a circle,  *)
(* and what is shown of the table is a forest whatever it holds.           *)
(*                                                                         *)
(* LinesInOrder is not inductive: an import writes some steps after it has *)
(* looked for the row to end and for a circle.  Settled and Climbs say     *)
(* what its findings are worth when it writes.                             *)
(***************************************************************************)
EXTENDS ReportingLines, FiniteSetTheorems, WellFoundedInduction, TLAPS

\* The table names employees on file.
TableInv ==
  /\ today \in Days
  /\ hired \subseteq Employees
  /\ rows \in Seq(Row)
  /\ \A i \in DOMAIN rows : rows[i].employee \in hired /\ rows[i].manager \in hired
  /\ overlapped \in BOOLEAN /\ misdated \in BOOLEAN /\ edited \in BOOLEAN

\* So does a request, which keeps room for the row it may add.
OnFile(r) ==
  /\ r.employee \in hired /\ r.manager \in hired /\ r.employee # r.manager
  /\ r.at \in hired /\ r.visited \subseteq hired
  /\ r.row \in 0 .. Len(rows)

CallInv ==
  /\ call \in [Calls -> CallState \cup {Idle}]
  /\ \A c \in InFlight : OnFile(call[c])
  /\ IsFiniteSet(InFlight)
  /\ Len(rows) + Cardinality(InFlight) <= MaxRows

Active == {i \in DOMAIN rows : rows[i].status = "ACTIVE"}
ActiveOf(e) == {i \in Active : rows[i].employee = e}

\* Nobody has written about the employee of a request since it began, and the row it has
\* found is still the active one.
Settled(r) ==
  /\ r.start <= today
  /\ \A i \in DOMAIN rows : rows[i].employee = r.employee => rows[i].start <= r.start
  /\ r.step = "write" => ActiveOf(r.employee) = IF r.row = 0 THEN {} ELSE {r.row}

\* While calls come one at a time and rows start on the day they are written.
OneByOne ==
  /\ \A i \in DOMAIN rows : rows[i].start <= today
  /\ \A i \in Active : rows[i].end = Open
  /\ \A i, j \in Active : rows[i].employee = rows[j].employee => i = j
  /\ \A c, d \in InFlight : c = d
  /\ \A c \in InFlight : Settled(call[c])

\* The way up from the manager, as far as an import has gone: who is on it reports to
\* somebody on it, and once the top is reached the employee is not on it.
Way(r) == (r.visited \ {r.employee}) \cup {r.at}
Climbs(r) ==
  r.kind = "import" =>
    /\ r.employee \in r.visited
    /\ r.manager \in Way(r)
    /\ \A i \in Active :
         rows[i].employee \in Way(r) /\ (r.step = "walk" => rows[i].employee # r.at)
           => rows[i].manager \in Way(r)
    /\ r.step # "walk" => r.employee \notin Way(r)

\* Acyclic, said of the active rows.
Forest ==
  \A group \in (SUBSET Employees) \ {{}} :
    \E e \in group : \A i \in Active : rows[i].employee = e => rows[i].manager \notin group

NoCircle == Forest /\ \A c \in InFlight : Climbs(call[c])

ReportingInv ==
  /\ TableInv
  /\ CallInv
  /\ ~overlapped /\ ~misdated => OneByOne
  /\ ~overlapped /\ ~misdated /\ ~edited => NoCircle

-----------------------------------------------------------------------------
(***************************************************************************)
(* Requests and rows                                                       *)
(***************************************************************************)
LEMMA IdleIsNoState == Idle \notin CallState
  BY DEF Idle, CallState

LEMMA InFlightState ==
  ASSUME CallInv, NEW c \in InFlight
  PROVE  c \in Calls /\ call[c] \in CallState
  BY DEF CallInv, InFlight

\* A request that goes on
LEMMA CallGoesOn ==
  ASSUME CallInv, NEW c \in InFlight, NEW r \in CallState, call' = [call EXCEPT ![c] = r]
  PROVE  /\ call' \in [Calls -> CallState \cup {Idle}]
         /\ InFlight' = InFlight
         /\ call'[c] = r
         /\ \A d \in InFlight \ {c} : call'[d] = call[d]
<1>1. c \in Calls /\ r # Idle /\ call[c] # Idle
  BY InFlightState, IdleIsNoState DEF InFlight
<1>2. /\ call' \in [Calls -> CallState \cup {Idle}]
      /\ call'[c] = r
      /\ \A d \in Calls \ {c} : call'[d] = call[d]
  BY <1>1 DEF CallInv
<1>3. InFlight' = InFlight
  BY <1>1, <1>2 DEF InFlight
<1> QED BY <1>2, <1>3 DEF InFlight

\* A request that ends leaves its room behind.
LEMMA CallEnds ==
  ASSUME CallInv, NEW c \in InFlight, Finish(c)
  PROVE  /\ call' \in [Calls -> CallState \cup {Idle}]
         /\ InFlight' = InFlight \ {c}
         /\ \A d \in InFlight' : call'[d] = call[d]
         /\ IsFiniteSet(InFlight') /\ Cardinality(InFlight') = Cardinality(InFlight) - 1
<1>1. c \in Calls /\ call' = [call EXCEPT ![c] = Idle]
  BY InFlightState DEF Finish
<1>2. /\ call' \in [Calls -> CallState \cup {Idle}]
      /\ call'[c] = Idle
      /\ \A d \in Calls \ {c} : call'[d] = call[d]
  BY <1>1 DEF CallInv
<1>3. InFlight' = InFlight \ {c}
  BY <1>1, <1>2 DEF InFlight
<1>4. IsFiniteSet(InFlight)
  BY DEF CallInv
<1>5. IsFiniteSet(InFlight \ {c}) /\ Cardinality(InFlight \ {c}) = Cardinality(InFlight) - 1
  BY <1>4, FS_RemoveElement
<1> QED BY <1>2, <1>3, <1>5 DEF InFlight

\* A row added to the table
LEMMA AppendRow ==
  ASSUME NEW s \in Seq(Row), NEW x \in Row
  PROVE  /\ Append(s, x) \in Seq(Row)
         /\ Len(Append(s, x)) = Len(s) + 1 /\ Len(s) \in Nat
         /\ DOMAIN s = 1 .. Len(s)
         /\ DOMAIN Append(s, x) = DOMAIN s \cup {Len(s) + 1}
         /\ Append(s, x)[Len(s) + 1] = x
         /\ \A i \in DOMAIN s : Append(s, x)[i] = s[i] /\ i # Len(s) + 1
  OBVIOUS

\* A row changed in place
LEMMA ChangedRow ==
  ASSUME NEW s \in Seq(Row), NEW k \in DOMAIN s, NEW x \in Row
  PROVE  /\ [s EXCEPT ![k] = x] \in Seq(Row)
         /\ Len([s EXCEPT ![k] = x]) = Len(s)
         /\ DOMAIN [s EXCEPT ![k] = x] = DOMAIN s
         /\ [s EXCEPT ![k] = x][k] = x
         /\ \A i \in DOMAIN s : i # k => [s EXCEPT ![k] = x][i] = s[i]
<1>1. DOMAIN s = 1 .. Len(s) /\ Len(s) \in Nat /\ s \in [1 .. Len(s) -> Row]
  OBVIOUS
<1>2. [s EXCEPT ![k] = x] \in [1 .. Len(s) -> Row]
  BY <1>1
<1> QED BY <1>1, <1>2

LEMMA OpenRowType ==
  ASSUME NEW e \in Employees, NEW m \in Employees, NEW day \in Days
  PROVE  /\ OpenRow(e, m, day) \in Row
         /\ OpenRow(e, m, day).employee = e /\ OpenRow(e, m, day).manager = m
         /\ OpenRow(e, m, day).start = day /\ OpenRow(e, m, day).end = Open
         /\ OpenRow(e, m, day).status = "ACTIVE"
<1>1. LastDay \in Nat
  BY ReportingAssumption
<1>2. Open \in -1 .. Open
  BY <1>1 DEF Open
<1> QED BY <1>2 DEF OpenRow, Row

\* While rows start on the day they are written, a row found on a day is an active one.
LEMMA FoundIsActive ==
  ASSUME TableInv, OneByOne, NEW e, NEW day \in Days,
         \A i \in DOMAIN rows : rows[i].employee = e => rows[i].start <= day
  PROVE  Current(e, day) = ActiveOf(e) /\ Latest(e, day) = ActiveOf(e)
<1>1. LastDay \in Nat /\ day <= Open
  BY ReportingAssumption DEF Days, Open
<1>2. Current(e, day) = ActiveOf(e)
  BY <1>1 DEF OneByOne, Current, Covers, Active, ActiveOf
<1>3. \A i, j \in ActiveOf(e) : i = j
  BY DEF OneByOne, ActiveOf
<1>4. \A i \in ActiveOf(e) : rows[i].start <= rows[i].start
  <2>1. \A i \in DOMAIN rows : rows[i] \in Row
    BY DEF TableInv
  <2>2. \A i \in DOMAIN rows : rows[i].start \in Int
    BY <2>1, <1>1 DEF Row, Days
  <2> QED BY <2>2 DEF ActiveOf, Active
<1>5. Latest(e, day) = ActiveOf(e)
  BY <1>2, <1>3, <1>4 DEF Latest
<1> QED BY <1>2, <1>5

-----------------------------------------------------------------------------
(***************************************************************************)
(* Reading                                                                 *)
(***************************************************************************)
\* A request that goes on with what it has found, when that is worth something.
LEMMA StageKeeps ==
  ASSUME ReportingInv, NEW c \in InFlight, NEW r \in CallState,
         call' = [call EXCEPT ![c] = r],
         UNCHANGED <<today, hired, rows, overlapped, misdated, edited>>,
         OnFile(r), OneByOne => Settled(r), OneByOne /\ NoCircle => Climbs(r)
  PROVE  ReportingInv'
<1>1. TableInv /\ CallInv
  BY DEF ReportingInv
<1>2. /\ call' \in [Calls -> CallState \cup {Idle}]
      /\ InFlight' = InFlight
      /\ call'[c] = r
      /\ \A d \in InFlight \ {c} : call'[d] = call[d]
  BY <1>1, CallGoesOn
<1>3. TableInv'
  BY <1>1 DEF TableInv
<1>4. CallInv'
  <2>1. \A d \in InFlight' : OnFile(call[d])'
    BY <1>1, <1>2 DEF CallInv, OnFile
  <2> QED BY <1>1, <1>2, <2>1 DEF CallInv
<1>5. ASSUME OneByOne PROVE OneByOne'
  <2>1. \A d \in InFlight' : Settled(call[d])'
    BY <1>2, <1>5 DEF OneByOne, Settled, ActiveOf, Active
  <2> QED BY <1>2, <1>5, <2>1 DEF OneByOne, Active
<1>6. ASSUME OneByOne, NoCircle PROVE NoCircle'
  <2>1. \A d \in InFlight' : Climbs(call[d])'
    BY <1>2, <1>6 DEF NoCircle, Climbs, Way, Active
  <2> QED BY <1>6, <2>1 DEF NoCircle, Forest, Active
<1> QED BY <1>3, <1>4, <1>5, <1>6 DEF ReportingInv

\* A request that ends without writing
LEMMA EndKeeps ==
  ASSUME ReportingInv, NEW c \in InFlight, Finish(c),
         UNCHANGED <<today, hired, rows, overlapped, misdated, edited>>
  PROVE  ReportingInv'
<1>1. TableInv /\ CallInv
  BY DEF ReportingInv
<1>2. /\ call' \in [Calls -> CallState \cup {Idle}]
      /\ InFlight' = InFlight \ {c}
      /\ \A d \in InFlight' : call'[d] = call[d]
      /\ IsFiniteSet(InFlight') /\ Cardinality(InFlight') = Cardinality(InFlight) - 1
  BY <1>1, CallEnds
<1>3. TableInv'
  BY <1>1 DEF TableInv
<1>4. CallInv'
  <2>1. \A d \in InFlight' : OnFile(call[d])'
    BY <1>1, <1>2 DEF CallInv, OnFile
  <2>2. Len(rows) \in Nat /\ Cardinality(InFlight) \in Nat /\ MaxRows \in Nat
    BY <1>1, FS_CardinalityType, ReportingAssumption DEF CallInv, TableInv
  <2>3. Len(rows') + Cardinality(InFlight') <= MaxRows
    BY <1>1, <1>2, <2>2 DEF CallInv
  <2> QED BY <1>2, <2>1, <2>3 DEF CallInv
<1>5. ASSUME OneByOne PROVE OneByOne'
  <2>1. \A d \in InFlight' : Settled(call[d])'
    BY <1>2, <1>5 DEF OneByOne, Settled, ActiveOf, Active
  <2> QED BY <1>2, <1>5, <2>1 DEF OneByOne, Active
<1>6. ASSUME NoCircle PROVE NoCircle'
  <2>1. \A d \in InFlight' : Climbs(call[d])'
    BY <1>2, <1>6 DEF NoCircle, Climbs, Way, Active
  <2> QED BY <1>6, <2>1 DEF NoCircle, Forest, Active
<1> QED BY <1>3, <1>4, <1>5, <1>6 DEF ReportingInv

LEMMA CycleFoundKeeps ==
  ASSUME ReportingInv, NEW c \in Calls, CycleFound(c)
  PROVE  ReportingInv'
<1>1. call[c] # Idle
  BY DEF CycleFound, Idle
<1> QED BY <1>1, EndKeeps DEF CycleFound, InFlight

\* One level up: the manager of the one reached is on the way too.
LEMMA WalkUpKeeps ==
  ASSUME ReportingInv, NEW c \in Calls, WalkUp(c)
  PROVE  ReportingInv'
<1>1. TableInv /\ CallInv
  BY DEF ReportingInv
<1>2. c \in InFlight /\ call[c].step = "walk" /\ call[c].at \notin call[c].visited
  BY DEF WalkUp, InFlight, Idle
<1>3. call[c] \in CallState
  BY <1>1, <1>2, InFlightState
<1>4. PICK i \in Latest(call[c].at, today) :
        call' = [call EXCEPT ![c].at = rows[i].manager, ![c].visited = @ \cup {call[c].at}]
  BY DEF WalkUp
<1>5. PICK r : /\ r = [call[c] EXCEPT !.at = rows[i].manager, !.visited = @ \cup {call[c].at}]
               /\ call' = [call EXCEPT ![c] = r]
  BY <1>1, <1>2, <1>4, InFlightState DEF CallInv
<1>6. i \in DOMAIN rows /\ rows[i].employee = call[c].at /\ rows[i].manager \in hired
  BY <1>1, <1>4 DEF Latest, Current, TableInv
<1>7. OnFile(call[c]) /\ hired \subseteq Employees
  BY <1>1, <1>2 DEF CallInv, TableInv
<1>8. /\ r \in CallState
      /\ r.step = "walk" /\ r.kind = call[c].kind /\ r.employee = call[c].employee
      /\ r.manager = call[c].manager /\ r.start = call[c].start /\ r.row = call[c].row
      /\ r.at = rows[i].manager /\ r.visited = call[c].visited \cup {call[c].at}
  BY <1>2, <1>3, <1>5, <1>6, <1>7 DEF CallState, OnFile
<1>9. OnFile(r)
  BY <1>6, <1>7, <1>8 DEF OnFile
<1>10. OneByOne => Settled(r)
  BY <1>2, <1>8 DEF OneByOne, Settled
<1>11. ASSUME OneByOne, NoCircle PROVE Climbs(r)
  <2> SUFFICES ASSUME r.kind = "import" PROVE Climbs(r)
    BY DEF Climbs
  <2>1. Climbs(call[c]) /\ call[c].kind = "import"
    BY <1>2, <1>8, <1>11 DEF NoCircle
  <2>2. /\ call[c].employee \in call[c].visited /\ call[c].manager \in Way(call[c])
        /\ Way(r) = Way(call[c]) \cup {rows[i].manager}
    BY <1>2, <1>8, <2>1 DEF Climbs, Way
  <2>3. \A j \in ActiveOf(call[c].at) : j = i
    <3>1. today \in Days /\ \A j \in DOMAIN rows : rows[j].start <= today
      BY <1>1, <1>11 DEF TableInv, OneByOne
    <3>2. Latest(call[c].at, today) = ActiveOf(call[c].at)
      BY <1>1, <1>11, <3>1, FoundIsActive
    <3> QED BY <1>4, <1>11, <3>2 DEF OneByOne, ActiveOf
  <2>4. ASSUME NEW j \in Active, rows[j].employee \in Way(r), rows[j].employee # r.at
        PROVE  rows[j].manager \in Way(r)
    <3>1. rows[j].employee \in Way(call[c])
      BY <1>8, <2>2, <2>4
    <3>2. CASE rows[j].employee = call[c].at
      BY <2>2, <2>3, <2>4, <3>2 DEF ActiveOf
    <3>3. CASE rows[j].employee # call[c].at
      BY <2>1, <2>2, <2>4, <3>1, <3>3 DEF Climbs
    <3> QED BY <3>2, <3>3
  <2> QED BY <1>8, <2>2, <2>4 DEF Climbs
<1> QED BY <1>2, <1>5, <1>8, <1>9, <1>10, <1>11, StageKeeps DEF WalkUp

\* Nobody is above the last one reached, so all who are above the manager have been seen.
LEMMA TopReachedKeeps ==
  ASSUME ReportingInv, NEW c \in Calls, TopReached(c)
  PROVE  ReportingInv'
<1>1. TableInv /\ CallInv
  BY DEF ReportingInv
<1>2. c \in InFlight /\ call[c].step = "walk" /\ call[c].at \notin call[c].visited
  BY DEF TopReached, InFlight, Idle
<1>3. call[c] \in CallState /\ OnFile(call[c])
  BY <1>1, <1>2, InFlightState DEF CallInv
<1>4. PICK r : r = [call[c] EXCEPT !.step = "find"] /\ call' = [call EXCEPT ![c] = r]
  BY DEF TopReached
<1>5. /\ r \in CallState
      /\ r.step = "find" /\ r.kind = call[c].kind /\ r.employee = call[c].employee
      /\ r.manager = call[c].manager /\ r.start = call[c].start /\ r.row = call[c].row
      /\ r.at = call[c].at /\ r.visited = call[c].visited
  BY <1>3, <1>4 DEF CallState
<1>6. OnFile(r)
  BY <1>3, <1>5 DEF OnFile
<1>7. OneByOne => Settled(r)
  BY <1>2, <1>5 DEF OneByOne, Settled
<1>8. ASSUME OneByOne, NoCircle PROVE Climbs(r)
  <2> SUFFICES ASSUME r.kind = "import" PROVE Climbs(r)
    BY DEF Climbs
  <2>1. Climbs(call[c]) /\ call[c].kind = "import" /\ Way(r) = Way(call[c])
    BY <1>2, <1>5, <1>8 DEF NoCircle, Way
  <2>2. ActiveOf(call[c].at) = {}
    <3>1. today \in Days /\ \A j \in DOMAIN rows : rows[j].start <= today
      BY <1>1, <1>8 DEF TableInv, OneByOne
    <3>2. Current(call[c].at, today) = ActiveOf(call[c].at)
      BY <1>1, <1>8, <3>1, FoundIsActive
    <3> QED BY <3>2 DEF TopReached
  <2>3. \A j \in Active : rows[j].employee # call[c].at
    BY <2>2 DEF ActiveOf
  <2>4. r.employee \notin Way(r)
    BY <1>2, <1>5, <2>1 DEF Climbs, Way
  <2> QED BY <1>5, <2>1, <2>3, <2>4 DEF Climbs
<1> QED BY <1>2, <1>4, <1>5, <1>6, <1>7, <1>8, StageKeeps DEF TopReached

\* The row found is the active one of the employee.
LEMMA FindCurrentKeeps ==
  ASSUME ReportingInv, NEW c \in Calls, FindCurrent(c)
  PROVE  ReportingInv'
<1>1. TableInv /\ CallInv
  BY DEF ReportingInv
<1>2. c \in InFlight /\ call[c].step = "find"
  BY DEF FindCurrent, InFlight, Idle
<1>3. call[c] \in CallState /\ OnFile(call[c])
  BY <1>1, <1>2, InFlightState DEF CallInv
<1>4. CASE Finish(c)
  BY <1>2, <1>4, EndKeeps DEF FindCurrent
<1>5. CASE ~Finish(c)
  <2> DEFINE found == Latest(call[c].employee, call[c].start)
  <2>1. PICK i : /\ i \in IF found = {} THEN {0} ELSE found
                 /\ call' = [call EXCEPT ![c].step = "write", ![c].row = i]
    BY <1>5 DEF FindCurrent
  <2>2. found \subseteq DOMAIN rows /\ DOMAIN rows = 1 .. Len(rows) /\ Len(rows) \in Nat
    BY <1>1 DEF Latest, Current, TableInv
  <2>3. i \in 0 .. Len(rows) /\ i \in 0 .. MaxRows
    <3>1. Len(rows) <= MaxRows
      BY <1>1, <2>2, FS_CardinalityType, ReportingAssumption DEF CallInv
    <3>2. MaxRows \in Nat
      BY ReportingAssumption
    <3> HIDE DEF found
    <3> QED BY <2>1, <2>2, <3>1, <3>2
  <2>4. PICK r : /\ r = [call[c] EXCEPT !.step = "write", !.row = i]
                 /\ call' = [call EXCEPT ![c] = r]
    BY <1>1, <1>2, <2>1, InFlightState DEF CallInv
  <2>5. /\ r \in CallState
        /\ r.step = "write" /\ r.kind = call[c].kind /\ r.employee = call[c].employee
        /\ r.manager = call[c].manager /\ r.start = call[c].start /\ r.row = i
        /\ r.at = call[c].at /\ r.visited = call[c].visited
    BY <1>3, <2>3, <2>4 DEF CallState
  <2>6. OnFile(r)
    BY <1>3, <2>3, <2>5 DEF OnFile
  <2>7. ASSUME OneByOne PROVE Settled(r)
    <3>1. Settled(call[c])
      BY <1>2, <2>7 DEF OneByOne
    <3>2. call[c].start \in Days
      BY <1>3 DEF CallState
    <3>3. found = ActiveOf(call[c].employee)
      BY <1>1, <2>7, <3>1, <3>2, FoundIsActive DEF Settled
    <3>4. \A j, k \in ActiveOf(call[c].employee) : j = k
      BY <2>7 DEF OneByOne, ActiveOf
    <3>5. ActiveOf(call[c].employee) = IF i = 0 THEN {} ELSE {i}
      <4>1. 0 \notin found
        BY <2>2
      <4> HIDE DEF found
      <4> QED BY <2>1, <3>3, <3>4, <4>1
    <3> QED BY <2>5, <3>1, <3>5 DEF Settled
  <2>8. OneByOne /\ NoCircle => Climbs(r)
    BY <1>2, <2>5 DEF NoCircle, Climbs, Way
  <2> QED BY <1>2, <2>4, <2>5, <2>6, <2>7, <2>8, StageKeeps DEF FindCurrent
<1> QED BY <1>4, <1>5

-----------------------------------------------------------------------------
(***************************************************************************)
(* Writing                                                                 *)
(***************************************************************************)
\* A request that ends with a table in order
LEMMA WriteKeeps ==
  ASSUME ReportingInv, NEW c \in InFlight, Finish(c), UNCHANGED <<today, hired, overlapped, misdated>>,
         rows' \in Seq(Row), Len(rows') \in {Len(rows), Len(rows) + 1},
         \A i \in DOMAIN rows' : rows'[i].employee \in hired /\ rows'[i].manager \in hired,
         edited' \in BOOLEAN, edited => edited',
         OneByOne =>
           /\ \A i \in DOMAIN rows' : rows'[i].start <= today
           /\ \A i \in Active' : rows'[i].end = Open
           /\ \A i, j \in Active' : rows'[i].employee = rows'[j].employee => i = j,
         OneByOne /\ NoCircle /\ ~edited' => Forest'
  PROVE  ReportingInv'
<1>1. TableInv /\ CallInv
  BY DEF ReportingInv
<1>2. /\ call' \in [Calls -> CallState \cup {Idle}]
      /\ InFlight' = InFlight \ {c}
      /\ \A d \in InFlight' : call'[d] = call[d]
      /\ IsFiniteSet(InFlight') /\ Cardinality(InFlight') = Cardinality(InFlight) - 1
  BY <1>1, CallEnds
<1>3. TableInv'
  BY <1>1 DEF TableInv
<1>4. CallInv'
  <2>1. Len(rows) \in Nat /\ Cardinality(InFlight) \in Nat /\ MaxRows \in Nat
    BY <1>1, FS_CardinalityType, ReportingAssumption DEF CallInv, TableInv
  <2>2. \A d \in InFlight' : OnFile(call[d])'
    BY <1>1, <1>2, <2>1 DEF CallInv, OnFile
  <2>3. Len(rows') + Cardinality(InFlight') <= MaxRows
    BY <1>1, <1>2, <2>1 DEF CallInv
  <2> QED BY <1>2, <2>2, <2>3 DEF CallInv
<1>5. OneByOne => InFlight' = {}
  BY <1>2 DEF OneByOne
<1>6. OneByOne => OneByOne'
  BY <1>5 DEF OneByOne
<1>7. OneByOne /\ NoCircle /\ ~edited' => NoCircle'
  BY <1>5 DEF NoCircle
<1> QED BY <1>3, <1>4, <1>6, <1>7 DEF ReportingInv

\* What a writing request finds
LEMMA WriterFacts ==
  ASSUME ReportingInv, NEW c \in Calls, call[c].step = "write"
  PROVE  /\ c \in InFlight /\ TableInv /\ CallInv
         /\ call[c] \in CallState /\ OnFile(call[c])
         /\ call[c].employee \in Employees /\ call[c].manager \in Employees
         /\ call[c].start \in Days /\ call[c].row \in 0 .. Len(rows)
         /\ DOMAIN rows = 1 .. Len(rows) /\ Len(rows) \in Nat
         /\ \A i \in DOMAIN rows : rows[i] \in Row
<1>1. c \in InFlight /\ TableInv /\ CallInv
  BY DEF ReportingInv, InFlight, Idle
<1>2. call[c] \in CallState /\ OnFile(call[c])
  BY <1>1, InFlightState DEF CallInv
<1>3. call[c].employee \in Employees /\ call[c].manager \in Employees /\ call[c].start \in Days
  BY <1>2 DEF CallState
<1>4. call[c].row \in 0 .. Len(rows)
  BY <1>2 DEF OnFile
<1>5. /\ DOMAIN rows = 1 .. Len(rows) /\ Len(rows) \in Nat
      /\ \A i \in DOMAIN rows : rows[i] \in Row
  BY <1>1 DEF TableInv
<1> QED BY <1>1, <1>2, <1>3, <1>4, <1>5

LEMMA WriteUpdateKeeps ==
  ASSUME ReportingInv, NEW c \in Calls, WriteUpdate(c)
  PROVE  ReportingInv'
<1>1. call[c].step = "write" /\ Finish(c) /\ edited' = TRUE
      /\ UNCHANGED <<today, hired, overlapped, misdated>>
  BY DEF WriteUpdate
<1>2. /\ c \in InFlight /\ TableInv /\ CallInv
      /\ call[c] \in CallState /\ OnFile(call[c])
      /\ call[c].employee \in Employees /\ call[c].manager \in Employees
      /\ call[c].start \in Days /\ call[c].row \in 0 .. Len(rows)
      /\ DOMAIN rows = 1 .. Len(rows) /\ Len(rows) \in Nat
      /\ \A i \in DOMAIN rows : rows[i] \in Row
  BY <1>1, WriterFacts
<1>3. PICK e, m, k : e = call[c].employee /\ m = call[c].manager /\ k = call[c].row
  OBVIOUS
<1>4. e \in hired /\ m \in hired
  BY <1>2, <1>3 DEF OnFile
<1>5. CASE k # 0
  <2> DEFINE x == [rows[k] EXCEPT !.manager = m]
  <2>1. k \in DOMAIN rows /\ rows' = [rows EXCEPT ![k] = x]
    BY <1>2, <1>3, <1>5 DEF WriteUpdate
  <2>2. /\ x \in Row /\ x.manager = m
        /\ x.employee = rows[k].employee /\ x.start = rows[k].start
        /\ x.end = rows[k].end /\ x.status = rows[k].status
    BY <1>2, <1>3, <2>1 DEF Row
  <2> HIDE DEF x
  <2>3. rows \in Seq(Row) /\ \A i \in DOMAIN rows : rows[i].employee \in hired /\ rows[i].manager \in hired
    BY <1>2 DEF TableInv
  <2>4. /\ rows' \in Seq(Row) /\ Len(rows') = Len(rows) /\ DOMAIN rows' = DOMAIN rows
        /\ rows'[k] = x
        /\ \A i \in DOMAIN rows : i # k => rows'[i] = rows[i]
    BY <2>1, <2>2, <2>3, ChangedRow
  <2>5. \A i \in DOMAIN rows' : rows'[i].employee \in hired /\ rows'[i].manager \in hired
    BY <1>4, <2>1, <2>2, <2>3, <2>4
  <2>6. \A i \in DOMAIN rows : /\ rows'[i].start = rows[i].start /\ rows'[i].end = rows[i].end
                               /\ rows'[i].status = rows[i].status
                               /\ rows'[i].employee = rows[i].employee
    BY <2>2, <2>4
  <2>7. Active' = Active
    BY <2>4, <2>6 DEF Active
  <2>8. OneByOne => /\ \A i \in DOMAIN rows' : rows'[i].start <= today
                    /\ \A i \in Active' : rows'[i].end = Open
                    /\ \A i, j \in Active' : rows'[i].employee = rows'[j].employee => i = j
    BY <2>4, <2>6, <2>7 DEF OneByOne, Active
  <2> QED BY <1>1, <1>2, <2>4, <2>5, <2>8, WriteKeeps
<1>6. CASE k = 0
  <2> DEFINE x == OpenRow(e, m, call[c].start)
  <2>1. rows' = Append(rows, x)
    BY <1>3, <1>6 DEF WriteUpdate
  <2>2. /\ x \in Row /\ x.employee = e /\ x.manager = m
        /\ x.start = call[c].start /\ x.end = Open /\ x.status = "ACTIVE"
    BY <1>2, <1>3, OpenRowType
  <2> HIDE DEF x
  <2>3. rows \in Seq(Row) /\ \A i \in DOMAIN rows : rows[i].employee \in hired /\ rows[i].manager \in hired
    BY <1>2 DEF TableInv
  <2>4. PICK n : n = Len(rows) + 1
    OBVIOUS
  <2>5. /\ rows' \in Seq(Row) /\ Len(rows') = Len(rows) + 1
        /\ DOMAIN rows' = DOMAIN rows \cup {n} /\ rows'[n] = x
        /\ \A i \in DOMAIN rows : rows'[i] = rows[i] /\ i # n
    BY <2>1, <2>2, <2>3, <2>4, AppendRow
  <2>6. \A i \in DOMAIN rows' : rows'[i].employee \in hired /\ rows'[i].manager \in hired
    BY <1>4, <2>2, <2>3, <2>5
  <2>7. Active' = Active \cup {n}
    BY <2>2, <2>5 DEF Active
  <2>8. ASSUME OneByOne
        PROVE  /\ \A i \in DOMAIN rows' : rows'[i].start <= today
               /\ \A i \in Active' : rows'[i].end = Open
               /\ \A i, j \in Active' : rows'[i].employee = rows'[j].employee => i = j
    <3>1. Settled(call[c])
      BY <1>2, <2>8 DEF OneByOne
    <3>2. \A i \in Active : rows[i].employee # e /\ i \in DOMAIN rows
      BY <1>1, <1>3, <1>6, <3>1 DEF Settled, ActiveOf, Active
    <3>3. x.start <= today
      BY <2>2, <3>1 DEF Settled
    <3> QED BY <2>2, <2>5, <2>7, <2>8, <3>2, <3>3 DEF OneByOne
  <2> QED BY <1>1, <1>2, <2>5, <2>6, <2>8, WriteKeeps
<1> QED BY <1>5, <1>6

\* An import: the only active row of the employee is its own, and the manager's way up has
\* not led to the employee.
LEMMA WriteImportKeeps ==
  ASSUME ReportingInv, NEW c \in Calls, WriteImport(c)
  PROVE  ReportingInv'
<1>1. /\ call[c].step = "write" /\ call[c].kind = "import" /\ Finish(c)
      /\ UNCHANGED <<today, hired, overlapped, misdated, edited>>
  BY DEF WriteImport
<1>2. /\ c \in InFlight /\ TableInv /\ CallInv
      /\ call[c] \in CallState /\ OnFile(call[c])
      /\ call[c].employee \in Employees /\ call[c].manager \in Employees
      /\ call[c].start \in Days /\ call[c].row \in 0 .. Len(rows)
      /\ DOMAIN rows = 1 .. Len(rows) /\ Len(rows) \in Nat
      /\ \A i \in DOMAIN rows : rows[i] \in Row
  BY <1>1, WriterFacts
<1>3. PICK e, m, k, start : /\ e = call[c].employee /\ m = call[c].manager
                            /\ k = call[c].row /\ start = call[c].start
  OBVIOUS
<1>4. e \in hired /\ m \in hired /\ e # m
  BY <1>2, <1>3 DEF OnFile
<1> DEFINE x == OpenRow(e, m, start)
           ended == EndedRow(rows[k], start)
           old == IF k = 0 THEN rows ELSE [rows EXCEPT ![k] = ended]
<1>5. rows' = Append(old, x)
  BY <1>3 DEF WriteImport
<1>6. /\ x \in Row /\ x.employee = e /\ x.manager = m
      /\ x.start = start /\ x.end = Open /\ x.status = "ACTIVE"
  BY <1>2, <1>3, OpenRowType
<1>7. rows \in Seq(Row) /\ \A i \in DOMAIN rows : rows[i].employee \in hired /\ rows[i].manager \in hired
  BY <1>2 DEF TableInv
<1>8. k # 0 => /\ k \in DOMAIN rows /\ ended \in Row /\ ended.status = "INACTIVE"
               /\ ended.employee = rows[k].employee /\ ended.manager = rows[k].manager
               /\ ended.start = rows[k].start
  <2> SUFFICES ASSUME k # 0 PROVE k \in DOMAIN rows /\ ended \in Row /\ ended.status = "INACTIVE"
                                  /\ ended.employee = rows[k].employee
                                  /\ ended.manager = rows[k].manager
                                  /\ ended.start = rows[k].start
    OBVIOUS
  <2>1. LastDay \in Nat
    BY ReportingAssumption
  <2>2. PICK dayBefore \in -1 .. Open : dayBefore = start - 1
    BY <1>2, <1>3, <2>1 DEF Days, Open
  <2>3. k \in DOMAIN rows
    BY <1>2, <1>3
  <2>4. PICK found \in Row : found = rows[k]
    BY <1>2, <2>3
  <2>5. ended = [found EXCEPT !.end = dayBefore, !.status = "INACTIVE"]
    BY <2>2, <2>4 DEF EndedRow
  <2> QED BY <2>3, <2>4, <2>5 DEF Row
<1> HIDE DEF x, ended
<1>9. /\ old \in Seq(Row) /\ Len(old) = Len(rows) /\ DOMAIN old = DOMAIN rows
      /\ \A i \in DOMAIN rows :
           /\ old[i].employee = rows[i].employee /\ old[i].manager = rows[i].manager
           /\ old[i].start = rows[i].start
           /\ i # k => old[i] = rows[i]
           /\ i = k => old[i].status = "INACTIVE"
  <2>1. CASE k = 0
    <3>1. k \notin DOMAIN rows
      BY <1>2, <2>1
    <3> QED BY <1>7, <2>1, <3>1
  <2>2. CASE k # 0
    <3>1. old = [rows EXCEPT ![k] = ended]
      BY <2>2
    <3> HIDE DEF old
    <3> QED BY <1>7, <1>8, <2>2, <3>1, ChangedRow
  <2> QED BY <2>1, <2>2
<1> HIDE DEF old
<1>10. PICK n : n = Len(rows) + 1
  OBVIOUS
<1>11. /\ rows' \in Seq(Row) /\ Len(rows') = Len(rows) + 1
       /\ DOMAIN rows' = DOMAIN rows \cup {n} /\ rows'[n] = x
       /\ \A i \in DOMAIN rows : rows'[i] = old[i] /\ i # n
  BY <1>5, <1>6, <1>9, <1>10, AppendRow
<1>12. \A i \in DOMAIN rows' : rows'[i].employee \in hired /\ rows'[i].manager \in hired
  BY <1>4, <1>6, <1>7, <1>9, <1>11
<1>13. Active' = (Active \ {k}) \cup {n}
  BY <1>6, <1>9, <1>11 DEF Active
<1>14. \A i \in Active \ {k} : rows'[i] = rows[i] /\ i \in DOMAIN rows
  BY <1>9, <1>11 DEF Active
<1>15. ASSUME OneByOne
       PROVE  Settled(call[c]) /\ \A i \in Active \ {k} : rows[i].employee # e
  <2>1. Settled(call[c])
    BY <1>2, <1>15 DEF OneByOne
  <2> QED BY <1>1, <1>3, <2>1 DEF Settled, ActiveOf
<1>16. ASSUME OneByOne
       PROVE  /\ \A i \in DOMAIN rows' : rows'[i].start <= today
              /\ \A i \in Active' : rows'[i].end = Open
              /\ \A i, j \in Active' : rows'[i].employee = rows'[j].employee => i = j
  <2>1. x.start <= today
    BY <1>3, <1>6, <1>15, <1>16 DEF Settled
  <2>2. \A i \in DOMAIN rows' : rows'[i].start <= today
    BY <1>9, <1>11, <1>16, <2>1 DEF OneByOne
  <2>3. \A i \in Active' : rows'[i].end = Open
    BY <1>6, <1>11, <1>13, <1>14, <1>16 DEF OneByOne
  <2>4. \A i, j \in Active' : rows'[i].employee = rows'[j].employee => i = j
    BY <1>6, <1>11, <1>13, <1>14, <1>15, <1>16 DEF OneByOne
  <2> QED BY <2>2, <2>3, <2>4
<1>17. ASSUME OneByOne, NoCircle PROVE Forest'
  <2>1. Climbs(call[c])
    BY <1>2, <1>17 DEF NoCircle
  <2> DEFINE way == Way(call[c])
  <2>2. /\ m \in way /\ e \notin way
        /\ \A i \in Active : rows[i].employee \in way => rows[i].manager \in way
    BY <1>1, <1>3, <2>1 DEF Climbs
  <2>3. ASSUME NEW group \in (SUBSET Employees) \ {{}}
        PROVE  \E g \in group : \A i \in Active' : rows'[i].employee = g => rows'[i].manager \notin group
    <3>1. CASE e \notin group
      <4>1. PICK g \in group : \A i \in Active : rows[i].employee = g => rows[i].manager \notin group
        BY <1>17 DEF NoCircle, Forest
      <4> QED BY <1>6, <1>11, <1>13, <1>14, <3>1, <4>1
    <3>2. CASE m \notin group /\ e \in group
      BY <1>6, <1>11, <1>13, <1>14, <1>15, <1>17, <3>2
    <3>3. CASE m \in group /\ e \in group
      <4>1. group \cap way \in (SUBSET Employees) \ {{}}
        BY <2>2, <3>3
      <4>2. PICK g \in group \cap way :
              \A i \in Active : rows[i].employee = g => rows[i].manager \notin group \cap way
        BY <1>17, <4>1 DEF NoCircle, Forest
      <4>3. g # e
        BY <2>2, <4>2
      <4> HIDE DEF way
      <4> QED BY <1>6, <1>11, <1>13, <1>14, <2>2, <4>2, <4>3
    <3> QED BY <3>1, <3>2, <3>3
  <2> QED BY <2>3 DEF Forest
<1> QED BY <1>1, <1>2, <1>11, <1>12, <1>16, <1>17, WriteKeeps DEF TableInv

-----------------------------------------------------------------------------
(***************************************************************************)
(* Hiring, beginning, and the calendar                                     *)
(***************************************************************************)
LEMMA HireKeeps ==
  ASSUME ReportingInv, NEW e \in Employees, Hire(e)
  PROVE  ReportingInv'
<1>1. TableInv /\ CallInv
  BY DEF ReportingInv
<1>2. hired' = hired \cup {e} /\ UNCHANGED <<today, rows, call, overlapped, misdated, edited>>
  BY DEF Hire
<1>3. InFlight' = InFlight /\ Active' = Active
  BY <1>2 DEF InFlight, Active
<1>4. TableInv'
  BY <1>1, <1>2 DEF TableInv
<1>5. CallInv'
  <2>1. \A c \in InFlight' : OnFile(call[c])'
    BY <1>1, <1>2, <1>3 DEF CallInv, OnFile
  <2> QED BY <1>1, <1>2, <1>3, <2>1 DEF CallInv
<1>6. OneByOne => OneByOne'
  BY <1>2, <1>3 DEF OneByOne, Settled, ActiveOf
<1>7. NoCircle => NoCircle'
  BY <1>2, <1>3 DEF NoCircle, Forest, Climbs, Way
<1> QED BY <1>2, <1>4, <1>5, <1>6, <1>7 DEF ReportingInv

\* Nobody reports to somebody who is not on file yet, and no request is about them.
LEMMA HireUnderKeeps ==
  ASSUME ReportingInv, NEW e \in Employees, NEW m \in Employees, NEW entryDate \in Days,
         HireUnder(e, m, entryDate)
  PROVE  ReportingInv'
<1> DEFINE x == OpenRow(e, m, entryDate)
<1>1. TableInv /\ CallInv
  BY DEF ReportingInv
<1>2. /\ e \notin hired /\ m \in hired /\ HasRoom
      /\ hired' = hired \cup {e} /\ rows' = Append(rows, x)
      /\ misdated' = (misdated \/ entryDate > today)
      /\ UNCHANGED <<today, call, overlapped, edited>>
  BY DEF HireUnder
<1>3. /\ x \in Row /\ x.employee = e /\ x.manager = m
      /\ x.start = entryDate /\ x.end = Open /\ x.status = "ACTIVE"
  BY OpenRowType
<1> HIDE DEF x
<1>4. /\ rows \in Seq(Row) /\ today \in Days /\ hired \subseteq Employees
      /\ \A i \in DOMAIN rows : rows[i].employee \in hired /\ rows[i].manager \in hired
  BY <1>1 DEF TableInv
<1>5. PICK n : n = Len(rows) + 1
  OBVIOUS
<1>6. /\ rows' \in Seq(Row) /\ Len(rows') = Len(rows) + 1 /\ Len(rows) \in Nat
      /\ DOMAIN rows' = DOMAIN rows \cup {n} /\ rows'[n] = x
      /\ \A i \in DOMAIN rows : rows'[i] = rows[i] /\ i # n
  BY <1>2, <1>3, <1>4, <1>5, AppendRow
<1>7. InFlight' = InFlight
  BY <1>2 DEF InFlight
<1>8. Active' = Active \cup {n} /\ Active \subseteq DOMAIN rows
  BY <1>3, <1>6 DEF Active
<1>9. misdated' \in BOOLEAN /\ (~misdated' => ~misdated /\ entryDate <= today)
  <2>1. misdated \in BOOLEAN
    BY <1>1 DEF TableInv
  <2>2. entryDate > today \/ entryDate <= today
    BY <1>4 DEF Days
  <2> QED BY <1>2, <2>1, <2>2
<1>10. TableInv'
  <2>1. \A i \in DOMAIN rows' : rows'[i].employee \in hired' /\ rows'[i].manager \in hired'
    BY <1>2, <1>3, <1>4, <1>6
  <2> QED BY <1>1, <1>2, <1>4, <1>6, <1>9, <2>1 DEF TableInv
<1>11. CallInv'
  <2>1. Cardinality(InFlight) \in Nat /\ MaxRows \in Nat
    BY <1>1, FS_CardinalityType, ReportingAssumption DEF CallInv
  <2>2. Len(rows') + Cardinality(InFlight') <= MaxRows
    BY <1>2, <1>6, <1>7, <2>1 DEF HasRoom
  <2>3. \A c \in InFlight' : OnFile(call[c])'
    BY <1>1, <1>2, <1>6, <1>7 DEF CallInv, OnFile
  <2> QED BY <1>1, <1>2, <1>7, <2>2, <2>3 DEF CallInv
<1>12. ASSUME OneByOne, entryDate <= today PROVE OneByOne'
  <2>1. \A i \in DOMAIN rows' : rows'[i].start <= today
    BY <1>3, <1>6, <1>12 DEF OneByOne
  <2>2. \A i \in Active' : rows'[i].end = Open
    BY <1>3, <1>6, <1>8, <1>12 DEF OneByOne
  <2>3. \A i, j \in Active' : rows'[i].employee = rows'[j].employee => i = j
    BY <1>2, <1>3, <1>4, <1>6, <1>8, <1>12 DEF OneByOne
  <2>4. ASSUME NEW c \in InFlight PROVE Settled(call[c])'
    <3>1. Settled(call[c]) /\ call[c].employee # e
      BY <1>1, <1>2, <1>12 DEF OneByOne, CallInv, OnFile
    <3>2. ActiveOf(call[c].employee)' = ActiveOf(call[c].employee)
      BY <1>2, <1>3, <1>6, <1>8, <3>1 DEF ActiveOf
    <3>3. \A i \in DOMAIN rows' :
            rows'[i].employee = call[c].employee => rows'[i].start <= call[c].start
      BY <1>3, <1>6, <3>1 DEF Settled
    <3> QED BY <1>2, <3>1, <3>2, <3>3 DEF Settled
  <2> QED BY <1>2, <1>7, <1>12, <2>1, <2>2, <2>3, <2>4 DEF OneByOne
<1>13. ASSUME NoCircle PROVE NoCircle'
  <2>1. ASSUME NEW group \in (SUBSET Employees) \ {{}}
        PROVE  \E g \in group : \A i \in Active' : rows'[i].employee = g => rows'[i].manager \notin group
    <3>1. CASE group = {e}
      BY <1>2, <1>3, <1>4, <1>6, <1>8, <3>1
    <3>2. CASE group # {e}
      <4>1. group \ {e} \in (SUBSET Employees) \ {{}}
        BY <3>2
      <4>2. PICK g \in group \ {e} :
              \A i \in Active : rows[i].employee = g => rows[i].manager \notin group \ {e}
        BY <1>13, <4>1 DEF NoCircle, Forest
      <4>3. \A i \in Active : rows[i].manager # e
        BY <1>2, <1>4, <1>8
      <4> QED BY <1>3, <1>6, <1>8, <4>2, <4>3
    <3> QED BY <3>1, <3>2
  <2>2. ASSUME NEW c \in InFlight PROVE Climbs(call[c])'
    <3>1. Climbs(call[c]) /\ e \notin Way(call[c])
      BY <1>1, <1>2, <1>13 DEF NoCircle, CallInv, OnFile, Way
    <3> QED BY <1>2, <1>3, <1>6, <1>8, <3>1 DEF Climbs, Way
  <2>3. Forest'
    BY <2>1 DEF Forest
  <2> QED BY <1>2, <1>7, <2>2, <2>3 DEF NoCircle
<1> QED BY <1>2, <1>9, <1>10, <1>11, <1>12, <1>13 DEF ReportingInv

\* A request that begins alone and with today's date has nothing to be wrong about yet.
LEMMA BeginKeeps ==
  ASSUME ReportingInv, NEW c \in Calls, NEW e \in hired, NEW m \in hired, e # m,
         NEW start \in Days, NEW kind, NEW step, Begin(c, e, m, start, kind, step),
         kind \in {"update", "import"}, step \in {"walk", "find"},
         kind = "import" => step = "walk"
  PROVE  ReportingInv'
<1>1. TableInv /\ CallInv
  BY DEF ReportingInv
<1>2. PICK r : r = [step |-> step, kind |-> kind, employee |-> e, manager |-> m,
                    start |-> start, at |-> m, visited |-> {e}, row |-> 0]
  OBVIOUS
<1>3. /\ call[c] = Idle /\ HasRoom /\ call' = [call EXCEPT ![c] = r]
      /\ overlapped' = (overlapped \/ InFlight # {})
      /\ misdated' = (misdated \/ start # today)
      /\ UNCHANGED <<today, hired, rows, edited>>
  BY <1>2 DEF Begin
<1>4. /\ e \in Employees /\ m \in Employees /\ MaxRows \in Nat /\ Len(rows) \in Nat
      /\ today \in Days /\ LastDay \in Nat
  BY <1>1, ReportingAssumption DEF TableInv
<1>5. /\ r.step = step /\ r.kind = kind /\ r.employee = e /\ r.manager = m
      /\ r.start = start /\ r.at = m /\ r.visited = {e} /\ r.row = 0
  BY <1>2
<1>6. r \in CallState
  BY <1>2, <1>4 DEF CallState
<1>7. r # Idle
  BY <1>6, IdleIsNoState
<1>8. /\ call' \in [Calls -> CallState \cup {Idle}]
      /\ call'[c] = r
      /\ \A d \in Calls \ {c} : call'[d] = call[d]
  BY <1>1, <1>3, <1>6 DEF CallInv
<1>9. InFlight' = InFlight \cup {c} /\ c \notin InFlight
  BY <1>3, <1>7, <1>8 DEF InFlight
<1>10. /\ IsFiniteSet(InFlight) /\ IsFiniteSet(InFlight')
       /\ Cardinality(InFlight) \in Nat
       /\ Cardinality(InFlight') = Cardinality(InFlight) + 1
  <2>1. IsFiniteSet(InFlight)
    BY <1>1 DEF CallInv
  <2> QED BY <1>9, <2>1, FS_AddElement, FS_CardinalityType
<1>11. TableInv'
  BY <1>1, <1>3 DEF TableInv
<1>12. CallInv'
  <2>1. Len(rows') + Cardinality(InFlight') <= MaxRows
    BY <1>3, <1>4, <1>10 DEF HasRoom
  <2>2. OnFile(r)
    BY <1>4, <1>5 DEF OnFile
  <2>3. \A d \in InFlight' : OnFile(call[d])'
    <3> SUFFICES ASSUME NEW d \in InFlight' PROVE OnFile(call[d])'
      OBVIOUS
    <3>1. CASE d = c
      BY <1>3, <1>8, <2>2, <3>1 DEF OnFile
    <3>2. CASE d # c
      BY <1>1, <1>3, <1>8, <1>9, <3>2 DEF CallInv, OnFile, InFlight
    <3> QED BY <3>1, <3>2
  <2> QED BY <1>8, <1>10, <2>1, <2>3 DEF CallInv
<1>13. ASSUME ~overlapped', ~misdated'
       PROVE  ~overlapped /\ ~misdated /\ InFlight' = {c} /\ start = today
  BY <1>3, <1>9, <1>13
<1>14. ASSUME ~overlapped', ~misdated' PROVE OneByOne'
  <2>1. OneByOne
    BY <1>13, <1>14 DEF ReportingInv
  <2>2. Active' = Active
    BY <1>3 DEF Active
  <2>3. Settled(r)'
    BY <1>3, <1>4, <1>5, <1>13, <1>14, <2>1 DEF Settled, OneByOne, Days
  <2>4. \A d \in InFlight' : Settled(call[d])'
    BY <1>8, <1>13, <1>14, <2>3 DEF Settled, ActiveOf, Active
  <2> QED BY <1>3, <1>13, <1>14, <2>1, <2>2, <2>4 DEF OneByOne
<1>15. ASSUME ~overlapped', ~misdated', ~edited' PROVE NoCircle'
  <2>1. NoCircle
    BY <1>3, <1>13, <1>15 DEF ReportingInv
  <2>2. Active' = Active
    BY <1>3 DEF Active
  <2>3. Way(r) = {m}
    BY <1>5 DEF Way
  <2>4. Climbs(r)'
    BY <1>3, <1>5, <2>3 DEF Climbs, Way
  <2>5. \A d \in InFlight' : Climbs(call[d])'
    BY <1>8, <1>13, <1>15, <2>4 DEF Climbs, Way, Active
  <2> QED BY <1>3, <2>1, <2>2, <2>5 DEF NoCircle, Forest
<1> QED BY <1>11, <1>12, <1>14, <1>15 DEF ReportingInv

LEMMA NextDayKeeps ==
  ASSUME ReportingInv, NextDay
  PROVE  ReportingInv'
<1>1. TableInv /\ CallInv /\ LastDay \in Nat
  BY ReportingAssumption DEF ReportingInv
<1>2. today < LastDay /\ today' = today + 1
      /\ UNCHANGED <<hired, rows, call, overlapped, misdated, edited>>
  BY DEF NextDay
<1>3. InFlight' = InFlight /\ Active' = Active
  BY <1>2 DEF InFlight, Active
<1>4. today \in Days /\ today' \in Days
  BY <1>1, <1>2 DEF TableInv, Days
<1>5. TableInv'
  BY <1>1, <1>2, <1>4 DEF TableInv
<1>6. CallInv'
  <2>1. \A c \in InFlight' : OnFile(call[c])'
    BY <1>1, <1>2, <1>3 DEF CallInv, OnFile
  <2> QED BY <1>1, <1>2, <1>3, <2>1 DEF CallInv
<1>7. ASSUME OneByOne PROVE OneByOne'
  <2>1. \A i \in DOMAIN rows : rows[i].start \in Days
    <3>1. \A i \in DOMAIN rows : rows[i] \in Row
      BY <1>1 DEF TableInv
    <3> QED BY <3>1 DEF Row
  <2>2. \A i \in DOMAIN rows' : rows'[i].start <= today'
    BY <1>2, <1>4, <1>7, <2>1 DEF OneByOne, Days
  <2>3. ASSUME NEW c \in InFlight PROVE Settled(call[c])'
    <3>1. Settled(call[c]) /\ call[c] \in CallState
      BY <1>1, <1>7, InFlightState DEF OneByOne
    <3>2. call[c].start \in Days
      BY <3>1 DEF CallState
    <3>3. call[c].start <= today'
      BY <1>2, <1>4, <3>1, <3>2 DEF Settled, Days
    <3> QED BY <1>2, <1>3, <3>1, <3>3 DEF Settled, ActiveOf
  <2> QED BY <1>2, <1>3, <1>7, <2>2, <2>3 DEF OneByOne
<1>8. NoCircle => NoCircle'
  BY <1>2, <1>3 DEF NoCircle, Forest, Climbs, Way
<1> QED BY <1>2, <1>5, <1>6, <1>7, <1>8 DEF ReportingInv

-----------------------------------------------------------------------------
(***************************************************************************)
(* The theorems                                                            *)
(***************************************************************************)
\* ReportingInv is inductive.
THEOREM ReportingInvariance == Spec => []ReportingInv
<1>1. Init => ReportingInv
  <2> SUFFICES ASSUME Init PROVE ReportingInv
    OBVIOUS
  <2> USE ReportingAssumption DEF Init
  <2>1. Len(rows) = 0 /\ DOMAIN rows = {} /\ rows \in Seq(Row)
    OBVIOUS
  <2>2. TableInv
    <3>1. today \in Days /\ hired \subseteq Employees
      BY DEF Days
    <3>2. overlapped \in BOOLEAN /\ misdated \in BOOLEAN /\ edited \in BOOLEAN
      OBVIOUS
    <3> QED BY <2>1, <3>1, <3>2 DEF TableInv
  <2>3. InFlight = {}
    BY DEF InFlight
  <2>4. CallInv
    BY <2>1, <2>3, FS_EmptySet DEF CallInv
  <2>5. Active = {}
    BY <2>1 DEF Active
  <2>6. OneByOne
    BY <2>1, <2>3, <2>5, Zenon DEF OneByOne
  <2>7. NoCircle
    <3>1. ASSUME NEW group \in (SUBSET Employees) \ {{}}
          PROVE  \E e \in group :
                   \A i \in Active : rows[i].employee = e => rows[i].manager \notin group
      <4>1. group # {}
        BY <3>1, Zenon
      <4>2. PICK e : e \in group
        BY <4>1
      <4> QED BY <2>5, <4>2, Zenon
    <3>2. Forest
      BY <3>1, Zenon DEF Forest
    <3> QED BY <2>3, <3>2, Zenon DEF NoCircle
  <2> QED BY <2>2, <2>4, <2>6, <2>7 DEF ReportingInv
<1>2. ReportingInv /\ [Next]_vars => ReportingInv'
  <2> SUFFICES ASSUME ReportingInv, [Next]_vars PROVE ReportingInv'
    OBVIOUS
  <2>1. CASE \E e \in Employees : Hire(e)
    BY <2>1, HireKeeps
  <2>2. CASE \E e, m \in Employees, d \in Days : HireUnder(e, m, d)
    BY <2>2, HireUnderKeeps
  <2>3. CASE \E c \in Calls, e, m \in Employees : StartUpdate(c, e, m)
    <3>1. PICK c \in Calls, e \in Employees, m \in Employees : StartUpdate(c, e, m)
      BY <2>3
    <3>2. e \in hired /\ m \in hired /\ e # m /\ Begin(c, e, m, today, "update", "find")
      BY <3>1 DEF StartUpdate
    <3>3. today \in Days
      BY DEF ReportingInv, TableInv
    <3> QED BY <3>2, <3>3, BeginKeeps
  <2>4. CASE \E c \in Calls, e, m \in Employees, d \in Days : StartImport(c, e, m, d)
    <3>1. PICK c \in Calls, e \in Employees, m \in Employees, d \in Days : StartImport(c, e, m, d)
      BY <2>4
    <3>2. e \in hired /\ m \in hired /\ e # m /\ Begin(c, e, m, d, "import", "walk")
      BY <3>1 DEF StartImport
    <3> QED BY <3>2, BeginKeeps
  <2>5. CASE \E c \in Calls : CallStep(c)
    BY <2>5, CycleFoundKeeps, WalkUpKeeps, TopReachedKeeps, FindCurrentKeeps,
       WriteUpdateKeeps, WriteImportKeeps DEF CallStep
  <2>6. CASE NextDay
    BY <2>6, NextDayKeeps
  <2>7. CASE UNCHANGED vars
    <3>1. UNCHANGED <<today, hired, rows, call, overlapped, misdated, edited>>
      BY <2>7 DEF vars
    <3>2. InFlight' = InFlight /\ Active' = Active
      BY <3>1 DEF InFlight, Active
    <3>3. (TableInv => TableInv') /\ (CallInv => CallInv')
      BY <3>1, <3>2 DEF TableInv, CallInv, OnFile
    <3>4. OneByOne => OneByOne'
      BY <3>1, <3>2 DEF OneByOne, Settled, ActiveOf
    <3>5. NoCircle => NoCircle'
      BY <3>1, <3>2 DEF NoCircle, Forest, Climbs, Way
    <3> QED BY <3>1, <3>3, <3>4, <3>5 DEF ReportingInv
  <2> QED BY <2>1, <2>2, <2>3, <2>4, <2>5, <2>6, <2>7 DEF Next
<1> QED BY <1>1, <1>2, PTL DEF Spec

\* Every row and every request names employees on file, however many there are.
THEOREM ReportingTyped == Spec => []ReportingTypeOK
<1>1. ReportingInv => ReportingTypeOK
  <2> SUFFICES ASSUME ReportingInv PROVE ReportingTypeOK
    OBVIOUS
  <2>1. TableInv /\ CallInv
    BY DEF ReportingInv
  <2>2. Len(rows) <= MaxRows
    <3>1. Len(rows) \in Nat /\ Cardinality(InFlight) \in Nat /\ MaxRows \in Nat
      BY <2>1, FS_CardinalityType, ReportingAssumption DEF CallInv, TableInv
    <3> QED BY <2>1, <3>1 DEF CallInv
  <2>3. \A i \in DOMAIN rows : {rows[i].employee, rows[i].manager} \subseteq hired
    BY <2>1 DEF TableInv
  <2>4. call \in [Calls -> CallState \cup {Idle}]
    BY <2>1 DEF CallInv
  <2> QED BY <2>1, <2>2, <2>3, <2>4 DEF ReportingTypeOK, TableInv
<1> QED BY <1>1, ReportingInvariance, PTL

\* Calls that come one at a time, with rows dated from the day they are written, leave nobody
\* with two managers on a day; and no circle, as long as no update sets a manager.
THEOREM LinesAreInOrder == Spec => []LinesInOrder
<1>1. ReportingInv => LinesInOrder
  <2> SUFFICES ASSUME ReportingInv, ~overlapped, ~misdated
               PROVE  /\ \A e \in Employees, day \in Days : Cardinality(Current(e, day)) <= 1
                      /\ ~edited => Acyclic(UNION {Current(e, today) : e \in Employees})
    BY DEF LinesInOrder
  <2>1. TableInv /\ OneByOne
    BY DEF ReportingInv
  <2>2. \A e \in Employees, day \in Days : Current(e, day) \subseteq ActiveOf(e)
    BY DEF Current, ActiveOf, Active
  <2>3. ASSUME NEW e \in Employees, NEW day \in Days
        PROVE  Cardinality(Current(e, day)) <= 1
    <3>1. \A i, j \in Current(e, day) : i = j
      BY <2>1, <2>2 DEF OneByOne, ActiveOf
    <3>2. CASE Current(e, day) = {}
      BY <3>2, FS_EmptySet
    <3>3. CASE Current(e, day) # {}
      <4>1. PICK i : Current(e, day) = {i}
        BY <3>1, <3>3
      <4>2. Cardinality({i}) = 1
        BY FS_Singleton
      <4> QED BY <4>1, <4>2
    <3> QED BY <3>2, <3>3
  <2>4. ASSUME ~edited PROVE Acyclic(UNION {Current(e, today) : e \in Employees})
    <3> DEFINE edges == UNION {Current(e, today) : e \in Employees}
    <3>1. Forest
      BY <2>4 DEF ReportingInv, NoCircle
    <3>2. edges \subseteq Active
      <4>1. today \in Days
        BY <2>1 DEF TableInv
      <4> QED BY <2>2, <4>1 DEF ActiveOf
    <3> HIDE DEF edges
    <3>3. ASSUME NEW group \in (SUBSET Employees) \ {{}}
          PROVE  \E e \in group : ManagersOf({e}, edges) \cap group = {}
      <4>1. PICK e \in group : \A i \in Active : rows[i].employee = e => rows[i].manager \notin group
        BY <3>1 DEF Forest
      <4> QED BY <3>2, <4>1 DEF ManagersOf
    <3>4. Acyclic(edges)
      BY <3>3 DEF Acyclic
    <3> QED BY <3>4 DEF edges
  <2> QED BY <2>3, <2>4
<1> QED BY <1>1, ReportingInvariance, PTL
-----------------------------------------------------------------------------
(***************************************************************************)
(* The way up along a set of rows                                          *)
(***************************************************************************)

\* Induction over a set of numbers; the library's form takes a predicate.
LEMMA NumbersFromZero ==
  ASSUME NEW S, 0 \in S, \A n \in Nat : n \in S => n + 1 \in S
  PROVE  Nat \subseteq S
<1> SUFFICES ASSUME Nat \ S # {} PROVE FALSE
  OBVIOUS
<1> DEFINE T == Nat \ S
<1>1. PICK x \in T : \A y \in T : ~ (<<y, x>> \in OpToRel(<, Nat))
  <2>1. T \subseteq Nat /\ T # {}
    OBVIOUS
  <2> QED BY <2>1, NatLessThanWellFounded, WFMin
<1>2. x \in Nat /\ x # 0 /\ x - 1 \in Nat
  OBVIOUS
<1>3. x - 1 \notin T
  <2>1. \A y \in T : ~ (y < x)
    BY <1>1 DEF OpToRel
  <2> QED BY <1>2, <2>1
<1>4. (x - 1) + 1 = x
  BY <1>2
<1> QED BY <1>2, <1>3, <1>4

\* Who is found n levels up, as Found defines it.
IsWayUp(f, e, edges) ==
  f = [n \in Nat |-> IF n = 0 THEN {e} ELSE f[n - 1] \cup ManagersOf(f[n - 1], edges)]

\* The definition of Found is about a function that exists: those at the end of a path of n
\* rows or fewer.
LEMMA WayUpExists ==
  ASSUME TableInv, NEW e \in Employees, NEW edges \in SUBSET DOMAIN rows
  PROVE  \E f : IsWayUp(f, e, edges)
<1> DEFINE Path(p, n) == /\ p[0] = e
                         /\ \A k \in 0 .. n - 1 : \/ p[k + 1] = p[k]
                                                  \/ p[k + 1] \in ManagersOf({p[k]}, edges)
           Ends(n) == {x \in Employees : \E p \in [0 .. n -> Employees] : Path(p, n) /\ p[n] = x}
           g == [n \in Nat |-> Ends(n)]
<1>0. \A es : ManagersOf(es, edges) \subseteq Employees
  BY DEF ManagersOf, TableInv
<1>1. Ends(0) = {e}
  <2>1. ASSUME NEW x \in Ends(0) PROVE x = e
    OBVIOUS
  <2>2. e \in Ends(0)
    <3>1. [k \in 0 .. 0 |-> e] \in [0 .. 0 -> Employees] /\ Path([k \in 0 .. 0 |-> e], 0)
      OBVIOUS
    <3> QED BY <3>1
  <2> QED BY <2>1, <2>2
<1>2. ASSUME NEW n \in Nat \ {0}
      PROVE  Ends(n) = Ends(n - 1) \cup ManagersOf(Ends(n - 1), edges)
  <2>1. ASSUME NEW x \in Ends(n) PROVE x \in Ends(n - 1) \cup ManagersOf(Ends(n - 1), edges)
    <3>1. PICK p \in [0 .. n -> Employees] : Path(p, n) /\ p[n] = x
      OBVIOUS
    <3>2. n - 1 \in 0 .. n /\ n - 1 \in Nat /\ (n - 1) + 1 = n
      OBVIOUS
    <3> DEFINE q == [k \in 0 .. n - 1 |-> p[k]]
    <3>3. q \in [0 .. n - 1 -> Employees] /\ Path(q, n - 1) /\ q[n - 1] = p[n - 1]
      BY <3>1, <3>2
    <3>4. p[n - 1] \in Ends(n - 1)
      BY <3>1, <3>2, <3>3
    <3>5. p[n] = p[n - 1] \/ p[n] \in ManagersOf({p[n - 1]}, edges)
      BY <3>1, <3>2
    <3> QED BY <3>1, <3>4, <3>5 DEF ManagersOf
  <2>2. ASSUME NEW y \in Ends(n - 1), NEW x \in Employees,
               x = y \/ x \in ManagersOf({y}, edges)
        PROVE  x \in Ends(n)
    <3>1. PICK p \in [0 .. n - 1 -> Employees] : Path(p, n - 1) /\ p[n - 1] = y
      OBVIOUS
    <3> DEFINE q == [k \in 0 .. n |-> IF k = n THEN x ELSE p[k]]
    <3>2. q \in [0 .. n -> Employees] /\ q[0] = e /\ q[n] = x
      BY <3>1
    <3>3. ASSUME NEW k \in 0 .. n - 1
          PROVE  q[k + 1] = q[k] \/ q[k + 1] \in ManagersOf({q[k]}, edges)
      <4>1. CASE k = n - 1
        <5>1. k \in 0 .. n /\ k + 1 \in 0 .. n /\ k # n /\ k + 1 = n
          BY <4>1
        <5>2. q[k] = y /\ q[k + 1] = x
          BY <3>1, <4>1, <5>1
        <5> QED BY <2>2, <5>2
      <4>2. CASE k # n - 1
        <5>1. k \in 0 .. (n - 1) - 1 /\ q[k] = p[k] /\ q[k + 1] = p[k + 1]
          BY <4>2
        <5> QED BY <3>1, <5>1
      <4> QED BY <4>1, <4>2
    <3> QED BY <3>2, <3>3
  <2>3. ASSUME NEW x \in ManagersOf(Ends(n - 1), edges) PROVE x \in Ends(n)
    <3>1. x \in Employees
      BY <1>0
    <3>2. \E y \in Ends(n - 1) : x \in ManagersOf({y}, edges)
      BY DEF ManagersOf
    <3> QED BY <2>2, <3>1, <3>2
  <2> QED BY <2>1, <2>2, <2>3
<1> HIDE DEF Ends
<1>3. \A n \in Nat : g[n] = IF n = 0 THEN {e} ELSE g[n - 1] \cup ManagersOf(g[n - 1], edges)
  <2> SUFFICES ASSUME NEW n \in Nat
               PROVE  g[n] = IF n = 0 THEN {e} ELSE g[n - 1] \cup ManagersOf(g[n - 1], edges)
    OBVIOUS
  <2>1. CASE n = 0
    BY <1>1, <2>1
  <2>2. CASE n # 0
    <3>1. n - 1 \in Nat
      BY <2>2
    <3> QED BY <1>2, <2>2, <3>1
  <2> QED BY <2>1, <2>2
<1>4. DOMAIN g = Nat /\ g = [n \in Nat |-> g[n]]
  OBVIOUS
<1> HIDE DEF g
<1>5. IsWayUp(g, e, edges)
  BY <1>3, <1>4 DEF IsWayUp
<1> QED BY <1>5

LEMMA FoundOnTheWayUp ==
  ASSUME TableInv, NEW e \in Employees, NEW edges \in SUBSET DOMAIN rows
  PROVE  \E f : IsWayUp(f, e, edges) /\ Found(e, edges) = f[Cardinality(Employees)]
<1> DEFINE h == CHOOSE f : f = [n \in Nat |-> IF n = 0 THEN {e}
                                              ELSE f[n - 1] \cup ManagersOf(f[n - 1], edges)]
<1>1. IsWayUp(h, e, edges)
  BY WayUpExists DEF IsWayUp
<1>2. Found(e, edges) = h[Cardinality(Employees)]
  BY DEF Found
<1> HIDE DEF h
<1> QED BY <1>1, <1>2

LEMMA WayUpSteps ==
  ASSUME TableInv, NEW e \in Employees, NEW edges \in SUBSET DOMAIN rows, NEW f, IsWayUp(f, e, edges)
  PROVE  /\ f[0] = {e}
         /\ \A n \in Nat : f[n + 1] = f[n] \cup ManagersOf(f[n], edges)
         /\ \A n \in Nat : f[n] \in SUBSET Employees
<1>1. f[0] = {e}
  BY DEF IsWayUp
<1>2. ASSUME NEW n \in Nat PROVE f[n + 1] = f[n] \cup ManagersOf(f[n], edges)
  <2>1. n + 1 \in Nat /\ n + 1 # 0 /\ (n + 1) - 1 = n
    OBVIOUS
  <2>2. f[n + 1] = f[(n + 1) - 1] \cup ManagersOf(f[(n + 1) - 1], edges)
    BY <2>1 DEF IsWayUp
  <2> QED BY <2>1, <2>2
<1>3. \A n \in Nat : f[n] \in SUBSET Employees
  <2> DEFINE S == {n \in Nat : f[n] \in SUBSET Employees}
  <2>1. 0 \in S
    BY <1>1
  <2>2. \A n \in Nat : n \in S => n + 1 \in S
    BY <1>2 DEF ManagersOf, TableInv
  <2>3. Nat \subseteq S
    <3> HIDE DEF S
    <3> QED BY <2>1, <2>2, NumbersFromZero
  <2> QED BY <2>3
<1> QED BY <1>1, <1>2, <1>3

IsClosed(es, edges) == ManagersOf(es, edges) \subseteq es

\* Found looks no further than there are employees: whoever is above somebody found is found.
LEMMA FoundIsClosed ==
  ASSUME TableInv, NEW e \in Employees, NEW edges \in SUBSET DOMAIN rows
  PROVE  /\ Found(e, edges) \in SUBSET Employees
         /\ e \in Found(e, edges)
         /\ IsClosed(Found(e, edges), edges)
<1> DEFINE N == Cardinality(Employees)
<1>1. PICK f : IsWayUp(f, e, edges) /\ Found(e, edges) = f[N]
  BY FoundOnTheWayUp
<1>2. /\ f[0] = {e}
      /\ \A n \in Nat : f[n + 1] = f[n] \cup ManagersOf(f[n], edges)
      /\ \A n \in Nat : f[n] \in SUBSET Employees
  BY <1>1, WayUpSteps
<1>3. \A n \in Nat : IsFiniteSet(f[n]) /\ Cardinality(f[n]) \in Nat /\ Cardinality(f[n]) <= N
  BY <1>2, FS_Subset, FS_CardinalityType, ReportingAssumption
<1>4. N \in Nat
  BY FS_CardinalityType, ReportingAssumption
<1> DEFINE S == {n \in Nat : f[n + 1] = f[n] \/ Cardinality(f[n]) >= n + 1}
           T == {n \in Nat : e \in f[n]}
<1>5. Nat \subseteq S
  <2>1. 0 \in S
    <3>1. Cardinality({e}) = 1
      BY FS_Singleton
    <3>2. Cardinality(f[0]) >= 0 + 1
      BY <1>2, <3>1
    <3> QED BY <3>2
  <2>2. ASSUME NEW n \in Nat, n \in S PROVE n + 1 \in S
    <3>1. n + 1 \in Nat
      OBVIOUS
    <3>2. CASE f[n + 1] = f[n]
      <4>1. f[(n + 1) + 1] = f[n + 1] \cup ManagersOf(f[n + 1], edges)
        BY <1>2, <3>1
      <4>2. f[n + 1] = f[n] \cup ManagersOf(f[n], edges)
        BY <1>2
      <4>3. f[(n + 1) + 1] = f[n + 1]
        BY <3>2, <4>1, <4>2
      <4> QED BY <3>1, <4>3
    <3>3. CASE f[n + 1] # f[n]
      <4>1. Cardinality(f[n]) >= n + 1
        BY <2>2, <3>3
      <4>2. f[n] \subseteq f[n + 1] /\ f[n] # f[n + 1]
        BY <1>2, <3>3
      <4>3. Cardinality(f[n]) < Cardinality(f[n + 1])
        <5>1. IsFiniteSet(f[n + 1])
          BY <1>3, <3>1
        <5>2. Cardinality(f[n]) <= Cardinality(f[n + 1])
          BY <4>2, <5>1, FS_Subset
        <5>3. Cardinality(f[n]) = Cardinality(f[n + 1]) => f[n] = f[n + 1]
          BY <4>2, <5>1, FS_Subset
        <5>4. Cardinality(f[n]) \in Nat /\ Cardinality(f[n + 1]) \in Nat
          BY <1>3, <3>1
        <5> QED BY <4>2, <5>2, <5>3, <5>4
      <4>4. Cardinality(f[n]) \in Nat /\ Cardinality(f[n + 1]) \in Nat
        BY <1>3, <3>1
      <4>5. Cardinality(f[n + 1]) >= (n + 1) + 1
        BY <4>1, <4>3, <4>4
      <4> QED BY <3>1, <4>5
    <3> QED BY <3>2, <3>3
  <2> HIDE DEF S
  <2> QED BY <2>1, <2>2, NumbersFromZero
<1>6. Nat \subseteq T
  <2>1. 0 \in T
    BY <1>2
  <2>2. ASSUME NEW n \in Nat, n \in T PROVE n + 1 \in T
    <3>1. f[n] \subseteq f[n + 1]
      BY <1>2
    <3> QED BY <2>2, <3>1
  <2> HIDE DEF T
  <2> QED BY <2>1, <2>2, NumbersFromZero
<1>7. f[N + 1] = f[N]
  <2>1. f[N + 1] = f[N] \/ Cardinality(f[N]) >= N + 1
    BY <1>4, <1>5
  <2>2. Cardinality(f[N]) \in Nat /\ Cardinality(f[N]) <= N
    BY <1>3, <1>4
  <2>3. ~ (Cardinality(f[N]) >= N + 1)
    BY <1>4, <2>2
  <2> QED BY <2>1, <2>3
<1>8. e \in f[N]
  BY <1>4, <1>6
<1> QED BY <1>1, <1>2, <1>4, <1>7, <1>8 DEF IsClosed

\* ... and nobody else.
LEMMA FoundIsLeast ==
  ASSUME TableInv, NEW e \in Employees, NEW edges \in SUBSET DOMAIN rows,
         NEW es, e \in es, IsClosed(es, edges)
  PROVE  Found(e, edges) \subseteq es
<1> DEFINE N == Cardinality(Employees)
<1>1. PICK f : IsWayUp(f, e, edges) /\ Found(e, edges) = f[N]
  BY FoundOnTheWayUp
<1>2. /\ f[0] = {e}
      /\ \A n \in Nat : f[n + 1] = f[n] \cup ManagersOf(f[n], edges)
      /\ \A n \in Nat : f[n] \in SUBSET Employees
  BY <1>1, WayUpSteps
<1>3. N \in Nat
  BY FS_CardinalityType, ReportingAssumption
<1> DEFINE S == {n \in Nat : f[n] \subseteq es}
<1>4. Nat \subseteq S
  <2>1. 0 \in S
    BY <1>2
  <2>2. \A n \in Nat : n \in S => n + 1 \in S
    BY <1>2 DEF IsClosed, ManagersOf
  <2> HIDE DEF S
  <2> QED BY <2>1, <2>2, NumbersFromZero
<1> QED BY <1>1, <1>3, <1>4

-----------------------------------------------------------------------------
(***************************************************************************)
(* What is shown                                                           *)
(***************************************************************************)

\* Rows of one manager each show no circle: on one, somebody finds the fewest others above,
\* and the manager finds just as many, so that the row between the two is not shown.
LEMMA ShownIsAcyclic ==
  ASSUME TableInv, NEW visible \in SUBSET hired, NEW day \in Days
  PROVE  Acyclic(Shown(visible, day))
<1> DEFINE edges == UniqueRows(visible, day)
           shown == Shown(visible, day)
<1>1. edges \in SUBSET DOMAIN rows /\ \A i, j \in edges : rows[i].employee = rows[j].employee => i = j
  BY DEF UniqueRows, NonSelf, Raw
<1>2. shown = {i \in edges : rows[i].employee \notin Found(rows[i].manager, edges)}
  BY DEF Shown, HasPath
<1>3. \A i \in edges : rows[i].employee \in Employees /\ rows[i].manager \in Employees
  BY <1>1 DEF TableInv
<1> HIDE DEF edges, shown
<1> SUFFICES ASSUME NEW group \in (SUBSET Employees) \ {{}},
                    \A e \in group : ManagersOf({e}, shown) \cap group # {}
             PROVE  FALSE
  BY DEF Acyclic, shown
<1>4. \A e \in group : \E i \in shown : rows[i].employee = e /\ rows[i].manager \in group
  BY DEF ManagersOf
<1> DEFINE Size(e) == Cardinality(Found(e, edges))
           sizes == {Size(e) : e \in group}
<1>5. \A e \in group : IsFiniteSet(Found(e, edges)) /\ Size(e) \in Nat
  BY <1>1, FoundIsClosed, FS_Subset, FS_CardinalityType, ReportingAssumption
<1>6. PICK e \in group : \A m \in group : Size(e) <= Size(m)
  <2>1. sizes \subseteq Nat /\ sizes # {}
    BY <1>5
  <2>2. PICK least \in sizes : \A s \in sizes : ~ (<<s, least>> \in OpToRel(<, Nat))
    <3> HIDE DEF sizes
    <3> QED BY <2>1, NatLessThanWellFounded, WFMin
  <2>3. \A s \in sizes : s \in Nat /\ least \in Nat /\ ~ (s < least)
    BY <2>1, <2>2 DEF OpToRel
  <2>4. \A s \in sizes : least <= s
    BY <2>3
  <2> QED BY <2>4
<1>7. PICK i \in shown : rows[i].employee = e /\ rows[i].manager \in group
  BY <1>4
<1> DEFINE m == rows[i].manager
<1>8. i \in edges /\ e \notin Found(m, edges) /\ m \in Employees /\ e \in Employees
  BY <1>2, <1>3, <1>7
<1>9. Found(m, edges) \subseteq Found(e, edges)
  <2>1. m \in ManagersOf({e}, edges)
    BY <1>7, <1>8 DEF ManagersOf
  <2>2. e \in Found(e, edges) /\ IsClosed(Found(e, edges), edges)
    BY <1>1, <1>8, FoundIsClosed
  <2>3. m \in Found(e, edges)
    BY <2>1, <2>2 DEF IsClosed, ManagersOf
  <2> HIDE DEF m
  <2> QED BY <1>1, <1>8, <2>2, <2>3, FoundIsLeast
<1>10. Size(m) <= Size(e) /\ (Size(m) = Size(e) => Found(m, edges) = Found(e, edges))
  BY <1>5, <1>9, FS_Subset
<1>11. Size(e) <= Size(m) /\ Size(e) \in Nat /\ Size(m) \in Nat
  BY <1>5, <1>6, <1>7
<1>12. Size(m) = Size(e)
  BY <1>10, <1>11
<1>13. e \in Found(e, edges)
  BY <1>1, <1>8, FoundIsClosed
<1> QED BY <1>8, <1>10, <1>12, <1>13

\* A row is hidden for a circle: those found above its manager, of whom its employee is one.
LEMMA HiddenIsOnCircle ==
  ASSUME TableInv, NEW visible \in SUBSET hired, NEW day \in Days,
         NEW i \in UniqueRows(visible, day) \ Shown(visible, day)
  PROVE  \E group \in SUBSET visible : /\ ManagersOf(group, UniqueRows(visible, day)) = group
                                       /\ rows[i].employee \in group
<1> DEFINE edges == UniqueRows(visible, day)
           e == rows[i].employee
           m == rows[i].manager
           group == Found(m, edges)
<1>1. edges \in SUBSET DOMAIN rows /\ \A j \in edges : rows[j].manager \in visible
  BY DEF UniqueRows, NonSelf, Raw
<1>2. i \in edges /\ e \in group
  BY DEF Shown, HasPath
<1>3. e \in Employees /\ m \in Employees
  BY <1>1, <1>2 DEF TableInv
<1> HIDE DEF edges, e, m
<1>4. IsClosed(group, edges) /\ group \in SUBSET Employees
  BY <1>1, <1>3, FoundIsClosed
<1>5. m \in ManagersOf(group, edges)
  BY <1>2 DEF ManagersOf, e, m
<1>6. group \subseteq ManagersOf(group, edges)
  <2>1. IsClosed(ManagersOf(group, edges), edges)
    BY <1>4 DEF IsClosed, ManagersOf
  <2> QED BY <1>1, <1>3, <1>5, <2>1, FoundIsLeast
<1>7. ManagersOf(group, edges) = group
  BY <1>4, <1>6 DEF IsClosed
<1>8. group \subseteq visible
  BY <1>1, <1>7 DEF ManagersOf
<1> HIDE DEF group
<1>9. \E g \in SUBSET visible : ManagersOf(g, edges) = g /\ e \in g
  BY <1>2, <1>7, <1>8
<1> QED BY <1>9 DEF edges, e

\* Whatever the writers leave in the table, findAll shows a forest of visible employees, and
\* leaves an unambiguous row out only for a circle (sanitizeRelationships).
THEOREM ShownIsAForest == Spec => []ShownIsForest
<1>1. ReportingInv => ShownIsForest
  <2> SUFFICES ASSUME TableInv, NEW visible \in SUBSET hired, NEW day \in Days
               PROVE  LET edges == UniqueRows(visible, day)
                          shown == Shown(visible, day)
                          Circles == {group \in SUBSET visible : ManagersOf(group, edges) = group}
                      IN  /\ Acyclic(shown)
                          /\ \A i, j \in shown : rows[i].employee = rows[j].employee => i = j
                          /\ \A i \in edges \ shown : \E group \in Circles : rows[i].employee \in group
    BY DEF ReportingInv, ShownIsForest
  <2>1. Acyclic(Shown(visible, day))
    BY ShownIsAcyclic
  <2>2. \A i, j \in Shown(visible, day) : rows[i].employee = rows[j].employee => i = j
    BY DEF Shown, UniqueRows, NonSelf
  <2>3. \A i \in UniqueRows(visible, day) \ Shown(visible, day) :
          \E group \in {g \in SUBSET visible : ManagersOf(g, UniqueRows(visible, day)) = g} :
            rows[i].employee \in group
    BY HiddenIsOnCircle
  <2> QED BY <2>1, <2>2, <2>3
<1> QED BY <1>1, ReportingInvariance, PTL
=============================================================================
