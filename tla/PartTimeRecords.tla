--------------------------- MODULE PartTimeRecords ---------------------------
(***************************************************************************)
(* Part-time duties (backend/src/part-time-records/part-time-records       *)
(* .service), composed with the approval runtime.                          *)
(*                                                                         *)
(* The runtime enters as SerialApproval: ApprovalRuntime_proofs shows      *)
(* that it behaves so whatever transactions race.  A record and its        *)
(* approval request are created together and share a name here.            *)
(*                                                                         *)
(* Every operation of this service is one READ COMMITTED transaction: it   *)
(* reads, decides, then writes; the writes that follow a read re-check the *)
(* status of the row, not the other rows that were read.                   *)
(***************************************************************************)
EXTENDS Naturals, SerialApproval

CONSTANTS
  Duties,   \* employee, institution, organization and job title of a record
  MaxDay,   \* bound: the last day of the calendar
  Calls,    \* API calls that may be in flight at the same time
  None      \* the SQL NULL

ASSUME PartTimeAssumption ==
  /\ MaxDay \in Nat
  /\ MaxSteps \in Nat \ {0}
  /\ None \notin Duties \cup Applications \cup Nat

Day == 0 .. MaxDay
EndDate == Day \cup {None}

NonTerminal == {"DRAFT", "PENDING", "PENDING_EFFECTIVE", "ACTIVE"}
RecordStatus == NonTerminal \cup {"ABSENT", "REJECTED", "WITHDRAWN", "ENDED"}

RecordRow ==
  [status : RecordStatus, duty : Duties \cup {None}, start : Day, end : EndDate]
CallRecord ==
  [op : {"none", "create", "activate", "end"}, record : Applications \cup {None},
   duty : Duties \cup {None}, start : Day, end : EndDate]

VARIABLES
  record,   \* record[p]: the PartTimeRecord row
  call,     \* call[c]: the transaction in flight and what it goes on
  today,    \* shanghaiBusinessDate
  overlapped  \* history variable: two calls have been in flight at the same time

approvalVars == <<state, size, approved>>
vars == <<record, call, today, state, size, approved, overlapped>>

NoRecord == [status |-> "ABSENT", duty |-> None, start |-> 0, end |-> None]
InFlight(op, p, duty, start, end) ==
  [op |-> op, record |-> p, duty |-> duty, start |-> start, end |-> end]
NoCall == InFlight("none", None, None, 0, None)

Init ==
  /\ AbsInit
  /\ record = [p \in Applications |-> NoRecord]
  /\ call = [c \in Calls |-> NoCall]
  /\ today = 0
  /\ overlapped = FALSE

-----------------------------------------------------------------------------
\* A date is not after an end date; NULL is open-ended.
NotAfter(d, end) == end # None => d <= end

\* Mutant: a record may start on the last day of another.
OverlapsBeyondLastDay(p, duty, start, end) ==
  /\ record[p].status \in NonTerminal
  /\ record[p].duty = duty
  /\ NotAfter(record[p].start, end)
  /\ record[p].end # None => start < record[p].end

\* assertNoOverlap, on the rows of this moment.
Overlaps(p, duty, start, end) ==
  /\ record[p].status \in NonTerminal
  /\ record[p].duty = duty
  /\ NotAfter(record[p].start, end)
  /\ NotAfter(start, record[p].end)

NoOverlap(duty, start, end) == \A p \in Applications : ~Overlaps(p, duty, start, end)

(***************************************************************************)
(* create: the date checks, the reads of the transaction, then the insert  *)
(* of the record together with its approval request.                       *)
(***************************************************************************)
LoadForCreate(c, duty, start, end) ==
  /\ call[c].op = "none"
  /\ NotAfter(start, end)
  /\ start >= today
  /\ NoOverlap(duty, start, end)
  /\ call' = [call EXCEPT ![c] = InFlight("create", None, duty, start, end)]
  /\ UNCHANGED <<record, today, approvalVars>>

Finish(c) == call' = [call EXCEPT ![c] = NoCall]

Create(c, p, n) ==
  /\ call[c].op = "create"
  /\ record' = [record EXCEPT ![p] =
       [status |-> "PENDING", duty |-> call[c].duty,
        start |-> call[c].start, end |-> call[c].end]]
  /\ Submit(p, n)
  /\ Finish(c)
  /\ UNCHANGED today

\* Mutant: the generic process status is written into the record.
ProcessStatusOfOutcome(outcome) ==
  CASE outcome = "pending" -> "PENDING"
    [] outcome = "approved" -> "APPROVED"
    [] outcome = "rejected" -> "REJECTED"
    [] outcome = "returned" -> "DRAFT"
    [] OTHER -> "WITHDRAWN"

\* toPartTimeRecordStatus: what the runtime writes into the record it approves.
StatusOfOutcome(outcome) ==
  CASE outcome = "pending" -> "PENDING"
    [] outcome = "approved" -> "PENDING_EFFECTIVE"
    [] outcome = "rejected" -> "REJECTED"
    [] outcome = "returned" -> "DRAFT"
    [] OTHER -> "WITHDRAWN"

\* Mutant: the decision is not carried over to the record.
DecidesRequestOnly(p) ==
  /\ \/ \E k \in 1 .. size[p] : Approve(p, k)
     \/ \E outcome \in {"rejected", "returned"} : TurnDown(p, outcome)
     \/ WithdrawUndecided(p)
  /\ UNCHANGED <<record, call, today>>

\* A decision of the runtime on the request of p; syncBusinessStatus in its transaction.
DecideApproval(p) ==
  /\ \/ \E k \in 1 .. size[p] : Approve(p, k)
     \/ \E outcome \in {"rejected", "returned"} : TurnDown(p, outcome)
     \/ WithdrawUndecided(p)
  /\ record' = [record EXCEPT ![p].status = StatusOfOutcome(state'[p])]
  /\ UNCHANGED <<call, today>>

\* Mutant: a duty may be activated before its first day.
LoadForEarlyActivate(c, p) ==
  /\ call[c].op = "none"
  /\ record[p].status = "PENDING_EFFECTIVE"
  /\ state[p] = "approved"
  /\ call' = [call EXCEPT ![c] = InFlight("activate", p, None, 0, None)]
  /\ UNCHANGED <<record, today, approvalVars>>

\* activate; a record that is ACTIVE already is returned as it is.
LoadForActivate(c, p) ==
  /\ call[c].op = "none"
  /\ record[p].status = "PENDING_EFFECTIVE"
  /\ state[p] = "approved"
  /\ record[p].start <= today
  /\ call' = [call EXCEPT ![c] = InFlight("activate", p, None, 0, None)]
  /\ UNCHANGED <<record, today, approvalVars>>

Activate(c) ==
  LET p == call[c].record IN
  /\ call[c].op = "activate"
  /\ record[p].status = "PENDING_EFFECTIVE"
  /\ record' = [record EXCEPT ![p].status = "ACTIVE"]
  /\ TakeEffect(p)
  /\ Finish(c)
  /\ UNCHANGED today

\* end; a record that is ENDED already is returned as it is.
LoadForEnd(c, p, end) ==
  /\ call[c].op = "none"
  /\ record[p].status = "ACTIVE"
  /\ end >= record[p].start
  /\ call' = [call EXCEPT ![c] = InFlight("end", p, None, 0, end)]
  /\ UNCHANGED <<record, today, approvalVars>>

End(c) ==
  LET p == call[c].record IN
  /\ call[c].op = "end"
  /\ record[p].status = "ACTIVE"
  /\ record' = [record EXCEPT ![p].status = "ENDED", ![p].end = call[c].end]
  /\ Finish(c)
  /\ UNCHANGED <<today, approvalVars>>

\* A check or a conditional update throws, or the process dies: nothing is kept.
RollBack(c) ==
  /\ call[c].op # "none"
  /\ Finish(c)
  /\ UNCHANGED <<record, today, approvalVars>>

Midnight ==
  /\ today < MaxDay
  /\ today' = today + 1
  /\ UNCHANGED <<record, call, approvalVars>>

CallStep(c) ==
  \/ \E duty \in Duties, start \in Day, end \in EndDate : LoadForCreate(c, duty, start, end)
  \/ \E p \in Applications, n \in 1 .. MaxSteps : Create(c, p, n)
  \/ \E p \in Applications : LoadForActivate(c, p)
  \/ Activate(c)
  \/ \E p \in Applications, end \in Day : LoadForEnd(c, p, end)
  \/ End(c)
  \/ RollBack(c)

Overlap == \E c, d \in Calls : c # d /\ call[c].op # "none" /\ call[d].op # "none"

Next ==
  /\ \/ \E c \in Calls : CallStep(c)
     \/ \E p \in Applications : DecideApproval(p)
     \/ Midnight
  /\ overlapped' = (overlapped \/ Overlap')

Spec == Init /\ [][Next]_vars

-----------------------------------------------------------------------------
(***************************************************************************)
(* Properties                                                              *)
(***************************************************************************)
\* The tables, the calls and the calendar keep their shape.
RowsTypeOK ==
  /\ record \in [Applications -> RecordRow]
  /\ call \in [Calls -> CallRecord]
  /\ today \in Day
  /\ state \in [Applications -> States]
  /\ size \in [Applications -> 1 .. MaxSteps]
  /\ approved \in [Applications -> SUBSET (1 .. MaxSteps)]

\* Every variable keeps its shape.
PartTimeTypeOK == RowsTypeOK /\ overlapped \in BOOLEAN

Covers(p) == {d \in Day : record[p].start <= d /\ NotAfter(d, record[p].end)}

\* Two records of one duty that are not terminal have no day in common.
NonTerminalDisjoint ==
  \A p, q \in Applications :
    /\ p # q
    /\ record[p].status \in NonTerminal /\ record[q].status \in NonTerminal
    /\ record[p].duty = record[q].duty
    => Covers(p) \cap Covers(q) = {}

\* docs/EMPLOYMENT_BUSINESS_RULES.md 7.2 (line 255): the periods of a duty are disjoint,
\* over every sequence of submissions, decisions, activations and ends.  The code compares
\* end points before it inserts; two submissions that both pass before either inserts
\* break this.
SeriallyDisjoint == ~overlapped => NonTerminalDisjoint

\* A duty that was ever in force was unanimously approved and had reached its first
\* day, and its last day is not before its first: activate and end decide this
\* from reads that other calls may have overtaken.
InForceOnlyWhenDue ==
  \A p \in Applications :
    record[p].status \in {"ACTIVE", "ENDED"} =>
      /\ approved[p] = 1 .. size[p]
      /\ record[p].start <= today
      /\ NotAfter(record[p].start, record[p].end)

\* The record and its approval request tell the same story, the end of the duty
\* excepted, of which the request knows nothing.
RecordFollowsApproval ==
  \A p \in Applications :
    CASE state[p] = "absent" -> record[p].status = "ABSENT"
      [] state[p] = "effective" -> record[p].status \in {"ACTIVE", "ENDED"}
      [] OTHER -> record[p].status = StatusOfOutcome(state[p])

\* docs/EMPLOYMENT_BUSINESS_RULES.md 7.3 (line 274): the history of an ended duty is
\* never rewritten, also not by an end or an activation that read it before.
EndedIsHistory ==
  [][\A p \in Applications : record[p].status = "ENDED" => record'[p] = record[p]]_vars

\* What a call in flight relies on stays true until it writes.
PartTimeCallsConsistent ==
  \A c \in Calls :
    LET p == call[c].record IN
    /\ call[c].op = "create" => call[c].duty \in Duties /\ NotAfter(call[c].start, call[c].end)
    /\ call[c].op \in {"activate", "end"} =>
         /\ p \in Applications
         /\ record[p].start <= today
         /\ state[p] \in {"approved", "effective"}
    /\ call[c].op = "end" => call[c].end \in Day /\ record[p].start <= call[c].end

\* Approvals as SerialApproval leaves them.
ApprovedFrom(p) == state[p] \in {"approved", "effective"} => approved[p] = 1 .. size[p]

\* The inductive invariant of the service.
PartTimeInv ==
  /\ RowsTypeOK
  /\ RecordFollowsApproval
  /\ InForceOnlyWhenDue
  /\ PartTimeCallsConsistent
  /\ \A p \in Applications :
       ApprovedFrom(p) /\ NotAfter(record[p].start, record[p].end)
=============================================================================
