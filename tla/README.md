# Verification of HR_System in TLA+

HR_System is a personnel system: a NestJS backend over Prisma and PostgreSQL
(`backend/src`), a React frontend and shared type contracts. This directory models the
part of the backend in which several people and several transactions change the same
rows: approval, part-time duties, employment conversions and changes of department,
approval flows, probation, performance cycles with their Feishu cards, and reporting
lines. `docs/EMPLOYMENT_BUSINESS_RULES.md` ("the rules" below), `docs/DATA_MODEL.md`,
`docs/PROJECT_STATUS.md` and `docs/API.md` state what it promises.

All state is in PostgreSQL. Every operation is an HTTP request that runs reads and one or
more interactive transactions at the default isolation level, READ COMMITTED; there are no
explicit locks, no version columns, no queue and no scheduled job (rules 2.2: effective
dates are confirmed by hand). What protects the data is the `WHERE` clause of each update,
the check that it matched one row, and a few unique indexes. Hence the question every
module asks: *which promises survive when calls interleave between a read and the write
that relies on it, or stop between two transactions?*

## 1. Inventory

| Component | State | Operations that change it | Talks to | What is hard |
|---|---|---|---|---|
| Approval runtime (`employment-approvals/employment-approval-runtime.service.ts`) | `ApprovalRequest`, `ApprovalStep`, the status of the business row | create (inside the owner's transaction), approve, return, reject, withdraw, complete (inside the owner's transaction) | writes conversions and part-time records; called by both of their services; reads flows | request and steps read by two statements; decisions race with each other, with withdrawal and with completion; two tables must agree |
| Approval flow management (`employment-approval-flow-management.service.ts`) | `ApprovalFlowDefinition`, `ApprovalFlowVersion`, `ApprovalNode` | create/update definition, create/update version, publish, archive | the runtime picks the published version | a version is frozen by its status, but updates go by id; publishing archives other definitions |
| Part-time duties (`part-time-records/part-time-records.service.ts`) | `PartTimeRecord` | create, activate, end; the runtime writes decisions into it | runtime | overlap is checked by reading; activation and end depend on the date |
| Employment conversions (`employment-conversions/employment-conversions.service.ts`) | `EmploymentConversion`, `EmploymentPeriod`, `EmployeeAssignment`, `EmploymentRecord` | create, activate; the runtime writes decisions into it | runtime; shares periods and assignments with personnel | everything is read before the transaction; activation may be days late; two conversions of one source |
| Personnel (`employees/employees.service.ts`) | `Employee`, period, assignment, employment record, `ReportingRelationship` | create, update (department, dates, manager), import (likewise) | shares rows with conversions, probation and reporting lines | updates by id; server day against Shanghai day; the walk that keeps managers from running in circles |
| Reporting relationships (`employment/reporting-relationships.service.ts`) | none of its own | list and graph of a business day | reads what personnel writes | ambiguity, visibility and circles in rows that racing writers leave behind |
| Probation (`employment/employment.service.ts`) | `ProbationRecord` and its own `ApprovalRequest`s | update, start evaluation/confirmation, approve, transfer, confirm, return to evaluation, import | employment record; not the runtime | approval rows are changed by code outside the runtime; transfer against approve; dates validated on stale rows |
| Performance (`performance/performance.service.ts`) | cycle, assessment instance, module tasks with assignees, workflow tasks | start/restart/close/archive cycle, add/remove/re-template participants, score, skip, approve/reject a step | Feishu cards call it back; it asks for notifications | an operation is a *chain* of transactions that nothing resumes; several assignees per task; completion is counted |
| Feishu integration (`feishu`, `performance/feishu-*`, `updateFeishuTaskInbox`) | delivery row per executor and cycle, a map of the process, the cards themselves | notify, send and update a card | performance | requests merged into one under way; refused and unanswered calls; restarts |
| Onboarding, employee info approval | offer rows, audit rows | one insert, one reminder | – | – |
| Employment read views, contracts, blacklist, organizations, staffing, analytics | none of their own | queries | – | – |
| Access control, auth, audit, config | roles, users, audit rows | login, permission checks, audit inserts | every service | – |
| Demo data, frontend, shared contracts, Prisma schema | – | – | – | the unique indexes of the migrations are part of the models |

What makes each modelled component correct:

* **runtime** – steps are decided in order, each once, by its approver; request, steps and
  business row always tell one story; nothing takes effect without every approval; a
  withdrawal never erases a decision; a pending request can always be moved by somebody.
* **flows** – at most one published definition, with exactly one published version; a request
  stays bound to the version and nodes it was submitted under; archives are complete.
* **part-time duties** – no two live records of one duty share a day; in force only when
  approved and due.
* **conversions and changes of department** – periods form a chain without gap or overlap,
  continued once by an approved conversion that was due; one active department, on every day;
  an ended period is left by all.
* **probation** – returning and approving leave no dangling approval; a period is confirmed
  once; only the current approver decides; dates in order; what is approved can be confirmed.
* **performance** – a module is completed by all of its scorers and in its turn; a result stays
  what it was made of; nobody is overruled; a completed cycle has nothing left to do; between
  two transactions no participant is lost.
* **Feishu card** – one card per executor and cycle, on which what waits for him is counted.
* **reporting lines** – what is shown is a forest and hides no more than it has to; writers one
  at a time leave one manager per day and close no circle.

`PROJECT.json` lists the hazards behind these, each at its line.

## 2. Modules

| Module | Models | Relation |
|---|---|---|
| `SerialApproval` | the promise of rules 4.2–4.4, atomically: submit, approve the next step, reject, return, withdraw, take effect | the abstract specification |
| `ApprovalRuntime` | the runtime with its tables, reads and conditional updates | implements `SerialApproval` (`Abstract == INSTANCE ... WITH`) |
| `PartTimeRecords` | create, activate, end, decisions, midnight | EXTENDS `SerialApproval` |
| `EmploymentLifecycle` | conversions, and changes of department and of dates, of one employee; midnight of two clocks | EXTENDS `SerialApproval` |
| `ApprovalFlows` | flow definitions and versions, and the binding of requests | on its own |
| `ProbationWorkflow` | the probation of one employment period, its approval requests and its confirmation | on its own |
| `PerformanceWorkflow` | one cycle: participants, module tasks, workflow steps, management | on its own |
| `FeishuInbox` | the summary card of one executor of one cycle | fed by the tasks that `PerformanceWorkflow` opens and closes |
| `ReportingLines` | the primary administrative reporting rows, their writers and what is shown of them | on its own |
| `..._proofs` | theorems | EXTEND their component |
| `MC...` | instances for TLC | EXTEND their component |

**How a call is modelled.** A call in flight is a record `call[c]` (`notification[n]` in
`FeishuInbox`) holding what it has read. A *Load* action does one read (or the reads that one
statement makes) and keeps what later code uses; the *commit* action evaluates the `WHERE`
clause of every write on the rows of that moment and makes all writes of the transaction at
once. `RollBack`, or `Throw`, is everything else: a check that throws, an update that matches
no row, a unique index that refuses, a crash before the commit. Making all writes at the
commit is sound: a row that a write has matched is locked until then, and nothing
uncommitted is visible. Where a statement first waits for such a lock, it re-evaluates its
condition only on the rows it found, which is why `Publish` keeps the versions and
definitions it had `seen`.

The operations of the first six modules are one transaction each: a crash is a roll back.
Those of `PerformanceWorkflow` and `FeishuInbox` are chains, and `Interrupt`, `Fail` and
`Restart` cut them off between any two links.

**ApprovalRuntime.** `request`, `approver`/`decision` and `business` are the three tables.
`LoadRequest` is `getPendingRequest` (and, for withdraw, the applicant check),
`LoadStepsToDecide`/`LoadStepsToWithdraw` the second statement with
`getCurrentPendingStep`, `assertCurrentApprover`, `nextPendingStep`; `ApproveStep`,
`ApproveFinalStep`, `ReturnForRevision`, `Reject`, `Withdraw` and `Activate` are the
transactions' writes. The two `updateMany` calls that must match one row each are the guards
of the commit. `CreateRequest` is `createRequestInTransaction` in its owner's insert.

**PartTimeRecords and EmploymentLifecycle** take approval from `SerialApproval` instead of
repeating the tables: the refinement theorem says that this loses nothing. A business row
and its request are created in one transaction and share a name. `DecideApproval` is any
decision together with what the runtime writes into the row.

In `EmploymentLifecycle` the reads of `create` and `activate` are outside the transaction,
as in the code, and are carried to the commit. `today` is the Shanghai business day that
conversions use; `serverDay` is the server's own day that `employees.service` uses
(`utcCalendarDay(new Date())`), equal to or one behind it: a server in Shanghai and one
on UTC are both covered. `LoadAssignment` and `LoadImported` are the reads of `update` and of
`findCurrentImportEmployment`; `ChangeEmployment` writes what either of them may write: another
department (`ChangeDepartment`), the start of the assignment, the entry date of the period.

**ProbationWorkflow** has its own approval requests, of one step each, that the runtime never
touches. The record is read outside the transaction (`Find...`), the approval inside it
(`Read...`); the batch operations are their single ones here, since a batch holds at most one
open record of a period. An employee may be created with a probation and any employment
status, as in `employees.service`.

**ApprovalFlows** has one business type, since flows of different types share no row, and
an opaque `NodeLists` value in place of node rows.

**PerformanceWorkflow** keeps the rows `cycle`, `instance[p]`, `task[p][m]` (with its
assignees) and `step[p][<<s, a>>]` (attempt `a` at workflow step `s`). The stages of a call
are the transactions of its chain: a score is committed (`CommitScore`), the scores are
counted and the module completed (`CollectScores`), the next module is found (`Advance`),
opened (`OpenModule`) and given its scorers (`ResolveAssignees`), or the assessment ends
(`FinishAssessment`) and its first step is opened (`ReadStep`, `CreateStep`); an action on a
step is committed (`CommitAction`) and its consequences follow in a second transaction
(`CollectApprovals`, `RejectStep`). `Start`, `Measure`, `Add`, `Remove`, `UpdateTemplate`,
`Restart`, `Close` and `Archive` are the management. `edition` stands for the ids of the
tasks that a change of template deletes: a call that read the old ones finds none.

**FeishuInbox** sees a task as opened, waiting or gone, and a card as the set of tasks it
counts. `Notify` is `notifyFeishuTaskInbox` with its map of notifications under way, and the
stages of a notification are the statements of `updateFeishuTaskInbox`. `SendCard` and
`UpdateCard` tell whether the call *arrives* at Feishu and whether it is *answered*.

**ReportingLines** is a table of rows over a calendar. `StartUpdate` and `StartImport` begin a
request; `WalkUp` reads one manager after the other, `FindCurrent` the row to end or change,
`WriteUpdate` and `WriteImport` write it by id. `Shown` is the pipeline of `findAll`:
visible rows, no row to oneself, no employee with several rows, no row of a circle.

## 3. Runs

| Run | Instance | States | Shows |
|---|---|---|---|
| `runtime` | 2 users, one request of up to 3 steps, 2 racing calls, of a conversion or a part-time record | 68 000 | the properties of the runtime, and refinement of `SerialApproval` |
| `parttime` | 2 records of one duty, 3 days, 2 steps, 2 calls | 1 046 000 | in force only when due, record follows request; serially no shared day |
| `lifecycle` | 2 conversions, 2 periods, 3 assignments, 4 days, one of them corrected to, 2 calls | 1 287 000 | the chain of periods; serially one active department, one per day unless dates are written over, and nobody in an ended period |
| `flows` | 2 definitions of 2 versions, 2 calls | 468 000 | one usable published version, bound versions are never drafts; serially complete archives and kept nodes |
| `probation` | 2 records, 2 requests, 2 users, 2 days, 2 calls | 906 000 | record, request and step agree, a period is confirmed once; serially also dates and approver |
| `probation_stuck` (violation) | same | – | the probation of an employee created as REGULAR is approved and can never be confirmed |
| `performance` | 2 participants, 2 executors, 2 calls, cards, one interruption, one request of the managers | 690 000 | scored by all, one module at a time, frozen results; undisturbed also: nobody overruled or lost, completed cycles are done |
| `performance_live` | 1 participant, 2 modules of 2 scorers, 2 calls, fairness | 15 000 | the last score completes its module; an opened module gets its scorers |
| `performance_returned_stuck` (violation) | 1 participant, 2 steps, 2 attempts, 1 call | – | a step reached a second time stops the workflow |
| `feishu_inbox` | 3 tasks, 2 notifications, 2 messages, fairness | 305 000 | one card plus the lost ones; what keeps waiting gets onto it |
| `feishu_inbox_merged` (violation) | same | – | a request merged into a notification that has read the tasks is forgotten |
| `reporting` | 3 employees, 2 days, 4 rows, 2 calls | 721 000 | what is shown is a forest and hides no more than it has to; serially one manager a day and no circle |

**What the history variables mean.** Some promises hold one call at a time and not under
concurrency, because the code checks by reading. One run explores both: `overlapped` turns
true when two calls are in flight at the same time, and a property that needs the serial
order says `~overlapped =>`. It thus covers every sequence of legal calls of any length, while
the properties without it hold under all interleavings. The other history variables mark what
is excused likewise: `disturbed` (in performance: a chain was cut off, tasks under way were
reset by the managers, or a card scored a closed module; in the inbox: Feishu refused or the
server was cut off), `merged` (the finding below), `misdated` (in reporting lines: a row that
starts on another day than today; in the lifecycle: an entry date or the start of an assignment
was written over, or an import ended a department before it began) and `edited` (an update has set a manager; `docs/PROJECT_STATUS.md`
line 652 lists the check for circles there as still to do).

**Bounds.** Two racing calls produce every race here, since each commit depends on its own
earlier reads and on the rows of the moment; a third call adds longer sequences, not another
kind of overtaking. Requests of the runtime share no row, so one suffices; three steps give a
first, a middle and a last one. One duty, because records of different duties never meet. Two
conversions of one source are the smallest race for it; only INTERN (or labor worker) periods
can be sources, so a chain has at most two periods. Three assignments are the first one, one
for a change of department and one for an activation, in either order, or two changes. Days:
one before, one at and one after each effective date; dates are corrected to one of them, which
is before or after, or at, those it is compared with. In a probation three dates are only compared with each other, in pairs,
so two days give every order; the second request is the round after a return, the second
record the one an import opens after a confirmation. In a cycle one participant has a metric,
a module of two scorers, an optional module and a step of two reviewers, the other one the
shortest assessment there is, so that cycles end by either of them. Two messages suffice for
the card, because the second one is already the violation of `OneCard` unless one was lost.
Three employees close circles of two and of three; two days give a row to come and a row past.

`MaxSteps`, `MaxDay`, `MaxPeriods`, `MaxAssignments`, `MaxVersions`, `MaxExtensions`,
`MaxAttempts`, `MaxManaged`, `LastDay`, `MaxRows` and the sets `Messages` and `Corrections` are bounds, each a
guard or the range of a name. Two more are in guards of their own: a cycle is interrupted once
(`Interrupt`), and a removed participant is not added again (`LoadAdd`).

**Fairness.** `PerformanceWorkflow!FairSpec` and `FeishuInbox!FairSpec` assume weak fairness of
the server's own steps: a chain that was begun goes on, unless it is interrupted. This is what
the Node process does with a pending promise. Nothing is assumed of users, managers or Feishu:
a chain that is cut off stays so, since nothing resumes it, and the liveness properties say
"or `disturbed`". The other modules claim no liveness: nothing in their code moves a row by
itself, a person has to call. What remains of progress there is stated as safety:
`PendingHasOpenStep`, `PublishedIsUsable`. Deadlock is not checked, because the system
really may stop when every bounded row is in a final state.

## 4. Proofs

TLC checks small instances; the theorems below are for every value of the constants, under
the named assumptions in the modules (bounds are naturals, `None` is no id, sets that are
counted are finite).

* `ApprovalRuntime_proofs`: `Invariance` shows `Spec => []RuntimeInv`. The named safety
  properties are not inductive alone: a commit acts on what its call read, so one has to
  know that a call's `current` is never ahead of the row, and that an approval's `next` is
  right whenever the row has not moved (`CallsConsistent`). Around it come the agreement of
  request and business row, the serial shape of the decisions with the statuses that belong
  to the current one, and `ApprovedAtLastStep`. There is one lemma per action; the closing
  ones (reject, return) share `ClosingPreserves`. From the invariant follow `Typing`,
  `BusinessAgreement`, `Serial`, `WithdrawalErasesNothing`, `EffectiveUnanimous`, `OpenStep`,
  and as action properties `FinalDecisions` and `ClosedIsFinal`.
* `ApprovalRuntime_proofs` also holds `RuntimeImplementsSerialApproval`, which shows
  `Spec => Abstract!AbsSpec`: one lemma per commit maps it to its abstract step; reads and
  roll backs stutter. The mapping reads the state off the *business* row and the approvals
  off the steps, so the theorem also says that the two tables never part.
* `PartTimeRecords_proofs`: `PartTimeInvariance` with `PartTimeCallsConsistent` (what a call
  has read of approval and date stays true until it writes), and from it `DutyInForce`,
  `RecordAgreement`, `EndedFinal` and `PartTimeTyping`. `PeriodsDisjoint` is the serial
  promise: its invariant `SerialInv` adds that the dates a submission has compared are still
  free when it inserts, which is what a second call in flight destroys.
* `FeishuInbox_proofs`: `InboxIsCounted` shows an invariant that counts: every card that was
  sent is stored in the row, carried by the notification that has just sent it, or lost.
  `OneInFlight` (what the map of the process achieves) and `StagesMatch` (on the way to a
  first card the row has no message) make it inductive; `OneCardSent` and `InboxTyped` follow.
* `ApprovalFlows_proofs`: the updates of flows carry no condition, so nothing is inductive by
  itself. `FlowInvariance` separates what stays true of the rows a call has read whoever
  writes in between (`Carried`: a version seen published is never a draft again) from what is
  true only while no other call is in flight (`Fresh`: the list of prior definitions, the
  nodes). `NewRequestFindsFlow` and the first half of `BindingsKept` need only the former and
  hold in every race; `VersionsFollowDefinition` needs the latter.
* `ProbationWorkflow_proofs`: the same split. That a request is not left dangling rests on
  the three conditional updates of a decision together with the uniqueness of the open
  request: one lemma, `DecideKeeps`, serves approval and return. `PeriodConfirmedOnce` needs no
  more than the conditional update of the period. `DatesStayInOrder` and the second half of
  `ApproverDecides` are serial promises, since the updates do not check the dates and the
  approver again.
* `EmploymentLifecycle_proofs`: `PeriodsFormChain` and `ConversionsEndPeriods` hold for any
  races because the update of the current record is conditional on the source: an activation
  that read an ended source finds another period current. `ConversionFollowsApproval` and
  `OneOpenConversion` (the partial unique index) make them inductive. `DaysHaveOneDepartment`
  needs `CurrentDepartment` (the only active assignment is in the current period), which
  corrections of dates leave alone, and as long as there are none `LatestDepartment`: it starts
  after all others ended, and no later than the server's day unless it began with its period -
  which is why two clocks that differ do no harm here.
* `PerformanceWorkflow_proofs`: `PerformanceInvariance` for any participants, executors and
  templates. `ScoredByAll` is not inductive alone: a chain about to commit a score acts on
  what it carries, so `Grounded` says that the module, the step, the scorer and the reviewer it
  carries are those of the participant's template, and that the module a chain goes on with is
  another one than it scored. `PerformanceTyped` and `CompletedModulesAreScored` follow.
  `ModulesAreScoredInOrder` and `CompletedAssessmentIsFrozen` need `SeriesInv` besides: what a
  chain has read of the modules before its own (`Abreast`) stays true or is harmless, since
  tasks are only completed in order (`InOrder`). `Advances` lists what any step may do to the
  modules of a participant; each action is shown to be one of these, and each of these to keep
  `InOrder`.
  Three more theorems are about calls that come one at a time. `AloneInv` says that one record
  is then all there is of a call in flight (`OneCallSteps` is the case split that follows), and
  the `...Does` lemmas state once what each stage does to the rows of its participant.
  On them stand three invariants, one for each promise, that relate that record to the rows:
  `ReviewInv` (a step that carries a rejection is the one the call is about to cancel) for
  `StepsAreApprovedByAll`; `TrackInv` (a call only works for instances in progress, and an
  instance in progress means a cycle in progress) for `CompletedCyclesAreDone`, which therefore
  also holds after interruptions and restarts; and `WaitInv` for `EveryoneWaits`: a participant
  in progress waits, or the call has still to open something for it, and `Job` says for each
  stage where it finds its participant, so that none of its conditional updates can fail. A
  return is the exception `Waits` grants, and `MCPerformanceReturned` shows why. TLC checked the
  three on the instances of the runs, and on wider ones with one call, before they were proved.
* `ReportingLines_proofs`: `ReportingInvariance` keeps, beside the shape of the table, two
  things a request relies on when it writes some steps after it has read: nobody has written
  about its employee since (`Settled`), and the way up it has walked is closed upwards and
  free of the employee (`Climbs`). `LinesAreInOrder` and `ReportingTyped` follow.
  `ShownIsAForest` needs no more of the writers than the shape of the table; it is about the
  search of `hasPath`. `WayUpExists` shows that its recursion has a value, so that
  `FoundIsClosed` and `FoundIsLeast` can say what it finds: the least set with the employee
  that holds the managers of its members. A circle in what is shown would have been found and hidden
  (`ShownIsAcyclic`), and what is found above a hidden row is a set of its own managers (`HiddenIsOnCircle`).

Only model-checked: the liveness properties and the violations. Liveness under fairness is out
of the prover's reach. Every invariant and every action property of a passing run is stated by
a theorem.

## 5. What the checks found

* **Approved and stuck** (`probation_stuck`). Confirmation requires a period in PROBATION,
  but an employee may be created as REGULAR with a probation - the example of `docs/API.md`
  202 and 209 and the defaults of the form - and nothing sets a period back. Evaluation and
  approval run their course, and the confirmation that `PROJECT_STATUS.md` line 330 promises
  fails for ever.
* **Returned and stuck** (`performance_returned_stuck`). `completeWorkflowTask` opens the next
  step always as attempt 1. After a return to an earlier step that task exists already: the
  insert violates the unique index after `currentWorkflowOrder` was committed, the step has no
  task in progress and the workflow cannot go on (`PROJECT_STATUS.md` line 13 promises returns).
* **Merged and forgotten** (`feishu_inbox_merged`). A notification asked for while another one
  is under way is merged into it, also when that one has read the tasks already; the new task
  is on no card, though `docs/API.md` line 411 says the card shows what waits.

What fails when calls overlap, and is therefore excused by `overlapped`; removing the
antecedent from the property shows the trace:

* two submissions of a duty both pass `assertNoOverlap` (`SeriallyDisjoint`; rules line 255);
* two changes of department each end the assignment they read and each add an active one
  (`OneDepartmentPerDay`); a change of department, or a submission, lands in a period that an
  activation has ended (`EndedPeriodIsLeft`);
* nodes are replaced after a publish (`BoundVersionsKept`); publish undoes an archive
  (`ArchivedTogether`);
* two updates of one date of a probation each cross (`DatesInOrder`); an approver who has just
  transferred a step still approves it (`DecidedByApprover`);
* of two reviewers one rejects and the other one's approval completes the step
  (`NobodyOverruled`); a participant is added while the last one completes the cycle
  (`CompletedCycleIsDone`);
* two imports put two employees under each other (`LinesInOrder`).

Further observations without a property of their own: on a server west of Shanghai an import,
which unlike `update` does not ask whether the period has begun, may end a department on the
day before it began and leave that day with two (`misdated` excuses it; rules line 212); a
returned conversion or duty stays
DRAFT, which counts as open, so that the new application of rules line 140 is refused;
`restartCycle` resets its participants and then always fails; `archiveCycle` writes back the status it
has read. The hazards in `PROJECT.json` name their lines.

## 6. Abstractions

* Lookups of employees, organizations, job titles, managers and approvers are assumed to
  succeed; failing ones roll back (in a performance chain: `Interrupt`). Approver resolution
  gives one active user per step, which is what the runtime insists on. Permissions and data
  scope only restrict who may call.
* Audit rows, names, reasons, workplaces and presentation are left out.
* A change of department records no organization in the model: it always goes to another
  one, which is what the code requires. `Employee.organizationId`, a mirror of the active
  assignment, is not modelled. LABOR_WORKER sources behave as INTERN ones.
* `markPendingEffective` and the public `createRequest`/`completeEffective` of the runtime
  have no caller in the backend and are left out.
* Times of day are abstracted to days, except that the two clocks turn separately.
* Performance: only enabled modules and steps; all versions of a participant's template have
  the same shape; scores, weights, amounts and metrics are not computed; the count of
  scores or approvals is put together with the transaction that follows it, because neither
  is ever taken back.
* Feishu: one backend process, as deployed (the map that merges requests is its own).

## 7. Not modelled

* **Frontend and shared contracts** (about half of the repository's lines): components, pages
  and types. They issue the API calls that the models issue in any order and keep no state the
  backend relies on.
* **Read views, presenters, analytics, staffing, organizations, employee lists and exports**:
  queries; they change nothing.
* **The template editor and parser** of performance beyond what `PerformanceAssumption` states of
  a valid definition; score arithmetic, results and their revisions, data adapters, imports.
* **Access control, auth, audit, config, demo data**: predicates and inserts without later
  transitions.
* **Keywords and pages** of the reporting list; the fields of employee updates and imports other
  than department, dates and manager.

The modelled part is the share of the code that several actors change together; most of the
repository's lines are of the kinds above, so a large share of them stays outside by nature.
