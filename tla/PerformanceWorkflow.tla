------------------------- MODULE PerformanceWorkflow -------------------------
(***************************************************************************)
(* One performance cycle: its participants, the scoring of their modules,  *)
(* the review steps that follow, and the management of the cycle           *)
(* (backend/src/performance/performance.service).                          *)
(*                                                                         *)
(* An operation is a chain of transactions: a score is committed first,    *)
(* the module is completed in a second transaction, the next one is opened *)
(* in a third, its scorers are assigned in a fourth.  Nothing resumes a    *)
(* chain that stops on the way.  call[c] is the chain of one API call and  *)
(* what it has read; modules and steps are numbered from 1, 0 is NULL.     *)
(*                                                                         *)
(* Only enabled modules are modelled (every query of the code filters the  *)
(* others out), every version of a template has the same modules and       *)
(* steps, and scores, results and notifications are left out.              *)
(***************************************************************************)
EXTENDS Naturals, Sequences, FiniteSets

CONSTANTS
  Participants,  \* employees that may take part
  Executors,     \* employees that score and review
  Template,      \* Template[p]: the definition p is assessed by
  Calls,         \* API calls that may be in flight at the same time
  CardsEnabled,  \* scores also come from interactive Feishu cards
  MaxAttempts,   \* bound: tasks of one workflow step
  MaxManaged,    \* bound: requests of the managers after the cycle was made and started
  None           \* no participant, no executor

ModuleDefinition ==
  [kind : {"METRIC", "EVALUATION", "ADJUSTMENT"}, scorers : SUBSET Executors, optional : BOOLEAN]

\* target is the step a rejection returns to, 0 when it ends the workflow.
StepDefinition == [reviewers : SUBSET Executors, rejectable : BOOLEAN, target : Nat]

\* What assertValidDefinition grants: no manual module and no step without an executor,
\* at least one module, and rejections that return to an earlier step.
ASSUME PerformanceAssumption ==
  /\ MaxAttempts \in Nat \ {0}
  /\ MaxManaged \in Nat
  /\ CardsEnabled \in BOOLEAN
  /\ None \notin Participants \cup Executors
  /\ \A p \in Participants :
       /\ Template[p].modules \in Seq(ModuleDefinition)
       /\ Template[p].steps \in Seq(StepDefinition)
       /\ Template[p].modules # <<>>
       /\ \A m \in DOMAIN Template[p].modules :
            (Template[p].modules[m].kind = "METRIC") <=> (Template[p].modules[m].scorers = {})
       /\ \A s \in DOMAIN Template[p].steps :
            /\ Template[p].steps[s].reviewers # {}
            /\ Template[p].steps[s].target < s

Modules(p) == DOMAIN Template[p].modules
Steps(p) == DOMAIN Template[p].steps
Scorers(p, m) == Template[p].modules[m].scorers
Reviewers(p, s) == Template[p].steps[s].reviewers
Manual(p) == {m \in Modules(p) : Template[p].modules[m].kind # "METRIC"}
Metric(p) == Modules(p) \ Manual(p)
First(S) == CHOOSE m \in S : \A n \in S : m <= n
FirstOrNull(S) == IF S = {} THEN 0 ELSE First(S)

ProcessStatus == {"DRAFT", "IN_PROGRESS", "COMPLETED", "REJECTED", "CANCELLED"}
Disturbance ==
  {"interrupt",   \* a chain of transactions was cut off
   "management",  \* tasks under way were reset
   "late card"}   \* a card has scored a module that was not open any more
TaskStatus == {"PENDING", "IN_PROGRESS", "COMPLETED", "CANCELLED"}
InstanceRow ==
  [status : ProcessStatus \cup {"ABSENT", "REMOVED"},
   assessment : {"DRAFT", "IN_PROGRESS", "COMPLETED"},
   module : Nat, step : Nat, edition : Nat]

\* A PerformanceModuleTask with its assignees: assigned once they exist, scored has
\* those that have submitted.
TaskRow == [status : TaskStatus, assigned : BOOLEAN, scored : SUBSET Executors, skipped : BOOLEAN]

\* A PerformanceWorkflowTask; dropped when the assignees still open were cancelled.
StepRow ==
  [status : TaskStatus \cup {"ABSENT"}, approved : SUBSET Executors,
   rejected : SUBSET Executors, dropped : BOOLEAN]

Stage ==
  {"idle", "starting", "measuring", "advancing", "opening", "resolving", "finishing",
   "scoring", "skipping", "scored", "acting", "acted", "stepping", "creating",
   "adding", "templating", "restarting", "archiving"}
CallRecord ==
  [at : Stage, p : Participants \cup {None}, n : Nat, next : Nat, who : Executors \cup {None},
   approve : BOOLEAN, read : ProcessStatus, todo : SUBSET Participants,
   seen : [Participants -> Nat]]

VARIABLES
  cycle,       \* the PerformanceCycle row
  instance,    \* instance[p]: the PerformanceInstance row
  task,        \* task[p][m]: the PerformanceModuleTask row
  step,        \* step[p][<<s, a>>]: the PerformanceWorkflowTask row of attempt a at s
  call,        \* call[c]: the call in flight
  managed,     \* the requests of the managers so far, start apart
  overlapped,  \* history variable: two calls have been in flight at the same time
  disturbed    \* history variable: what else has come in between

rows == <<cycle, instance, task, step>>
vars == <<cycle, instance, task, step, call, managed, overlapped, disturbed>>

NewTask == [status |-> "PENDING", assigned |-> FALSE, scored |-> {}, skipped |-> FALSE]
NewTasks(p) == [m \in Modules(p) |-> NewTask]
NoStep == [status |-> "ABSENT", approved |-> {}, rejected |-> {}, dropped |-> FALSE]
Attempts(p) == Steps(p) \X (1 .. MaxAttempts)
Idle ==
  [at |-> "idle", p |-> None, n |-> 0, next |-> 0, who |-> None, approve |-> FALSE,
   read |-> "DRAFT", todo |-> {}, seen |-> [p \in Participants |-> 0]]

Member(p) == instance[p].status \notin {"ABSENT", "REMOVED"}
Members == {p \in Participants : Member(p)}

\* createCycle, with a template
Init ==
  /\ cycle = [status |-> "DRAFT", archived |-> FALSE]
  /\ \E members \in SUBSET Participants :
       instance = [p \in Participants |->
         [status |-> IF p \in members THEN "DRAFT" ELSE "ABSENT", assessment |-> "DRAFT",
          module |-> 0, step |-> 0, edition |-> 0]]
  /\ task = [p \in Participants |-> NewTasks(p)]
  /\ step = [p \in Participants |-> [sa \in Attempts(p) |-> NoStep]]
  /\ call = [c \in Calls |-> Idle]
  /\ managed = 0
  /\ overlapped = FALSE
  /\ disturbed = {}

-----------------------------------------------------------------------------
(***************************************************************************)
(* The life of a call.                                                     *)
(***************************************************************************)
Overlap(c) == overlapped \/ \E d \in Calls \ {c} : call[d].at # "idle"

\* A call comes in, reads and passes the checks made outside its transactions.
BeginWith(c, known, disturbance) ==
  /\ call[c].at = "idle"
  /\ call' = [call EXCEPT ![c] =
       [known EXCEPT !.seen = [p \in Participants |-> instance[p].edition]]]
  /\ overlapped' = Overlap(c)
  /\ disturbed' = disturbed \cup disturbance
  /\ UNCHANGED rows

Begin(c, known) == BeginWith(c, known, {})

BeginRequest(c, known) == Begin(c, known) /\ UNCHANGED managed

Managing == managed < MaxManaged /\ managed' = managed + 1

BeginManaging(c, known) == Managing /\ Begin(c, known)

Continue(c, known) ==
  /\ call' = [call EXCEPT ![c] = known]
  /\ UNCHANGED <<managed, overlapped, disturbed>>

\* The participant is dealt with; a start goes on with the next one.
NextStage(c) == IF call[c].todo = {} THEN Idle ELSE [call[c] EXCEPT !.at = "measuring"]

\* A condition of the step fails: nothing is written and the call ends with an error.
Throw(c) == Continue(c, Idle) /\ UNCHANGED rows

\* The rows of p that the call has read are still there.
Known(c, p) == Member(p) /\ instance[p].edition = call[c].seen[p]

\* The process stops, or the step cannot be made: an executor is not found, an amount
\* base or a metric is missing.  What was committed before stays.
Interrupt(c) ==
  /\ call[c].at # "idle"
  /\ "interrupt" \notin disturbed  \* bound: once
  /\ call' = [call EXCEPT ![c] = Idle]
  /\ disturbed' = disturbed \cup {"interrupt"}
  /\ UNCHANGED <<rows, managed, overlapped>>

-----------------------------------------------------------------------------
(***************************************************************************)
(* Scoring a module.                                                       *)
(***************************************************************************)
\* Mutant: the search for the next task starts at the task itself.
NextTaskFrom(p, m) ==
  FirstOrNull({n \in Manual(p) : n >= m /\ task[p][n].status # "CANCELLED"})

\* The task completeTask opens next, found among the tasks as they were read.
NextTask(p, m) ==
  FirstOrNull({n \in Manual(p) : n > m /\ task[p][n].status # "CANCELLED"})

Scoring(at, p, m, who) ==
  [Idle EXCEPT !.at = at, !.p = p, !.n = m, !.who = who, !.next = NextTask(p, m)]

OpenToScorer(p, m, who) ==
  /\ Member(p)
  /\ task[p][m].assigned
  /\ who \in Scorers(p, m) \ task[p][m].scored
  /\ task[p][m].status = "IN_PROGRESS"
  /\ instance[p].module = m
  /\ instance[p].assessment # "COMPLETED"

\* submitTask and submitTaskForEmployee
LoadScore(c, p, m, who) ==
  /\ OpenToScorer(p, m, who)
  /\ BeginRequest(c, Scoring("scoring", p, m, who))

\* The same without a value, for an optional adjustment: it skips the module.
LoadSkip(c, p, m, who) ==
  /\ OpenToScorer(p, m, who)
  /\ Template[p].modules[m].kind = "ADJUSTMENT"
  /\ Template[p].modules[m].optional
  /\ BeginRequest(c, Scoring("skipping", p, m, who))

\* submitAssessmentCardAction: a card asks for the assignee only.
LoadCardScore(c, p, m, who) ==
  /\ CardsEnabled
  /\ Member(p)
  /\ task[p][m].assigned
  /\ who \in Scorers(p, m) \ task[p][m].scored
  /\ BeginWith(c, Scoring("scoring", p, m, who),
       IF OpenToScorer(p, m, who) THEN {} ELSE {"late card"})
  /\ UNCHANGED managed

\* The first transaction of submitAssigneeScore and submitAssessmentAssigneeScore
CommitScore(c) ==
  LET p == call[c].p
      m == call[c].n
  IN  /\ call[c].at = "scoring"
      /\ IF Known(c, p) /\ call[c].who \notin task[p][m].scored
         THEN /\ task' = [task EXCEPT ![p][m].scored = @ \cup {call[c].who}]
              /\ Continue(c, [call[c] EXCEPT !.at = "scored"])
              /\ UNCHANGED <<cycle, instance, step>>
         ELSE Throw(c)

\* completeTask: the conditional updates of the next task and of the instance must
\* both find their row, or all is rolled back.
CompleteTask(c) ==
  LET p == call[c].p
      m == call[c].n
      next == call[c].next
  IN  IF /\ Known(c, p)
         /\ next = 0 \/ task[p][next].status = "PENDING"
         /\ instance[p].module = m
      THEN /\ task' = [task EXCEPT ![p] = [n \in Modules(p) |->
                CASE n = m -> [@[m] EXCEPT !.status = "COMPLETED",
                                           !.skipped = (call[c].at = "skipping")]
                  [] n = next -> [@[n] EXCEPT !.status = "IN_PROGRESS"]
                  [] OTHER -> @[n]]]
           /\ instance' = [instance EXCEPT ![p].module = next]
           /\ Continue(c, [call[c] EXCEPT !.at = "advancing"])
           /\ UNCHANGED <<cycle, step>>
      ELSE Throw(c)

\* Mutant: the module is completed by its first score.
CollectFirstScore(c) == call[c].at = "scored" /\ CompleteTask(c)

\* The rest of submitAssigneeScore: the scores are read again and the last scorer
\* completes the module.  Scores are never taken back, so the read may be put
\* together with the transaction that follows it.
CollectScores(c) ==
  LET p == call[c].p
  IN  /\ call[c].at = "scored"
      /\ IF Known(c, p) /\ task[p][call[c].n].scored = Scorers(p, call[c].n)
         THEN CompleteTask(c)
         ELSE Continue(c, Idle) /\ UNCHANGED rows

SkipModule(c) == call[c].at = "skipping" /\ CompleteTask(c)

-----------------------------------------------------------------------------
(***************************************************************************)
(* advanceAssessment: the next module is opened, or the assessment ends.   *)
(***************************************************************************)
\* Mutant: the scorers are resolved only for a module this call has opened itself.
AdvancePending(c) ==
  LET p == call[c].p
      pending == {m \in Manual(p) : task[p][m].status = "PENDING"}
      open == {m \in Manual(p) : task[p][m].status = "IN_PROGRESS"}
  IN  /\ call[c].at = "advancing"
      /\ UNCHANGED rows
      /\ Continue(c,
           IF ~Member(p) \/ instance[p].assessment = "COMPLETED" \/ open # {} THEN NextStage(c)
           ELSE IF pending # {}
             THEN [call[c] EXCEPT !.n = First(pending), !.at = "opening"]
           ELSE [call[c] EXCEPT !.at = "finishing"])

Advance(c) ==
  LET p == call[c].p
      open == {m \in Manual(p) : task[p][m].status \notin {"COMPLETED", "CANCELLED"}}
      first == First(open)
  IN  /\ call[c].at = "advancing"
      /\ UNCHANGED rows
      /\ Continue(c,
           IF ~Member(p) \/ instance[p].assessment = "COMPLETED" THEN NextStage(c)
           ELSE IF open # {} THEN
             [call[c] EXCEPT !.n = first, !.seen[p] = instance[p].edition,
                !.at = IF task[p][first].status = "PENDING" THEN "opening" ELSE "resolving"]
           ELSE IF \A m \in Modules(p) : task[p][m].status = "COMPLETED"
             THEN [call[c] EXCEPT !.at = "finishing"]
           ELSE Idle)

OpenModule(c) ==
  LET p == call[c].p
      m == call[c].n
  IN  /\ call[c].at = "opening"
      /\ IF Known(c, p) /\ task[p][m].status = "PENDING"
         THEN /\ task' = [task EXCEPT ![p][m].status = "IN_PROGRESS"]
              /\ instance' = [instance EXCEPT ![p].module = m, ![p].assessment = "IN_PROGRESS"]
              /\ Continue(c, [call[c] EXCEPT !.at = "resolving"])
              /\ UNCHANGED <<cycle, step>>
         ELSE Throw(c)

\* openManualTask: resolveTaskAssignees creates the assignees that are missing.
ResolveAssignees(c) ==
  LET p == call[c].p
      m == call[c].n
  IN  /\ call[c].at = "resolving"
      /\ IF Known(c, p)
         THEN /\ task' = [task EXCEPT ![p][m].assigned = TRUE]
              /\ Continue(c, NextStage(c))
              /\ UNCHANGED <<cycle, instance, step>>
         ELSE Throw(c)

\* Mutant: the other instances are not looked at.
CloseCycleAlways(p) == [cycle EXCEPT !.status = "COMPLETED"]

\* The participant has nothing left to do: so may have the cycle, unless another
\* instance is neither completed nor cancelled.
CloseCycleAfter(p) ==
  IF \A q \in Members \ {p} : instance[q].status \in {"COMPLETED", "CANCELLED"}
  THEN [cycle EXCEPT !.status = "COMPLETED"]
  ELSE cycle

FinishAssessment(c) ==
  LET p == call[c].p
  IN  /\ call[c].at = "finishing"
      /\ IF Member(p)
         THEN /\ instance' = [instance EXCEPT
                   ![p].module = 0, ![p].assessment = "COMPLETED",
                   ![p].status = IF Steps(p) = {} THEN "COMPLETED" ELSE "IN_PROGRESS"]
              /\ cycle' = IF Steps(p) = {} THEN CloseCycleAfter(p) ELSE cycle
              /\ Continue(c, IF Steps(p) = {} THEN NextStage(c)
                             ELSE [call[c] EXCEPT !.at = "stepping", !.n = 1, !.next = 1])
              /\ UNCHANGED <<task, step>>
         ELSE Throw(c)

-----------------------------------------------------------------------------
(***************************************************************************)
(* The workflow after the assessment.  In these stages n is the step and   *)
(* next its attempt, 0 when it is to be counted.                           *)
(***************************************************************************)
\* openWorkflowStep reads the instance and the task it is about to create; after a
\* rejection its caller has first counted the tasks of the step.
ReadStep(c) ==
  LET p == call[c].p
      s == call[c].n
      made == {a \in 1 .. MaxAttempts : step[p][<<s, a>>].status # "ABSENT"}
      a == IF call[c].next = 0 THEN Cardinality(made) + 1 ELSE call[c].next
  IN  /\ call[c].at = "stepping"
      /\ UNCHANGED rows
      /\ Continue(c,
           IF \/ ~Member(p)
              \/ instance[p].assessment # "COMPLETED"
              \/ a \in made /\ step[p][<<s, a>>].status = "IN_PROGRESS"
           THEN NextStage(c)
           ELSE [call[c] EXCEPT !.at = "creating", !.next = a])

\* (instance, step, attempt) is unique: a second task for it is refused.
CreateStep(c) ==
  LET p == call[c].p
      sa == <<call[c].n, call[c].next>>
  IN  /\ call[c].at = "creating"
      /\ IF Member(p) /\ step[p][sa].status = "ABSENT"
         THEN /\ step' = [step EXCEPT ![p][sa].status = "IN_PROGRESS"]
              /\ instance' = [instance EXCEPT ![p].step = call[c].n, ![p].status = "IN_PROGRESS"]
              /\ Continue(c, NextStage(c))
              /\ UNCHANGED <<cycle, task>>
         ELSE Throw(c)

Handled(row) == row.approved \cup row.rejected

\* submitWorkflowTask and submitWorkflowCardAction, with the checks that open
\* performWorkflowAction.
LoadAction(c, p, sa, who, approve) ==
  /\ Member(p)
  /\ step[p][sa].status = "IN_PROGRESS"
  /\ instance[p].step = sa[1]
  /\ who \in Reviewers(p, sa[1]) \ Handled(step[p][sa])
  /\ ~approve => Template[p].steps[sa[1]].rejectable
  \* bound: there is room for the task a rejection will open
  /\ ~approve /\ Template[p].steps[sa[1]].target # 0 =>
       step[p][<<Template[p].steps[sa[1]].target, MaxAttempts>>].status = "ABSENT"
  /\ BeginRequest(c, [Idle EXCEPT !.at = "acting", !.p = p, !.n = sa[1], !.next = sa[2],
                           !.who = who, !.approve = approve])

\* The transaction of performWorkflowAction
CommitAction(c) ==
  LET p == call[c].p
      sa == <<call[c].n, call[c].next>>
      who == call[c].who
  IN  /\ call[c].at = "acting"
      /\ IF Member(p) /\ who \notin Handled(step[p][sa]) /\ ~step[p][sa].dropped
         THEN /\ step' = [step EXCEPT
                   ![p][sa].approved = IF call[c].approve THEN @ \cup {who} ELSE @,
                   ![p][sa].rejected = IF call[c].approve THEN @ ELSE @ \cup {who}]
              /\ Continue(c, [call[c] EXCEPT !.at = "acted"])
              /\ UNCHANGED <<cycle, instance, task>>
         ELSE Throw(c)

\* completeWorkflowTask
CompleteStep(c) ==
  LET p == call[c].p
      s == call[c].n
      last == s = Len(Template[p].steps)
  IN  IF Member(p) /\ instance[p].step = s
      THEN /\ step' = [step EXCEPT ![p][<<s, call[c].next>>].status = "COMPLETED"]
           /\ instance' = [instance EXCEPT
                ![p].step = IF last THEN 0 ELSE s + 1,
                ![p].status = IF last THEN "COMPLETED" ELSE "IN_PROGRESS"]
           /\ cycle' = IF last THEN CloseCycleAfter(p) ELSE cycle
           /\ Continue(c, IF last THEN Idle
                          ELSE [call[c] EXCEPT !.at = "stepping", !.n = s + 1, !.next = 1])
           /\ UNCHANGED task
      ELSE Throw(c)

\* Mutant: the step is completed by its first approval.
CollectFirstApproval(c) == call[c].at = "acted" /\ call[c].approve /\ CompleteStep(c)

\* The last reviewer completes the step.  What an assignee has done is never taken
\* back, so the read may be put together with the transaction that follows it.
CollectApprovals(c) ==
  LET p == call[c].p
      row == step[p][<<call[c].n, call[c].next>>]
  IN  /\ call[c].at = "acted"
      /\ call[c].approve
      /\ IF Handled(row) = Reviewers(p, call[c].n)
         THEN CompleteStep(c)
         ELSE Continue(c, Idle) /\ UNCHANGED rows

\* handleWorkflowRejection
RejectStep(c) ==
  LET p == call[c].p
      s == call[c].n
      target == Template[p].steps[s].target
  IN  /\ call[c].at = "acted"
      /\ ~call[c].approve
      /\ IF Member(p) /\ instance[p].step = s
         THEN /\ step' = [step EXCEPT ![p][<<s, call[c].next>>].status = "CANCELLED",
                                      ![p][<<s, call[c].next>>].dropped = TRUE]
              /\ instance' = [instance EXCEPT
                   ![p].step = target,
                   ![p].status = IF target = 0 THEN "REJECTED" ELSE "IN_PROGRESS"]
              /\ Continue(c, IF target = 0 THEN Idle
                             ELSE [call[c] EXCEPT !.at = "stepping", !.n = target, !.next = 0])
              /\ UNCHANGED <<cycle, task>>
         ELSE Throw(c)

-----------------------------------------------------------------------------
(***************************************************************************)
(* Management of the cycle.                                                *)
(***************************************************************************)
\* startCycle: a cycle that was archived as a draft is not told apart.
LoadStart(c) ==
  LET active == {p \in Members : instance[p].status # "CANCELLED"}
  IN  /\ cycle.status = "DRAFT"
      /\ active # {}
      /\ BeginRequest(c, [Idle EXCEPT !.at = "starting", !.todo = active])

\* Mutant: all the manual modules are opened at once.
StartAll(c) ==
  LET todo == call[c].todo
  IN  /\ call[c].at = "starting"
      /\ cycle' = [cycle EXCEPT !.status = "IN_PROGRESS"]
      /\ instance' = [p \in Participants |->
           IF p \in todo
           THEN [instance[p] EXCEPT !.status = "IN_PROGRESS",
                   !.assessment = "IN_PROGRESS", !.module = FirstOrNull(Manual(p))]
           ELSE instance[p]]
      /\ task' = [p \in Participants |-> [m \in Modules(p) |->
           IF p \in todo /\ m \in Manual(p)
           THEN [task[p][m] EXCEPT !.status = "IN_PROGRESS"] ELSE task[p][m]]]
      /\ Continue(c, [call[c] EXCEPT !.at = "measuring"])
      /\ UNCHANGED step

\* The transaction of startCycle
Start(c) ==
  LET todo == call[c].todo
  IN  /\ call[c].at = "starting"
      /\ IF \A p \in todo : Known(c, p) /\
              (Manual(p) # {} => task[p][First(Manual(p))].status = "PENDING")
         THEN /\ cycle' = [cycle EXCEPT !.status = "IN_PROGRESS"]
              /\ instance' = [p \in Participants |->
                   IF p \in todo
                   THEN [instance[p] EXCEPT !.status = "IN_PROGRESS",
                           !.assessment = "IN_PROGRESS", !.module = FirstOrNull(Manual(p))]
                   ELSE instance[p]]
              /\ task' = [p \in Participants |->
                   IF p \in todo /\ Manual(p) # {}
                   THEN [task[p] EXCEPT ![First(Manual(p))].status = "IN_PROGRESS"]
                   ELSE task[p]]
              /\ Continue(c, [call[c] EXCEPT !.at = "measuring"])
              /\ UNCHANGED step
         ELSE Throw(c)

\* executeMetricTask for the metric modules of one participant, which startCycle and
\* addCycleParticipants do one after the other
Measure(c) ==
  /\ call[c].at = "measuring"
  /\ \E p \in call[c].todo :
       IF Metric(p) = {} \/ Known(c, p)
       THEN /\ task' = [task EXCEPT ![p] = [m \in Modules(p) |->
                 IF m \in Metric(p) THEN [@[m] EXCEPT !.status = "COMPLETED"] ELSE @[m]]]
            /\ Continue(c, [call[c] EXCEPT !.at = "advancing", !.p = p, !.todo = @ \ {p}])
            /\ UNCHANGED <<cycle, instance, step>>
       ELSE Throw(c)

LoadAdd(c, p) ==
  /\ cycle.status \in {"DRAFT", "IN_PROGRESS"}
  /\ instance[p].status = "ABSENT"  \* a removed participant is not added again in the model
  /\ BeginManaging(c, [Idle EXCEPT !.at = "adding", !.p = p, !.read = cycle.status])

\* Mutant: a participant added to a running cycle is not advanced.
AddOnly(c) ==
  /\ call[c].at = "adding"
  /\ instance' = [instance EXCEPT ![call[c].p].status = call[c].read]
  /\ Continue(c, Idle)
  /\ UNCHANGED <<cycle, task, step>>

\* addCycleParticipants: (cycle, employee) is unique.
Add(c) ==
  LET p == call[c].p
      running == call[c].read = "IN_PROGRESS"
  IN  /\ call[c].at = "adding"
      /\ IF instance[p].status = "ABSENT"
         THEN /\ instance' = [instance EXCEPT ![p] =
                   IF running
                   THEN [@ EXCEPT !.status = "IN_PROGRESS", !.assessment = "IN_PROGRESS",
                                  !.module = FirstOrNull(Manual(p))]
                   ELSE [@ EXCEPT !.status = "DRAFT"]]
              /\ Continue(c, IF running
                             THEN [call[c] EXCEPT !.at = "measuring", !.todo = {p}] ELSE Idle)
              /\ UNCHANGED <<cycle, task, step>>
         ELSE Throw(c)

\* Mutant: a status that no instance has.
RemoveSoftly(p) ==
  /\ Managing
  /\ Member(p)
  /\ instance' = [instance EXCEPT ![p].status = "ARCHIVED"]
  /\ overlapped' = (overlapped \/ \E c \in Calls : call[c].at # "idle")
  /\ UNCHANGED <<cycle, task, step, call, disturbed>>

\* removeCycleParticipant, in any status
Remove(p) ==
  /\ Managing
  /\ Member(p)
  /\ instance' = [instance EXCEPT ![p].status = "REMOVED", ![p].module = 0, ![p].step = 0]
  /\ overlapped' = (overlapped \/ \E c \in Calls : call[c].at # "idle")
  /\ UNCHANGED <<cycle, task, step, call, disturbed>>

LoadTemplate(c, p) ==
  /\ Member(p)
  /\ instance[p].status # "COMPLETED"
  /\ \A m \in Modules(p) : task[p][m].status # "COMPLETED"
  /\ BeginManaging(c, [Idle EXCEPT !.at = "templating", !.p = p, !.read = cycle.status])

\* updateCycleParticipantTemplate: (instance, order) is unique, so a module completed
\* in the meantime makes it fail.
UpdateTemplate(c) ==
  LET p == call[c].p
      running == call[c].read = "IN_PROGRESS"
  IN  /\ call[c].at = "templating"
      /\ call' = [call EXCEPT ![c] = Idle]
      /\ IF Member(p) /\ \A m \in Modules(p) : task[p][m].status # "COMPLETED"
         THEN /\ task' = [task EXCEPT ![p] = NewTasks(p)]
              /\ instance' = [instance EXCEPT
                   ![p].edition = @ + 1,
                   ![p].module = IF running THEN FirstOrNull(Manual(p)) ELSE 0,
                   ![p].assessment = IF running THEN "IN_PROGRESS" ELSE "DRAFT"]
              /\ disturbed' = IF running THEN disturbed \cup {"management"} ELSE disturbed
              /\ UNCHANGED <<cycle, step, managed, overlapped>>
         ELSE UNCHANGED <<rows, managed, overlapped, disturbed>>

LoadRestart(c, ps) ==
  /\ cycle.status \notin {"COMPLETED", "CANCELLED"}
  /\ ps # {} /\ ps \subseteq Members
  /\ BeginManaging(c, [Idle EXCEPT !.at = "restarting", !.todo = ps])

\* restartCycle: what it has reset it leaves to startCycle, which refuses a cycle that
\* is no draft any more.
Restart(c) ==
  LET todo == call[c].todo \cap Members
      reset(row) == IF row.status = "COMPLETED" THEN row ELSE [row EXCEPT !.status = "PENDING"]
      again(row) == IF row.status \in {"ABSENT", "COMPLETED"} THEN row
                    ELSE [row EXCEPT !.status = "PENDING"]
  IN  /\ call[c].at = "restarting"
      /\ cycle' = [cycle EXCEPT !.status = "IN_PROGRESS"]
      /\ instance' = [p \in Participants |->
           IF p \in todo
           THEN [instance[p] EXCEPT !.status = "IN_PROGRESS", !.assessment = "IN_PROGRESS",
                                    !.module = 0, !.step = 0]
           ELSE instance[p]]
      /\ task' = [p \in Participants |->
           IF p \in todo THEN [m \in Modules(p) |-> reset(task[p][m])] ELSE task[p]]
      /\ step' = [p \in Participants |->
           IF p \in todo THEN [sa \in Attempts(p) |-> again(step[p][sa])] ELSE step[p]]
      /\ call' = [call EXCEPT ![c] = Idle]
      /\ disturbed' = disturbed \cup {"management"}
      /\ UNCHANGED <<managed, overlapped>>

\* Mutant: tasks already completed are cancelled too.
StopAny(row) == IF row.status = "ABSENT" THEN row ELSE [row EXCEPT !.status = "CANCELLED"]

\* What closing and archiving do to the tasks of some participants: the tasks are
\* cancelled, their assignees stay as they are.
Stop(row) == IF row.status \in {"PENDING", "IN_PROGRESS"} THEN [row EXCEPT !.status = "CANCELLED"]
             ELSE row
StopTasks(ps) ==
  /\ task' = [p \in Participants |->
       IF p \in ps THEN [m \in Modules(p) |-> Stop(task[p][m])] ELSE task[p]]
  /\ step' = [p \in Participants |->
       IF p \in ps THEN [sa \in Attempts(p) |-> Stop(step[p][sa])] ELSE step[p]]

\* closeCycleParticipants
Close(ps) ==
  /\ Managing
  /\ ps # {} /\ ps \subseteq Members
  /\ StopTasks(ps)
  /\ instance' = [p \in Participants |->
       IF p \in ps THEN [instance[p] EXCEPT !.status = "CANCELLED"] ELSE instance[p]]
  /\ cycle' = IF \A p \in Members \ ps : instance[p].status = "CANCELLED"
              THEN [cycle EXCEPT !.status = "CANCELLED"] ELSE cycle
  /\ overlapped' = (overlapped \/ \E c \in Calls : call[c].at # "idle")
  /\ UNCHANGED <<call, disturbed>>

LoadArchive(c) ==
  /\ ~cycle.archived
  /\ BeginManaging(c, [Idle EXCEPT !.at = "archiving", !.read = cycle.status])

\* archiveCycle decides on the status it has read, and writes that status back.
Archive(c) ==
  LET running == {p \in Members : instance[p].status = "IN_PROGRESS"}
  IN  /\ call[c].at = "archiving"
      /\ IF call[c].read = "IN_PROGRESS"
         THEN /\ cycle' = [status |-> "CANCELLED", archived |-> TRUE]
              /\ instance' = [p \in Participants |->
                   IF p \in running THEN [instance[p] EXCEPT !.status = "CANCELLED"]
                   ELSE instance[p]]
              /\ StopTasks(Members)
         ELSE /\ cycle' = [status |-> call[c].read, archived |-> TRUE]
              /\ UNCHANGED <<instance, task, step>>
      /\ Continue(c, Idle)

-----------------------------------------------------------------------------
\* A request of a user or of a manager
Request(c) ==
  \/ \E p \in Participants, who \in Executors :
       \/ \E m \in Modules(p) :
            LoadScore(c, p, m, who) \/ LoadSkip(c, p, m, who) \/ LoadCardScore(c, p, m, who)
       \/ \E sa \in Attempts(p), approve \in BOOLEAN : LoadAction(c, p, sa, who, approve)
  \/ LoadStart(c)
  \/ LoadArchive(c)
  \/ \E p \in Participants : LoadAdd(c, p) \/ LoadTemplate(c, p)
  \/ \E ps \in SUBSET Participants : LoadRestart(c, ps)

\* The next stage of a call in flight
Proceed(c) ==
  \/ CommitScore(c) \/ CollectScores(c) \/ SkipModule(c)
  \/ Advance(c) \/ OpenModule(c) \/ ResolveAssignees(c) \/ FinishAssessment(c)
  \/ ReadStep(c) \/ CreateStep(c)
  \/ CommitAction(c) \/ CollectApprovals(c) \/ RejectStep(c)
  \/ Start(c) \/ Measure(c) \/ Add(c) \/ UpdateTemplate(c) \/ Restart(c) \/ Archive(c)

Next ==
  \/ \E c \in Calls : Request(c) \/ Proceed(c) \/ Interrupt(c)
  \/ \E p \in Participants : Remove(p)
  \/ \E ps \in SUBSET Participants : Close(ps)

Spec == Init /\ [][Next]_vars

\* The server goes on with what it has begun, unless it is interrupted.  Nothing is
\* assumed of its users.
FairSpec == Spec /\ \A c \in Calls : WF_vars(Proceed(c))

-----------------------------------------------------------------------------
(***************************************************************************)
(* Properties.                                                             *)
(***************************************************************************)
\* Every row and every call has its type.
PerformanceTypeOK ==
  /\ cycle \in [status : ProcessStatus, archived : BOOLEAN]
  /\ instance \in [Participants -> InstanceRow]
  /\ \A p \in Participants :
       /\ task[p] \in [Modules(p) -> TaskRow]
       /\ step[p] \in [Attempts(p) -> StepRow]
  /\ call \in [Calls -> CallRecord]
  /\ managed \in 0 .. MaxManaged
  /\ overlapped \in BOOLEAN
  /\ disturbed \subseteq Disturbance

\* A completed module that was not skipped has the score of every scorer: the average
\* that completeTask stores is over all of them, whichever submissions raced.
ScoredByAll ==
  \A p \in Participants : \A m \in Manual(p) :
    task[p][m].status = "COMPLETED" /\ ~task[p][m].skipped => task[p][m].scored = Scorers(p, m)

\* Scoring is serial (README.md: serial scoring): when a module is open, all the manual
\* modules before it are completed or were cancelled.
OneModuleAtATime ==
  \A p \in Members : \A m, n \in Manual(p) :
    task[p][n].status = "IN_PROGRESS" /\ m < n => task[p][m].status \in {"COMPLETED", "CANCELLED"}

\* While an assessment stays completed, no later step and no management of the cycle
\* touches a module its result was made of (docs/PROJECT_STATUS.md:12).  A score that
\* races with a skip may still reach its assignee, but not the module.
ResultIsFrozen ==
  [][\A p \in Participants :
       instance[p].assessment = "COMPLETED" /\ instance'[p].assessment = "COMPLETED" =>
         \A m \in Modules(p) : task'[p][m].status = task[p][m].status]_vars

\* A completed step was approved by all of its reviewers and rejected by none.  An
\* approval in flight together with the rejection, or a rejection cut off before its
\* second transaction, breaks this: the step counts the rejecter as handled.
NobodyOverruled ==
  ~overlapped /\ disturbed = {} =>
    \A p \in Participants : \A sa \in Attempts(p) :
      step[p][sa].status = "COMPLETED" =>
        step[p][sa].approved = Reviewers(p, sa[1]) /\ step[p][sa].rejected = {}

\* A completed cycle has only completed and cancelled instances.  A participant added
\* while the last one completes breaks this, and so does a
\* card that scores for a participant already closed, whose instance it completes.
CompletedCycleIsDone ==
  ~overlapped /\ "late card" \notin disturbed /\ cycle.status = "COMPLETED" =>
    \A p \in Members : instance[p].status \in {"COMPLETED", "CANCELLED"}

Returned(p) == \E sa \in Attempts(p) : step[p][sa].status = "CANCELLED"

\* No participant is lost between two transactions: when no call is in flight, one in a
\* running instance waits for the scorers of a module or the reviewers of a step.
SomebodyIsAsked ==
  (\A c \in Calls : call[c].at = "idle") /\ ~overlapped /\ disturbed = {} =>
    \A p \in Members : instance[p].status = "IN_PROGRESS" /\ ~Returned(p) =>
      IF instance[p].assessment = "COMPLETED"
      THEN /\ instance[p].step \in Steps(p)
           /\ step[p][<<instance[p].step, 1>>].status = "IN_PROGRESS"
      ELSE LET m == instance[p].module
           IN  /\ m \in Manual(p)
               /\ task[p][m].status = "IN_PROGRESS"
               /\ task[p][m].assigned
               /\ task[p][m].scored # Scorers(p, m)

\* Documentation: a rejected step may return to an earlier one, which then takes the
\* workflow forward again (docs/PROJECT_STATUS.md:13).  Every participant in a running
\* workflow has a task in progress at the current step.
ReturnedStepGoesOn ==
  (\A c \in Calls : call[c].at = "idle") /\ ~overlapped /\ disturbed = {} =>
    \A p \in Members :
      instance[p].status = "IN_PROGRESS" /\ instance[p].assessment = "COMPLETED" =>
        \E a \in 1 .. MaxAttempts : step[p][<<instance[p].step, a>>].status = "IN_PROGRESS"

\* When all the scores of a module are in, also when the last two came at the same time,
\* the module is completed, unless a chain is cut off or the participant is removed.
ScoredModuleCompletes ==
  \A p \in Participants : \A m \in Modules(p) :
    (instance[p].module = m /\ task[p][m].status = "IN_PROGRESS"
       /\ task[p][m].scored = Scorers(p, m))
      ~> (task[p][m].status # "IN_PROGRESS" \/ ~Member(p) \/ disturbed # {})

\* A module that is opened gets its scorers, unless a chain is cut off.
OpenModuleGetsScorers ==
  \A p \in Participants : \A m \in Modules(p) :
    (Member(p) /\ task[p][m].status = "IN_PROGRESS")
      ~> (task[p][m].assigned \/ ~Member(p) \/ task[p][m].status # "IN_PROGRESS" \/ disturbed # {})

=============================================================================
