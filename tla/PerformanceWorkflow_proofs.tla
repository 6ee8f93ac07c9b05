---------------------- MODULE PerformanceWorkflow_proofs ----------------------
(***************************************************************************)
(* Proofs about performance cycles, for any participants, executors,       *)
(* templates and racing calls: the rows keep their shape, a completed      *)
(* module that was not skipped was scored by all of its scorers, one       *)
(* module is open at a time, and a completed assessment keeps its scores.  *)
(*                                                                         *)
(* ScoredByAll is not inductive: a chain that is about to commit a score   *)
(* acts on what its call carries.  Grounded says what that is worth.       *)
(*                                                                         *)
(* The second part is about calls that come one at a time.  One record is  *)
(* then all there is of a call in flight (AloneInv), and what has to hold  *)
(* between two of its steps is said of that record: ReviewInv for          *)
(* NobodyOverruled, TrackInv for CompletedCycleIsDone, WaitInv for         *)
(* SomebodyIsAsked.                                                        *)
(***************************************************************************)
EXTENDS PerformanceWorkflow, FiniteSetTheorems, WellFoundedInduction, TLAPS

\* What a call carries through its chain: the module it scores, its scorer and another
\* module to go on with, or the step it acts on and its reviewer.
Grounded(r) ==
  /\ r.at \notin {"idle", "starting", "measuring", "restarting", "archiving"} =>
       r.p \in Participants
  /\ r.at \in {"scoring", "skipping", "scored"} => r.n \in Modules(r.p) /\ r.next # r.n
  /\ r.at = "scoring" => r.who \in Scorers(r.p, r.n)
  /\ r.at \in {"acting", "acted"} => r.n \in Steps(r.p) /\ r.who \in Executors

CallsOK == call \in [Calls -> CallRecord] /\ \A c \in Calls : Grounded(call[c])

TasksOK ==
  /\ task = [p \in Participants |-> task[p]]
  /\ \A p \in Participants : task[p] \in [Modules(p) -> TaskRow]

StepsOK ==
  /\ step = [p \in Participants |-> step[p]]
  /\ \A p \in Participants : step[p] \in [Attempts(p) -> StepRow]

RowsOK ==
  /\ cycle \in [status : ProcessStatus, archived : BOOLEAN]
  /\ instance \in [Participants -> InstanceRow]

RestOK ==
  /\ managed \in 0 .. MaxManaged
  /\ overlapped \in BOOLEAN
  /\ disturbed \subseteq Disturbance

PerformanceInv == CallsOK /\ TasksOK /\ StepsOK /\ RowsOK /\ RestOK /\ ScoredByAll

-----------------------------------------------------------------------------
(***************************************************************************)
(* What a valid definition grants.                                         *)
(***************************************************************************)
LEMMA DefinitionFacts ==
  ASSUME NEW p \in Participants
  PROVE  /\ Modules(p) \subseteq Nat \ {0} /\ Manual(p) \subseteq Modules(p)
         /\ Steps(p) \subseteq Nat
         /\ \A m \in Modules(p) : Scorers(p, m) \subseteq Executors
         /\ \A m \in Modules(p) : Scorers(p, m) # {} => m \in Manual(p)
         /\ \A s \in Steps(p) : Template[p].steps[s].target \in Nat
                                /\ Reviewers(p, s) \subseteq Executors
<1>1. /\ Template[p].modules \in Seq(ModuleDefinition)
      /\ Template[p].steps \in Seq(StepDefinition)
      /\ \A m \in DOMAIN Template[p].modules :
           (Template[p].modules[m].kind = "METRIC") <=> (Template[p].modules[m].scorers = {})
  BY PerformanceAssumption
<1>2. /\ \A m \in Modules(p) : Template[p].modules[m] \in ModuleDefinition
      /\ Modules(p) \subseteq Nat \ {0}
  BY <1>1 DEF Modules
<1>3. /\ \A s \in Steps(p) : Template[p].steps[s] \in StepDefinition
      /\ Steps(p) \subseteq Nat
  BY <1>1 DEF Steps
<1>4. \A m \in Modules(p) : Scorers(p, m) \subseteq Executors
  BY <1>2 DEF Scorers, ModuleDefinition
<1>5. \A m \in Modules(p) : Scorers(p, m) # {} => m \in Manual(p)
  BY <1>1 DEF Scorers, Manual, Modules
<1>6. \A s \in Steps(p) : Template[p].steps[s].target \in Nat /\ Reviewers(p, s) \subseteq Executors
  BY <1>3 DEF Reviewers, StepDefinition
<1>7. Manual(p) \subseteq Modules(p)
  BY DEF Manual
<1> QED BY <1>2, <1>3, <1>4, <1>5, <1>6, <1>7

LEMMA FirstIsIn ==
  ASSUME NEW S \in SUBSET Nat, S # {}
  PROVE  First(S) \in S /\ \A n \in S : First(S) <= n
<1>1. \E x \in S : \A y \in S : ~ (<<y, x>> \in OpToRel(<, Nat))
  BY NatLessThanWellFounded, WFMin
<1>2. PICK x \in S : \A y \in S : ~ (<<y, x>> \in OpToRel(<, Nat))
  BY <1>1
<1>3. \A y \in S : ~ (y < x)
  BY <1>2 DEF OpToRel
<1>4. \A y \in S : x <= y
  BY <1>3
<1> QED BY <1>4 DEF First

LEMMA FirstOrNullType ==
  ASSUME NEW S \in SUBSET Nat
  PROVE  FirstOrNull(S) \in Nat
  BY FirstIsIn DEF FirstOrNull

LEMMA IdleType == Idle \in CallRecord /\ Idle.at = "idle" /\ Grounded(Idle)
<1>1. Idle \in CallRecord
  BY DEF Idle, CallRecord, Stage, ProcessStatus
<1>2. Idle.at = "idle"
  BY DEF Idle
<1> QED BY <1>1, <1>2 DEF Grounded

-----------------------------------------------------------------------------
(***************************************************************************)
(* The life of a call                                                      *)
(***************************************************************************)
LEMMA BeginKeeps ==
  ASSUME PerformanceInv, NEW c \in Calls, NEW r \in CallRecord, Grounded(r),
         NEW d \in SUBSET Disturbance, BeginWith(c, r, d), managed' \in 0 .. MaxManaged
  PROVE  PerformanceInv'
<1> DEFINE k == [r EXCEPT !.seen = [p \in Participants |-> instance[p].edition]]
<1>1. CallsOK /\ TasksOK /\ StepsOK /\ RowsOK /\ RestOK /\ ScoredByAll
  BY DEF PerformanceInv
<1>2. /\ call' = [call EXCEPT ![c] = k]
      /\ overlapped' = Overlap(c)
      /\ disturbed' = disturbed \cup d
      /\ UNCHANGED <<cycle, instance, task, step>>
  BY DEF BeginWith, rows
<1>3. \A p \in Participants : instance[p].edition \in Nat
  BY <1>1 DEF RowsOK, InstanceRow
<1>4. /\ k \in CallRecord
      /\ k.at = r.at /\ k.p = r.p /\ k.n = r.n /\ k.who = r.who /\ k.next = r.next
  BY <1>3 DEF CallRecord
<1> HIDE DEF k
<1>5. Grounded(k)
  BY <1>4 DEF Grounded
<1>6. CallsOK'
  BY <1>1, <1>2, <1>4, <1>5 DEF CallsOK
<1>7. RestOK'
  BY <1>1, <1>2 DEF RestOK, Overlap
<1>8. TasksOK' /\ StepsOK' /\ RowsOK' /\ ScoredByAll'
  BY <1>1, <1>2 DEF TasksOK, StepsOK, RowsOK, ScoredByAll
<1> QED BY <1>6, <1>7, <1>8 DEF PerformanceInv

\* The next stage of a call, when it keeps the rows in shape.
LEMMA ContinueKeeps ==
  ASSUME PerformanceInv, NEW c \in Calls, NEW r \in CallRecord, Grounded(r), Continue(c, r),
         TasksOK', StepsOK', RowsOK', ScoredByAll'
  PROVE  PerformanceInv'
<1>1. CallsOK /\ RestOK
  BY DEF PerformanceInv
<1>2. call' = [call EXCEPT ![c] = r] /\ UNCHANGED <<managed, overlapped, disturbed>>
  BY DEF Continue
<1>3. CallsOK'
  BY <1>1, <1>2 DEF CallsOK
<1>4. RestOK'
  BY <1>1, <1>2 DEF RestOK
<1> QED BY <1>3, <1>4 DEF PerformanceInv

\* The same for a stage that only reads.
LEMMA ReadingKeeps ==
  ASSUME PerformanceInv, NEW c \in Calls, NEW r \in CallRecord, Grounded(r), Continue(c, r),
         UNCHANGED rows
  PROVE  PerformanceInv'
<1>1. TasksOK /\ StepsOK /\ RowsOK /\ ScoredByAll
  BY DEF PerformanceInv
<1>2. TasksOK' /\ StepsOK' /\ RowsOK' /\ ScoredByAll'
  BY <1>1 DEF rows, TasksOK, StepsOK, RowsOK, ScoredByAll
<1> QED BY <1>2, ContinueKeeps

LEMMA ThrowKeeps ==
  ASSUME PerformanceInv, NEW c \in Calls, Throw(c)
  PROVE  PerformanceInv'
  BY IdleType, ReadingKeeps DEF Throw

LEMMA NextStageType ==
  ASSUME CallsOK, NEW c \in Calls
  PROVE  NextStage(c) \in CallRecord /\ Grounded(NextStage(c))
<1>1. call[c] \in CallRecord
  BY DEF CallsOK
<1>2. CASE call[c].todo = {}
  BY <1>2, IdleType DEF NextStage
<1>3. CASE call[c].todo # {}
  <2>1. NextStage(c) = [call[c] EXCEPT !.at = "measuring"]
    BY <1>3 DEF NextStage
  <2>2. NextStage(c) \in CallRecord /\ NextStage(c).at = "measuring"
    BY <1>1, <2>1 DEF CallRecord, Stage
  <2> QED BY <2>2 DEF Grounded
<1> QED BY <1>2, <1>3

LEMMA InterruptKeeps ==
  ASSUME PerformanceInv, NEW c \in Calls, Interrupt(c)
  PROVE  PerformanceInv'
<1>1. CallsOK /\ TasksOK /\ StepsOK /\ RowsOK /\ RestOK /\ ScoredByAll
  BY DEF PerformanceInv
<1>2. /\ call' = [call EXCEPT ![c] = Idle]
      /\ disturbed' = disturbed \cup {"interrupt"}
      /\ UNCHANGED <<cycle, instance, task, step, managed, overlapped>>
  BY DEF Interrupt, rows
<1>3. CallsOK'
  BY <1>1, <1>2, IdleType DEF CallsOK
<1>4. RestOK'
  BY <1>1, <1>2 DEF RestOK, Disturbance
<1>5. TasksOK' /\ StepsOK' /\ RowsOK' /\ ScoredByAll'
  BY <1>1, <1>2 DEF TasksOK, StepsOK, RowsOK, ScoredByAll
<1> QED BY <1>3, <1>4, <1>5 DEF PerformanceInv

-----------------------------------------------------------------------------
(***************************************************************************)
(* Scoring                                                                 *)
(***************************************************************************)
\* A step that touches the modules of one participant.
LEMMA OneAssessmentKeeps ==
  ASSUME TasksOK, ScoredByAll, NEW p \in Participants, NEW f \in [Modules(p) -> TaskRow],
         task' = [task EXCEPT ![p] = f],
         \A m \in Manual(p) : f[m].status = "COMPLETED" /\ ~f[m].skipped
                                => f[m].scored = Scorers(p, m)
  PROVE  TasksOK' /\ ScoredByAll'
<1>1. task = [q \in Participants |-> task[q]]
  BY DEF TasksOK
<1>2. /\ task'[p] = f
      /\ \A q \in Participants \ {p} : task'[q] = task[q]
      /\ task' = [q \in Participants |-> task'[q]]
  BY <1>1
<1>3. TasksOK'
  BY <1>2 DEF TasksOK
<1>4. ScoredByAll'
  BY <1>2 DEF ScoredByAll
<1> QED BY <1>3, <1>4

LEMMA LoadScoreKeeps ==
  ASSUME PerformanceInv, NEW c \in Calls, NEW p \in Participants, NEW m \in Modules(p),
         NEW who \in Executors,
         LoadScore(c, p, m, who) \/ LoadSkip(c, p, m, who) \/ LoadCardScore(c, p, m, who)
  PROVE  PerformanceInv'
<1>1. Modules(p) \subseteq Nat \ {0} /\ Manual(p) \subseteq Modules(p)
  BY DefinitionFacts
<1>2. NextTask(p, m) \in Nat /\ NextTask(p, m) # m
  <2> DEFINE S == {n \in Manual(p) : n > m /\ task[p][n].status # "CANCELLED"}
  <2>1. S \in SUBSET Nat
    BY <1>1
  <2>2. \A n \in S : n # m
    BY <1>1
  <2> HIDE DEF S
  <2>3. FirstOrNull(S) \in Nat /\ FirstOrNull(S) # m
    BY <1>1, <2>1, <2>2, FirstIsIn DEF FirstOrNull
  <2> QED BY <2>3 DEF NextTask, S
<1>3. ASSUME NEW at \in {"scoring", "skipping"}
      PROVE  /\ Scoring(at, p, m, who) \in CallRecord
             /\ Scoring(at, p, m, who).at = at
             /\ Scoring(at, p, m, who).p = p
             /\ Scoring(at, p, m, who).n = m
             /\ Scoring(at, p, m, who).who = who
             /\ Scoring(at, p, m, who).next = NextTask(p, m)
  BY <1>1, <1>2, IdleType DEF Scoring, CallRecord, Stage
<1>4. who \in Scorers(p, m) => \A at \in {"scoring", "skipping"} : Grounded(Scoring(at, p, m, who))
  BY <1>2, <1>3 DEF Grounded
<1>5. who \in Scorers(p, m)
  BY DEF LoadScore, LoadSkip, LoadCardScore, OpenToScorer
<1>6. managed' \in 0 .. MaxManaged
  BY DEF LoadScore, LoadSkip, LoadCardScore, BeginRequest, PerformanceInv, RestOK
<1>7. CASE LoadScore(c, p, m, who)
  <2>1. BeginWith(c, Scoring("scoring", p, m, who), {})
    BY <1>7 DEF LoadScore, BeginRequest, Begin
  <2> QED BY <1>3, <1>4, <1>5, <1>6, <2>1, BeginKeeps
<1>8. CASE LoadSkip(c, p, m, who)
  <2>1. BeginWith(c, Scoring("skipping", p, m, who), {})
    BY <1>8 DEF LoadSkip, BeginRequest, Begin
  <2> QED BY <1>3, <1>4, <1>5, <1>6, <2>1, BeginKeeps
<1>9. CASE LoadCardScore(c, p, m, who)
  <2>1. PICK d \in SUBSET Disturbance : BeginWith(c, Scoring("scoring", p, m, who), d)
    BY <1>9 DEF LoadCardScore, Disturbance
  <2> QED BY <1>3, <1>4, <1>5, <1>6, <2>1, BeginKeeps
<1> QED BY <1>7, <1>8, <1>9

\* A new score never comes from somebody who has scored already, so a module with all of
\* its scores keeps them.
LEMMA CommitScoreKeeps ==
  ASSUME PerformanceInv, NEW c \in Calls, CommitScore(c)
  PROVE  PerformanceInv'
<1>1. CallsOK /\ TasksOK /\ StepsOK /\ RowsOK /\ ScoredByAll
  BY DEF PerformanceInv
<1>2. PICK p, m, who : p = call[c].p /\ m = call[c].n /\ who = call[c].who
  OBVIOUS
<1>3. call[c].at = "scoring" /\ call[c] \in CallRecord /\ Grounded(call[c])
  BY <1>1 DEF CommitScore, CallsOK
<1>4. p \in Participants /\ m \in Modules(p) /\ who \in Scorers(p, m)
  BY <1>2, <1>3 DEF Grounded
<1>5. who \in Executors
  BY <1>4, DefinitionFacts
<1>6. CASE Known(c, p) /\ who \notin task[p][m].scored
  <2> DEFINE r == [call[c] EXCEPT !.at = "scored"]
             f == [task[p] EXCEPT ![m].scored = @ \cup {who}]
  <2>1. /\ task' = [task EXCEPT ![p][m].scored = @ \cup {who}]
        /\ Continue(c, r)
        /\ UNCHANGED <<cycle, instance, step>>
    BY <1>2, <1>6 DEF CommitScore
  <2>2. task[p] \in [Modules(p) -> TaskRow]
    BY <1>1, <1>4 DEF TasksOK
  <2>3. task' = [task EXCEPT ![p] = f]
    BY <2>1
  <2>4. f \in [Modules(p) -> TaskRow]
    BY <1>4, <1>5, <2>2 DEF TaskRow
  <2>5. \A n \in Manual(p) : f[n].status = "COMPLETED" /\ ~f[n].skipped
                               => f[n].scored = Scorers(p, n)
    <3>1. \A n \in Modules(p) \ {m} : f[n] = task[p][n]
      BY <2>2
    <3>2. f[m].status = task[p][m].status /\ f[m].skipped = task[p][m].skipped
      BY <1>4, <2>2 DEF TaskRow
    <3>3. m \in Manual(p) => ~(task[p][m].status = "COMPLETED" /\ ~task[p][m].skipped)
      BY <1>1, <1>4, <1>6 DEF ScoredByAll
    <3> HIDE DEF f
    <3>4. \A n \in Manual(p) : n # m /\ task[p][n].status = "COMPLETED" /\ ~task[p][n].skipped
                                 => task[p][n].scored = Scorers(p, n)
      BY <1>1, <1>4 DEF ScoredByAll
    <3>5. Manual(p) \subseteq Modules(p)
      BY <1>4, DefinitionFacts
    <3> QED BY <3>1, <3>2, <3>3, <3>4, <3>5
  <2> HIDE DEF f
  <2>6. TasksOK' /\ ScoredByAll'
    BY <1>1, <1>4, <2>3, <2>4, <2>5, OneAssessmentKeeps
  <2>7. StepsOK' /\ RowsOK'
    BY <1>1, <2>1 DEF StepsOK, RowsOK
  <2>8. r \in CallRecord /\ r.at = "scored" /\ r.p = p /\ r.n = m /\ r.next = call[c].next
    BY <1>2, <1>3 DEF CallRecord, Stage
  <2>9. Grounded(r)
    BY <1>2, <1>3, <1>4, <2>8 DEF Grounded
  <2> HIDE DEF r
  <2> QED BY <2>1, <2>6, <2>7, <2>8, <2>9, ContinueKeeps
<1>7. CASE ~(Known(c, p) /\ who \notin task[p][m].scored)
  <2>1. Throw(c)
    BY <1>2, <1>7 DEF CommitScore
  <2> QED BY <2>1, ThrowKeeps
<1> QED BY <1>6, <1>7

\* completeTask, by a call that skips the module or has found it scored by all.
LEMMA CompleteTaskKeeps ==
  ASSUME PerformanceInv, NEW c \in Calls, CompleteTask(c),
         call[c].at \in {"skipping", "scored"},
         call[c].at = "scored" => task[call[c].p][call[c].n].scored = Scorers(call[c].p, call[c].n)
  PROVE  PerformanceInv'
<1>1. CallsOK /\ TasksOK /\ StepsOK /\ RowsOK /\ ScoredByAll
  BY DEF PerformanceInv
<1>2. PICK p, m, next : p = call[c].p /\ m = call[c].n /\ next = call[c].next
  OBVIOUS
<1>3. call[c] \in CallRecord /\ Grounded(call[c])
  BY <1>1 DEF CallsOK
<1>4. p \in Participants /\ m \in Modules(p) /\ next \in Nat /\ next # m
  BY <1>2, <1>3 DEF Grounded, CallRecord
<1>40. PICK skip \in BOOLEAN : skip = (call[c].at = "skipping")
  OBVIOUS
<1> DEFINE Fits == /\ Known(c, p)
                   /\ next = 0 \/ task[p][next].status = "PENDING"
                   /\ instance[p].module = m
           r == [call[c] EXCEPT !.at = "advancing"]
           f == [n \in Modules(p) |->
                  CASE n = m -> [task[p][m] EXCEPT !.status = "COMPLETED", !.skipped = skip]
                    [] n = next -> [task[p][n] EXCEPT !.status = "IN_PROGRESS"]
                    [] OTHER -> task[p][n]]
<1>5. CASE Fits
  <2>1. /\ task' = [task EXCEPT ![p] = [n \in Modules(p) |->
                CASE n = m -> [@[m] EXCEPT !.status = "COMPLETED",
                                           !.skipped = (call[c].at = "skipping")]
                  [] n = next -> [@[n] EXCEPT !.status = "IN_PROGRESS"]
                  [] OTHER -> @[n]]]
        /\ instance' = [instance EXCEPT ![p].module = next]
        /\ Continue(c, r)
        /\ UNCHANGED <<cycle, step>>
    BY <1>2, <1>5 DEF CompleteTask
  <2>2. task' = [task EXCEPT ![p] = f]
    BY <1>40, <2>1
  <2>3. task[p] \in [Modules(p) -> TaskRow]
    BY <1>1, <1>4 DEF TasksOK
  <2>4. /\ f[m] = [task[p][m] EXCEPT !.status = "COMPLETED", !.skipped = skip]
        /\ \A n \in Modules(p) \ {m} :
             f[n] = IF n = next THEN [task[p][n] EXCEPT !.status = "IN_PROGRESS"]
                    ELSE task[p][n]
    <3>1. f[m] = [task[p][m] EXCEPT !.status = "COMPLETED", !.skipped = skip]
      BY <1>4
    <3>2. ASSUME NEW n \in Modules(p) \ {m}
          PROVE  f[n] = IF n = next THEN [task[p][n] EXCEPT !.status = "IN_PROGRESS"]
                        ELSE task[p][n]
      BY <1>4
    <3> HIDE DEF f
    <3> QED BY <3>1, <3>2
  <2>5. \A n \in Modules(p) : f[n] \in TaskRow
    <3>1. f[m] \in TaskRow
      BY <1>4, <2>3, <2>4 DEF TaskRow, TaskStatus
    <3>2. \A n \in Modules(p) \ {m} : f[n] \in TaskRow
      BY <2>3, <2>4 DEF TaskRow, TaskStatus
    <3> HIDE DEF f
    <3> QED BY <3>1, <3>2
  <2>6. f \in [Modules(p) -> TaskRow]
    BY <2>5
  <2>7. /\ f[m].skipped = skip /\ f[m].scored = task[p][m].scored
        /\ \A n \in Modules(p) \ {m} :
             /\ f[n].status \in {"IN_PROGRESS", task[p][n].status}
             /\ f[n].skipped = task[p][n].skipped /\ f[n].scored = task[p][n].scored
    <3> HIDE DEF f
    <3>1. \A n \in Modules(p) : task[p][n] \in TaskRow
      BY <2>3
    <3>2. f[m].skipped = skip /\ f[m].scored = task[p][m].scored
      BY <1>4, <2>4, <3>1 DEF TaskRow
    <3>3. ASSUME NEW n \in Modules(p) \ {m}
          PROVE  /\ f[n].status \in {"IN_PROGRESS", task[p][n].status}
                 /\ f[n].skipped = task[p][n].skipped /\ f[n].scored = task[p][n].scored
      BY <2>4, <3>1 DEF TaskRow
    <3> QED BY <3>2, <3>3
  <2> HIDE DEF f
  <2>8. \A n \in Manual(p) : f[n].status = "COMPLETED" /\ ~f[n].skipped
                               => f[n].scored = Scorers(p, n)
    <3>1. Manual(p) \subseteq Modules(p)
      BY <1>4, DefinitionFacts
    <3>2. ~skip => task[p][m].scored = Scorers(p, m)
      BY <1>2, <1>40
    <3>3. ~f[m].skipped => f[m].scored = Scorers(p, m)
      BY <2>7, <3>2
    <3>4. \A n \in Manual(p) : task[p][n].status = "COMPLETED" /\ ~task[p][n].skipped
                                 => task[p][n].scored = Scorers(p, n)
      BY <1>1, <1>4 DEF ScoredByAll
    <3> QED BY <2>7, <3>1, <3>3, <3>4
  <2>9. TasksOK' /\ ScoredByAll'
    BY <1>1, <1>4, <2>2, <2>6, <2>8, OneAssessmentKeeps
  <2>10. StepsOK' /\ RowsOK'
    BY <1>1, <1>4, <2>1 DEF StepsOK, RowsOK, InstanceRow
  <2>11. r \in CallRecord /\ r.at = "advancing" /\ r.p = p
    BY <1>2, <1>3 DEF CallRecord, Stage
  <2>12. Grounded(r)
    BY <1>4, <2>11 DEF Grounded
  <2> HIDE DEF r
  <2> QED BY <2>1, <2>9, <2>10, <2>11, <2>12, ContinueKeeps
<1>6. CASE ~Fits
  <2>1. Throw(c)
    BY <1>2, <1>6 DEF CompleteTask
  <2> QED BY <2>1, ThrowKeeps
<1> QED BY <1>5, <1>6

LEMMA CollectScoresKeeps ==
  ASSUME PerformanceInv, NEW c \in Calls, CollectScores(c) \/ SkipModule(c)
  PROVE  PerformanceInv'
<1>1. CASE SkipModule(c)
  <2>1. CompleteTask(c) /\ call[c].at = "skipping"
    BY <1>1 DEF SkipModule
  <2> QED BY <2>1, CompleteTaskKeeps
<1>2. CASE CollectScores(c) /\ CompleteTask(c)
              /\ task[call[c].p][call[c].n].scored = Scorers(call[c].p, call[c].n)
  <2>1. call[c].at = "scored"
    BY <1>2 DEF CollectScores
  <2> QED BY <1>2, <2>1, CompleteTaskKeeps
<1>3. CASE Continue(c, Idle) /\ UNCHANGED rows
  BY <1>3, IdleType, ReadingKeeps
<1> QED BY <1>1, <1>2, <1>3 DEF CollectScores

-----------------------------------------------------------------------------
(***************************************************************************)
(* The next module, or the end of the assessment                           *)
(***************************************************************************)
Busy == {"scoring", "skipping", "scored", "acting", "acted"}
Roaming == {"idle", "starting", "measuring", "restarting", "archiving"}

\* A call that goes on to a stage where nothing is asked of what it carries.
LEMMA StageType ==
  ASSUME CallsOK, NEW c \in Calls, call[c].at \notin Roaming,
         NEW at \in Stage \ Busy, NEW n \in Nat, NEW next \in Nat
  PROVE  /\ [call[c] EXCEPT !.at = at] \in CallRecord
         /\ Grounded([call[c] EXCEPT !.at = at])
         /\ [call[c] EXCEPT !.at = at, !.n = n, !.next = next] \in CallRecord
         /\ Grounded([call[c] EXCEPT !.at = at, !.n = n, !.next = next])
<1>1. call[c] \in CallRecord /\ call[c].p \in Participants
  BY DEF CallsOK, Grounded, Roaming
<1>2. /\ [call[c] EXCEPT !.at = at] \in CallRecord
      /\ [call[c] EXCEPT !.at = at].at = at
      /\ [call[c] EXCEPT !.at = at].p = call[c].p
  BY <1>1 DEF CallRecord
<1>3. /\ [call[c] EXCEPT !.at = at, !.n = n, !.next = next] \in CallRecord
      /\ [call[c] EXCEPT !.at = at, !.n = n, !.next = next].at = at
      /\ [call[c] EXCEPT !.at = at, !.n = n, !.next = next].p = call[c].p
  BY <1>1 DEF CallRecord
<1>4. \A r : r.at \notin Busy /\ r.p \in Participants => Grounded(r)
  BY DEF Grounded, Busy
<1> QED BY <1>1, <1>2, <1>3, <1>4

\* A step that leaves the tasks as they are.
LEMMA SameTasks ==
  ASSUME TasksOK, ScoredByAll, UNCHANGED task
  PROVE  TasksOK' /\ ScoredByAll'
  BY DEF TasksOK, ScoredByAll

LEMMA AdvanceKeeps ==
  ASSUME PerformanceInv, NEW c \in Calls, Advance(c)
  PROVE  PerformanceInv'
<1>1. CallsOK /\ RowsOK
  BY DEF PerformanceInv
<1>2. PICK p : p = call[c].p
  OBVIOUS
<1> DEFINE open == {m \in Manual(p) : task[p][m].status \notin {"COMPLETED", "CANCELLED"}}
           first == First(open)
           r == [call[c] EXCEPT !.n = first, !.seen[p] = instance[p].edition,
                   !.at = IF task[p][first].status = "PENDING" THEN "opening" ELSE "resolving"]
<1>3. /\ call[c] \in CallRecord /\ call[c].at = "advancing" /\ UNCHANGED rows
      /\ p \in Participants
  BY <1>1, <1>2 DEF CallsOK, Advance, Grounded
<1>4. CASE ~Member(p) \/ instance[p].assessment = "COMPLETED"
  <2>1. Continue(c, NextStage(c))
    BY <1>2, <1>4 DEF Advance
  <2> QED BY <1>1, <1>3, <2>1, NextStageType, ReadingKeeps
<1>5. CASE ~(~Member(p) \/ instance[p].assessment = "COMPLETED") /\ open # {}
  <2>1. Continue(c, r)
    BY <1>2, <1>5 DEF Advance
  <2>2. r \in CallRecord /\ r.at \in {"opening", "resolving"} /\ r.p = p
    <3>1. open \in SUBSET Nat
      BY <1>3, DefinitionFacts
    <3> HIDE DEF open
    <3>2. first \in Nat
      BY <1>5, <3>1, FirstIsIn
    <3>3. instance[p].edition \in Nat
      BY <1>1, <1>3 DEF RowsOK, InstanceRow
    <3> HIDE DEF first
    <3> QED BY <1>2, <1>3, <3>2, <3>3 DEF CallRecord, Stage
  <2> HIDE DEF r
  <2>3. Grounded(r)
    BY <1>3, <2>2 DEF Grounded
  <2> QED BY <1>3, <2>1, <2>2, <2>3, ReadingKeeps
<1>6. CASE /\ ~(~Member(p) \/ instance[p].assessment = "COMPLETED") /\ open = {}
           /\ \A m \in Modules(p) : task[p][m].status = "COMPLETED"
  <2>1. Continue(c, [call[c] EXCEPT !.at = "finishing"])
    BY <1>2, <1>6 DEF Advance
  <2>2. "finishing" \in Stage \ Busy /\ 0 \in Nat /\ "advancing" \notin Roaming
    BY DEF Stage, Busy, Roaming
  <2> QED BY <1>1, <1>3, <2>1, <2>2, StageType, ReadingKeeps
<1>7. CASE /\ ~(~Member(p) \/ instance[p].assessment = "COMPLETED") /\ open = {}
           /\ ~ \A m \in Modules(p) : task[p][m].status = "COMPLETED"
  <2>1. Continue(c, Idle)
    BY <1>2, <1>7 DEF Advance
  <2> QED BY <1>3, <2>1, IdleType, ReadingKeeps
<1> QED BY <1>4, <1>5, <1>6, <1>7

\* A step that touches one instance.
LEMMA OneInstanceKeeps ==
  ASSUME RowsOK, NEW p \in Participants, NEW row \in InstanceRow,
         instance' = [instance EXCEPT ![p] = row],
         cycle' \in [status : ProcessStatus, archived : BOOLEAN]
  PROVE  RowsOK'
  BY DEF RowsOK

\* A step that touches the workflow of one participant.
LEMMA OneWorkflowKeeps ==
  ASSUME StepsOK, NEW p \in Participants, NEW f \in [Attempts(p) -> StepRow],
         step' = [step EXCEPT ![p] = f]
  PROVE  StepsOK'
<1>1. step = [q \in Participants |-> step[q]]
  BY DEF StepsOK
<1>2. /\ step'[p] = f
      /\ \A q \in Participants \ {p} : step'[q] = step[q]
      /\ step' = [q \in Participants |-> step'[q]]
  BY <1>1
<1> QED BY <1>2 DEF StepsOK

LEMMA OpenModuleKeeps ==
  ASSUME PerformanceInv, NEW c \in Calls, OpenModule(c)
  PROVE  PerformanceInv'
<1>1. CallsOK /\ TasksOK /\ StepsOK /\ RowsOK /\ ScoredByAll
  BY DEF PerformanceInv
<1>2. PICK p, m : p = call[c].p /\ m = call[c].n
  OBVIOUS
<1>3. call[c] \in CallRecord /\ call[c].at = "opening" /\ p \in Participants /\ m \in Nat
  BY <1>1, <1>2 DEF CallsOK, OpenModule, Grounded, CallRecord
<1>4. CASE Known(c, p) /\ task[p][m].status = "PENDING"
  <2> DEFINE f == [task[p] EXCEPT ![m].status = "IN_PROGRESS"]
  <2>1. /\ task' = [task EXCEPT ![p][m].status = "IN_PROGRESS"]
        /\ instance' = [instance EXCEPT ![p].module = m, ![p].assessment = "IN_PROGRESS"]
        /\ Continue(c, [call[c] EXCEPT !.at = "resolving"])
        /\ UNCHANGED <<cycle, step>>
    BY <1>2, <1>4 DEF OpenModule
  <2>2. task' = [task EXCEPT ![p] = f]
    BY <2>1
  <2>3. task[p] \in [Modules(p) -> TaskRow]
    BY <1>1, <1>3 DEF TasksOK
  <2>4. /\ f \in [Modules(p) -> TaskRow]
        /\ \A n \in Modules(p) :
             /\ f[n].status \in {"IN_PROGRESS", task[p][n].status}
             /\ f[n].skipped = task[p][n].skipped /\ f[n].scored = task[p][n].scored
    BY <2>3 DEF TaskRow, TaskStatus
  <2> HIDE DEF f
  <2>5. \A n \in Manual(p) : f[n].status = "COMPLETED" /\ ~f[n].skipped
                               => f[n].scored = Scorers(p, n)
    BY <1>1, <1>3, <2>4, DefinitionFacts DEF ScoredByAll
  <2>6. TasksOK' /\ ScoredByAll'
    BY <1>1, <1>3, <2>2, <2>4, <2>5, OneAssessmentKeeps
  <2>7. StepsOK' /\ RowsOK'
    <3> DEFINE row == [instance[p] EXCEPT !.module = m, !.assessment = "IN_PROGRESS"]
    <3>1. instance[p] \in InstanceRow /\ instance \in [Participants -> InstanceRow]
      BY <1>1, <1>3 DEF RowsOK
    <3>2. row \in InstanceRow
      BY <1>3, <3>1 DEF InstanceRow
    <3>3. instance' = [instance EXCEPT ![p] = row]
      BY <1>3, <2>1, <3>1
    <3> HIDE DEF row
    <3>4. RowsOK'
      BY <1>1, <1>3, <2>1, <3>2, <3>3, OneInstanceKeeps DEF RowsOK
    <3>5. StepsOK'
      BY <1>1, <2>1 DEF StepsOK
    <3> QED BY <3>4, <3>5
  <2>8. "resolving" \in Stage \ Busy /\ 0 \in Nat /\ "opening" \notin Roaming
    BY DEF Stage, Busy, Roaming
  <2> QED BY <1>1, <1>3, <2>1, <2>6, <2>7, <2>8, StageType, ContinueKeeps
<1>5. CASE ~(Known(c, p) /\ task[p][m].status = "PENDING")
  <2>1. Throw(c)
    BY <1>2, <1>5 DEF OpenModule
  <2> QED BY <2>1, ThrowKeeps
<1> QED BY <1>4, <1>5

LEMMA ResolveAssigneesKeeps ==
  ASSUME PerformanceInv, NEW c \in Calls, ResolveAssignees(c)
  PROVE  PerformanceInv'
<1>1. CallsOK /\ TasksOK /\ StepsOK /\ RowsOK /\ ScoredByAll
  BY DEF PerformanceInv
<1>2. PICK p, m : p = call[c].p /\ m = call[c].n
  OBVIOUS
<1>3. p \in Participants
  BY <1>1, <1>2 DEF CallsOK, ResolveAssignees, Grounded
<1>4. CASE Known(c, p)
  <2> DEFINE f == [task[p] EXCEPT ![m].assigned = TRUE]
  <2>1. /\ task' = [task EXCEPT ![p][m].assigned = TRUE]
        /\ Continue(c, NextStage(c))
        /\ UNCHANGED <<cycle, instance, step>>
    BY <1>2, <1>4 DEF ResolveAssignees
  <2>2. task' = [task EXCEPT ![p] = f]
    BY <2>1
  <2>3. task[p] \in [Modules(p) -> TaskRow]
    BY <1>1, <1>3 DEF TasksOK
  <2>4. /\ f \in [Modules(p) -> TaskRow]
        /\ \A n \in Modules(p) :
             /\ f[n].status = task[p][n].status
             /\ f[n].skipped = task[p][n].skipped /\ f[n].scored = task[p][n].scored
    BY <2>3 DEF TaskRow
  <2> HIDE DEF f
  <2>5. \A n \in Manual(p) : f[n].status = "COMPLETED" /\ ~f[n].skipped
                               => f[n].scored = Scorers(p, n)
    BY <1>1, <1>3, <2>4, DefinitionFacts DEF ScoredByAll
  <2>6. TasksOK' /\ ScoredByAll'
    BY <1>1, <1>3, <2>2, <2>4, <2>5, OneAssessmentKeeps
  <2>7. StepsOK' /\ RowsOK'
    BY <1>1, <2>1 DEF StepsOK, RowsOK
  <2> QED BY <1>1, <2>1, <2>6, <2>7, NextStageType, ContinueKeeps
<1>5. CASE ~Known(c, p)
  <2>1. Throw(c)
    BY <1>2, <1>5 DEF ResolveAssignees
  <2> QED BY <2>1, ThrowKeeps
<1> QED BY <1>4, <1>5

LEMMA CloseCycleType ==
  ASSUME RowsOK, NEW p
  PROVE  CloseCycleAfter(p) \in [status : ProcessStatus, archived : BOOLEAN]
  BY DEF RowsOK, CloseCycleAfter, ProcessStatus

LEMMA FinishAssessmentKeeps ==
  ASSUME PerformanceInv, NEW c \in Calls, FinishAssessment(c)
  PROVE  PerformanceInv'
<1>1. CallsOK /\ TasksOK /\ StepsOK /\ RowsOK /\ ScoredByAll
  BY DEF PerformanceInv
<1>2. PICK p : p = call[c].p
  OBVIOUS
<1>3. call[c].at = "finishing"
  BY DEF FinishAssessment
<1>4. CASE Member(p)
  <2>1. /\ instance' = [instance EXCEPT
             ![p].module = 0, ![p].assessment = "COMPLETED",
             ![p].status = IF Steps(p) = {} THEN "COMPLETED" ELSE "IN_PROGRESS"]
        /\ cycle' = IF Steps(p) = {} THEN CloseCycleAfter(p) ELSE cycle
        /\ UNCHANGED <<task, step>>
    BY <1>2, <1>4 DEF FinishAssessment
  <2>2. TasksOK' /\ ScoredByAll'
    BY <1>1, <2>1, SameTasks
  <2>3. StepsOK'
    BY <1>1, <2>1 DEF StepsOK
  <2>4. RowsOK'
    <3>1. cycle' \in [status : ProcessStatus, archived : BOOLEAN]
      BY <1>1, <2>1, CloseCycleType DEF RowsOK
    <3>2. p \in Participants /\ instance[p] \in InstanceRow
      BY <1>1, <1>2, <1>3 DEF RowsOK, CallsOK, Grounded
    <3>3. PICK status \in {"COMPLETED", "IN_PROGRESS"} :
            status = IF Steps(p) = {} THEN "COMPLETED" ELSE "IN_PROGRESS"
      OBVIOUS
    <3> DEFINE row == [instance[p] EXCEPT !.module = 0, !.assessment = "COMPLETED",
                                          !.status = status]
    <3>4. row \in InstanceRow
      BY <3>2 DEF InstanceRow, ProcessStatus
    <3>5. instance' = [instance EXCEPT ![p] = row]
      BY <1>1, <2>1, <3>2, <3>3 DEF RowsOK
    <3> HIDE DEF row
    <3> QED BY <1>1, <3>1, <3>2, <3>4, <3>5, OneInstanceKeeps
  <2>5. CASE Steps(p) = {}
    <3>1. Continue(c, NextStage(c))
      BY <1>2, <1>4, <2>5 DEF FinishAssessment
    <3> QED BY <1>1, <2>2, <2>3, <2>4, <3>1, NextStageType, ContinueKeeps
  <2>6. CASE Steps(p) # {}
    <3>1. Continue(c, [call[c] EXCEPT !.at = "stepping", !.n = 1, !.next = 1])
      BY <1>2, <1>4, <2>6 DEF FinishAssessment
    <3>2. "stepping" \in Stage \ Busy /\ 1 \in Nat /\ "finishing" \notin Roaming
      BY DEF Stage, Busy, Roaming
    <3> QED BY <1>1, <1>3, <2>2, <2>3, <2>4, <3>1, <3>2, StageType, ContinueKeeps
  <2> QED BY <2>5, <2>6
<1>5. CASE ~Member(p)
  <2>1. Throw(c)
    BY <1>2, <1>5 DEF FinishAssessment
  <2> QED BY <2>1, ThrowKeeps
<1> QED BY <1>4, <1>5

-----------------------------------------------------------------------------
(***************************************************************************)
(* The workflow                                                            *)
(***************************************************************************)
(* The attempts at a reviewer step are finitely many, so they can be counted. *)
LEMMA AttemptsFinite == IsFiniteSet(1 .. MaxAttempts)
<1>1. MaxAttempts \in Int
  BY PerformanceAssumption
<1>2. ASSUME NEW m \in Int PROVE IsFiniteSet(1 .. m)
  BY FS_Interval, SMTT(30)
<1> QED BY <1>1, <1>2

LEMMA ReadStepKeeps ==
  ASSUME PerformanceInv, NEW c \in Calls, ReadStep(c)
  PROVE  PerformanceInv'
<1>1. CallsOK /\ call[c].at = "stepping" /\ UNCHANGED rows
  BY DEF PerformanceInv, ReadStep
<1>2. CASE Continue(c, NextStage(c))
  BY <1>1, <1>2, NextStageType, ReadingKeeps
<1>3. CASE ~Continue(c, NextStage(c))
  <2>1. PICK p, s : p = call[c].p /\ s = call[c].n
    OBVIOUS
  <2> DEFINE made == {a \in 1 .. MaxAttempts : step[p][<<s, a>>].status # "ABSENT"}
             attempt == IF call[c].next = 0 THEN Cardinality(made) + 1 ELSE call[c].next
  <2>2. Continue(c, [call[c] EXCEPT !.at = "creating", !.next = attempt])
    BY <1>3, <2>1 DEF ReadStep
  <2>3. call[c].n \in Nat /\ call[c].next \in Nat
    BY <1>1 DEF CallsOK, CallRecord
  <2>4. Cardinality(made) \in Nat
    <3>2. IsFiniteSet(made)
      BY AttemptsFinite, FS_Subset
    <3> QED BY <3>2, FS_CardinalityType
  <2>5. attempt \in Nat
    BY <2>3, <2>4
  <2> HIDE DEF attempt
  <2>6. Continue(c, [call[c] EXCEPT !.at = "creating", !.n = call[c].n, !.next = attempt])
    <3>1. [call[c] EXCEPT !.at = "creating", !.next = attempt]
            = [call[c] EXCEPT !.at = "creating", !.n = call[c].n, !.next = attempt]
      BY <1>1 DEF CallsOK, CallRecord
    <3> QED BY <2>2, <3>1
  <2>7. "creating" \in Stage \ Busy /\ "stepping" \notin Roaming
    BY DEF Stage, Busy, Roaming
  <2> QED BY <1>1, <2>3, <2>5, <2>6, <2>7, StageType, ReadingKeeps
<1> QED BY <1>2, <1>3

LEMMA CreateStepKeeps ==
  ASSUME PerformanceInv, NEW c \in Calls, CreateStep(c)
  PROVE  PerformanceInv'
<1>1. CallsOK /\ TasksOK /\ StepsOK /\ RowsOK /\ ScoredByAll
  BY DEF PerformanceInv
<1>2. PICK p, s, a : p = call[c].p /\ s = call[c].n /\ a = call[c].next
  OBVIOUS
<1>3. p \in Participants /\ s \in Nat
  BY <1>1, <1>2 DEF CallsOK, CreateStep, Grounded, CallRecord
<1>4. CASE Member(p) /\ step[p][<<s, a>>].status = "ABSENT"
  <2>1. /\ step' = [step EXCEPT ![p][<<s, a>>].status = "IN_PROGRESS"]
        /\ instance' = [instance EXCEPT ![p].step = s, ![p].status = "IN_PROGRESS"]
        /\ Continue(c, NextStage(c))
        /\ UNCHANGED <<cycle, task>>
    BY <1>2, <1>4 DEF CreateStep
  <2>2. TasksOK' /\ ScoredByAll'
    BY <1>1, <2>1, SameTasks
  <2>3. StepsOK'
    <3>1. step = [q \in Participants |-> step[q]] /\ step[p] \in [Attempts(p) -> StepRow]
      BY <1>1, <1>3 DEF StepsOK
    <3> DEFINE f == [step[p] EXCEPT ![<<s, a>>].status = "IN_PROGRESS"]
    <3>2. f \in [Attempts(p) -> StepRow]
      BY <3>1 DEF StepRow, TaskStatus
    <3>3. step' = [step EXCEPT ![p] = f]
      BY <2>1
    <3> HIDE DEF f
    <3> QED BY <1>1, <1>3, <3>2, <3>3, OneWorkflowKeeps
  <2>4. RowsOK'
    <3>1. instance[p] \in InstanceRow /\ instance \in [Participants -> InstanceRow]
      BY <1>1, <1>3 DEF RowsOK
    <3> DEFINE row == [instance[p] EXCEPT !.step = s, !.status = "IN_PROGRESS"]
    <3>2. row \in InstanceRow
      BY <1>3, <3>1 DEF InstanceRow, ProcessStatus
    <3>3. instance' = [instance EXCEPT ![p] = row]
      BY <1>3, <2>1, <3>1
    <3> HIDE DEF row
    <3> QED BY <1>1, <1>3, <2>1, <3>2, <3>3, OneInstanceKeeps DEF RowsOK
  <2> QED BY <1>1, <2>1, <2>2, <2>3, <2>4, NextStageType, ContinueKeeps
<1>5. CASE ~(Member(p) /\ step[p][<<s, a>>].status = "ABSENT")
  <2>1. Throw(c)
    BY <1>2, <1>5 DEF CreateStep
  <2> QED BY <2>1, ThrowKeeps
<1> QED BY <1>4, <1>5

LEMMA LoadActionKeeps ==
  ASSUME PerformanceInv, NEW c \in Calls, NEW p \in Participants, NEW sa \in Attempts(p),
         NEW who \in Executors, NEW approve \in BOOLEAN, LoadAction(c, p, sa, who, approve)
  PROVE  PerformanceInv'
<1> DEFINE r == [Idle EXCEPT !.at = "acting", !.p = p, !.n = sa[1], !.next = sa[2],
                             !.who = who, !.approve = approve]
<1>1. sa[1] \in Steps(p) /\ sa[2] \in Nat /\ Steps(p) \subseteq Nat
  BY DefinitionFacts, PerformanceAssumption DEF Attempts
<1>2. /\ r \in CallRecord
      /\ r.at = "acting" /\ r.p = p /\ r.n = sa[1] /\ r.who = who
  BY <1>1, IdleType DEF CallRecord, Stage
<1>3. BeginWith(c, r, {}) /\ UNCHANGED managed
  BY DEF LoadAction, BeginRequest, Begin
<1> HIDE DEF r
<1>4. Grounded(r)
  BY <1>1, <1>2 DEF Grounded
<1>5. managed' \in 0 .. MaxManaged
  BY <1>3 DEF PerformanceInv, RestOK
<1> QED BY <1>2, <1>3, <1>4, <1>5, BeginKeeps

LEMMA CommitActionKeeps ==
  ASSUME PerformanceInv, NEW c \in Calls, CommitAction(c)
  PROVE  PerformanceInv'
<1>1. CallsOK /\ TasksOK /\ StepsOK /\ RowsOK /\ ScoredByAll
  BY DEF PerformanceInv
<1>2. PICK p, sa, who : p = call[c].p /\ sa = <<call[c].n, call[c].next>> /\ who = call[c].who
  OBVIOUS
<1>3. PICK approve : approve = call[c].approve
  OBVIOUS
<1>4. call[c] \in CallRecord /\ call[c].at = "acting" /\ Grounded(call[c])
  BY <1>1 DEF CallsOK, CommitAction
<1>5. p \in Participants /\ who \in Executors /\ call[c].n \in Steps(p)
  BY <1>2, <1>4 DEF Grounded
<1>6. CASE Member(p) /\ who \notin Handled(step[p][sa]) /\ ~step[p][sa].dropped
  <2> DEFINE r == [call[c] EXCEPT !.at = "acted"]
  <2>1. /\ step' = [step EXCEPT
                  ![p][sa].approved = IF approve THEN @ \cup {who} ELSE @,
                  ![p][sa].rejected = IF approve THEN @ ELSE @ \cup {who}]
        /\ Continue(c, r)
        /\ UNCHANGED <<cycle, instance, task>>
    BY <1>2, <1>3, <1>6 DEF CommitAction
  <2>2. TasksOK' /\ ScoredByAll'
    BY <1>1, <2>1, SameTasks
  <2>3. StepsOK'
    <3>1. step = [q \in Participants |-> step[q]] /\ step[p] \in [Attempts(p) -> StepRow]
      BY <1>1, <1>5 DEF StepsOK
    <3> DEFINE f == [step[p] EXCEPT
                      ![sa].approved = IF approve THEN @ \cup {who} ELSE @,
                      ![sa].rejected = IF approve THEN @ ELSE @ \cup {who}]
    <3>2. f \in [Attempts(p) -> StepRow]
      <4> DEFINE row == [step[p][sa] EXCEPT !.approved = IF approve THEN @ \cup {who} ELSE @,
                                            !.rejected = IF approve THEN @ ELSE @ \cup {who}]
      <4>1. step[p][sa] \in StepRow => row \in StepRow
        <5>1. CASE approve
          BY <1>5, <5>1 DEF StepRow
        <5>2. CASE ~approve
          BY <1>5, <5>2 DEF StepRow
        <5> QED BY <5>1, <5>2
      <4>2. f = [step[p] EXCEPT ![sa] = row]
        BY <3>1
      <4> HIDE DEF row, f
      <4> QED BY <3>1, <4>1, <4>2
    <3>3. step' = [step EXCEPT ![p] = f]
      BY <1>5, <2>1, <3>1
    <3> HIDE DEF f
    <3> QED BY <1>1, <1>5, <3>2, <3>3, OneWorkflowKeeps
  <2>4. RowsOK'
    BY <1>1, <2>1 DEF RowsOK
  <2>5. r \in CallRecord /\ r.at = "acted" /\ r.p = p /\ r.n = call[c].n /\ r.who = who
    BY <1>2, <1>4 DEF CallRecord, Stage
  <2>6. Grounded(r)
    BY <1>5, <2>5 DEF Grounded
  <2> HIDE DEF r
  <2> QED BY <2>1, <2>2, <2>3, <2>4, <2>5, <2>6, ContinueKeeps
<1>7. CASE ~(Member(p) /\ who \notin Handled(step[p][sa]) /\ ~step[p][sa].dropped)
  <2>1. Throw(c)
    BY <1>2, <1>7 DEF CommitAction
  <2> QED BY <2>1, ThrowKeeps
<1> QED BY <1>6, <1>7

LEMMA CompleteStepKeeps ==
  ASSUME PerformanceInv, NEW c \in Calls, call[c].at = "acted", CompleteStep(c)
  PROVE  PerformanceInv'
<1>1. CallsOK /\ TasksOK /\ StepsOK /\ RowsOK /\ ScoredByAll
  BY DEF PerformanceInv
<1>2. PICK p, s, sa : p = call[c].p /\ s = call[c].n /\ sa = <<call[c].n, call[c].next>>
  OBVIOUS
<1>3. PICK last \in BOOLEAN : last = (s = Len(Template[p].steps))
  OBVIOUS
<1>4. p \in Participants /\ s \in Nat
  BY <1>1, <1>2 DEF CallsOK, Grounded, CallRecord
<1>5. CASE Member(p) /\ instance[p].step = s
  <2>1. /\ step' = [step EXCEPT ![p][sa].status = "COMPLETED"]
        /\ instance' = [instance EXCEPT
              ![p].step = IF last THEN 0 ELSE s + 1,
              ![p].status = IF last THEN "COMPLETED" ELSE "IN_PROGRESS"]
        /\ cycle' = IF last THEN CloseCycleAfter(p) ELSE cycle
        /\ UNCHANGED task
    BY <1>2, <1>3, <1>5 DEF CompleteStep
  <2>2. TasksOK' /\ ScoredByAll'
    BY <1>1, <2>1, SameTasks
  <2>3. StepsOK'
    <3>1. step = [q \in Participants |-> step[q]] /\ step[p] \in [Attempts(p) -> StepRow]
      BY <1>1, <1>4 DEF StepsOK
    <3> DEFINE f == [step[p] EXCEPT ![sa].status = "COMPLETED"]
    <3>2. f \in [Attempts(p) -> StepRow]
      BY <3>1 DEF StepRow, TaskStatus
    <3>3. step' = [step EXCEPT ![p] = f]
      BY <2>1
    <3> HIDE DEF f
    <3> QED BY <1>1, <1>4, <3>2, <3>3, OneWorkflowKeeps
  <2>4. RowsOK'
    <3>1. instance[p] \in InstanceRow /\ instance \in [Participants -> InstanceRow]
      BY <1>1, <1>4 DEF RowsOK
    <3>2. PICK n \in Nat, status \in {"COMPLETED", "IN_PROGRESS"} :
            n = (IF last THEN 0 ELSE s + 1)
              /\ status = (IF last THEN "COMPLETED" ELSE "IN_PROGRESS")
      BY <1>4
    <3> DEFINE row == [instance[p] EXCEPT !.step = n, !.status = status]
    <3>3. row \in InstanceRow
      BY <3>1 DEF InstanceRow, ProcessStatus
    <3>4. instance' = [instance EXCEPT ![p] = row]
      BY <1>4, <2>1, <3>1, <3>2
    <3>5. cycle' \in [status : ProcessStatus, archived : BOOLEAN]
      BY <1>1, <2>1, CloseCycleType DEF RowsOK
    <3> HIDE DEF row
    <3> QED BY <1>1, <1>4, <3>3, <3>4, <3>5, OneInstanceKeeps
  <2>5. CASE last
    <3>1. Continue(c, Idle)
      BY <1>2, <1>3, <1>5, <2>5 DEF CompleteStep
    <3> QED BY <2>2, <2>3, <2>4, <3>1, IdleType, ContinueKeeps
  <2>6. CASE ~last
    <3>1. Continue(c, [call[c] EXCEPT !.at = "stepping", !.n = s + 1, !.next = 1])
      BY <1>2, <1>3, <1>5, <2>6 DEF CompleteStep
    <3>2. "stepping" \in Stage \ Busy /\ s + 1 \in Nat /\ 1 \in Nat /\ "acted" \notin Roaming
      BY <1>4 DEF Stage, Busy, Roaming
    <3> QED BY <1>1, <2>2, <2>3, <2>4, <3>1, <3>2, StageType, ContinueKeeps
  <2> QED BY <2>5, <2>6
<1>6. CASE ~(Member(p) /\ instance[p].step = s)
  <2>1. Throw(c)
    BY <1>2, <1>6 DEF CompleteStep
  <2> QED BY <2>1, ThrowKeeps
<1> QED BY <1>5, <1>6

LEMMA CollectApprovalsKeeps ==
  ASSUME PerformanceInv, NEW c \in Calls, CollectApprovals(c)
  PROVE  PerformanceInv'
<1>1. CASE CompleteStep(c)
  BY <1>1, CompleteStepKeeps DEF CollectApprovals
<1>2. CASE Continue(c, Idle) /\ UNCHANGED rows
  BY <1>2, IdleType, ReadingKeeps
<1> QED BY <1>1, <1>2 DEF CollectApprovals

LEMMA RejectStepKeeps ==
  ASSUME PerformanceInv, NEW c \in Calls, RejectStep(c)
  PROVE  PerformanceInv'
<1>1. CallsOK /\ TasksOK /\ StepsOK /\ RowsOK /\ ScoredByAll
  BY DEF PerformanceInv
<1>2. PICK p, s, sa, target : /\ p = call[c].p /\ s = call[c].n
                              /\ sa = <<call[c].n, call[c].next>>
                              /\ target = Template[p].steps[s].target
  OBVIOUS
<1>3. call[c].at = "acted" /\ p \in Participants /\ s \in Steps(p)
  BY <1>1, <1>2 DEF CallsOK, RejectStep, Grounded
<1>4. target \in Nat
  BY <1>2, <1>3, DefinitionFacts
<1>5. CASE Member(p) /\ instance[p].step = s
  <2>1. /\ step' = [step EXCEPT ![p][sa].status = "CANCELLED", ![p][sa].dropped = TRUE]
        /\ instance' = [instance EXCEPT
              ![p].step = target,
              ![p].status = IF target = 0 THEN "REJECTED" ELSE "IN_PROGRESS"]
        /\ UNCHANGED <<cycle, task>>
    BY <1>2, <1>5 DEF RejectStep
  <2>2. TasksOK' /\ ScoredByAll'
    BY <1>1, <2>1, SameTasks
  <2>3. StepsOK'
    <3>1. step = [q \in Participants |-> step[q]] /\ step[p] \in [Attempts(p) -> StepRow]
      BY <1>1, <1>3 DEF StepsOK
    <3> DEFINE f == [step[p] EXCEPT ![sa].status = "CANCELLED", ![sa].dropped = TRUE]
    <3>2. f \in [Attempts(p) -> StepRow]
      BY <3>1 DEF StepRow, TaskStatus
    <3>3. step' = [step EXCEPT ![p] = f]
      BY <1>3, <2>1, <3>1
    <3> HIDE DEF f
    <3> QED BY <1>1, <1>3, <3>2, <3>3, OneWorkflowKeeps
  <2>4. RowsOK'
    <3>1. instance[p] \in InstanceRow /\ instance \in [Participants -> InstanceRow]
      BY <1>1, <1>3 DEF RowsOK
    <3>2. PICK status \in {"REJECTED", "IN_PROGRESS"} :
            status = (IF target = 0 THEN "REJECTED" ELSE "IN_PROGRESS")
      OBVIOUS
    <3> DEFINE row == [instance[p] EXCEPT !.step = target, !.status = status]
    <3>3. row \in InstanceRow
      BY <1>4, <3>1 DEF InstanceRow, ProcessStatus
    <3>4. instance' = [instance EXCEPT ![p] = row]
      BY <1>3, <2>1, <3>1, <3>2
    <3> HIDE DEF row
    <3> QED BY <1>1, <1>3, <2>1, <3>3, <3>4, OneInstanceKeeps DEF RowsOK
  <2>5. CASE target = 0
    <3>1. Continue(c, Idle)
      BY <1>2, <1>5, <2>5 DEF RejectStep
    <3> QED BY <2>2, <2>3, <2>4, <3>1, IdleType, ContinueKeeps
  <2>6. CASE target # 0
    <3>1. Continue(c, [call[c] EXCEPT !.at = "stepping", !.n = target, !.next = 0])
      BY <1>2, <1>5, <2>6 DEF RejectStep
    <3>2. "stepping" \in Stage \ Busy /\ 0 \in Nat /\ "acted" \notin Roaming
      BY DEF Stage, Busy, Roaming
    <3> QED BY <1>1, <1>3, <1>4, <2>2, <2>3, <2>4, <3>1, <3>2, StageType, ContinueKeeps
  <2> QED BY <2>5, <2>6
<1>6. CASE ~(Member(p) /\ instance[p].step = s)
  <2>1. Throw(c)
    BY <1>2, <1>6 DEF RejectStep
  <2> QED BY <2>1, ThrowKeeps
<1> QED BY <1>5, <1>6

-----------------------------------------------------------------------------
(***************************************************************************)
(* Management of the cycle                                                 *)
(***************************************************************************)
\* What management does to a module task: it never completes one, and leaves the scores.
Kept(old, new) ==
  \E st \in TaskStatus :
    new = [old EXCEPT !.status = st] /\ (st = "COMPLETED" => old.status = "COMPLETED")

LEMMA AllAssessmentsKeep ==
  ASSUME TasksOK, ScoredByAll, task' = [p \in Participants |-> task'[p]],
         \A p \in Participants :
           /\ task'[p] = [m \in Modules(p) |-> task'[p][m]]
           /\ \A m \in Modules(p) : Kept(task[p][m], task'[p][m])
  PROVE  TasksOK' /\ ScoredByAll'
<1>1. ASSUME NEW p \in Participants, NEW m \in Modules(p)
      PROVE  /\ task'[p][m] \in TaskRow
             /\ task'[p][m].status = "COMPLETED" => task[p][m].status = "COMPLETED"
             /\ task'[p][m].skipped = task[p][m].skipped
             /\ task'[p][m].scored = task[p][m].scored
  <2>1. task[p][m] \in TaskRow
    BY DEF TasksOK
  <2>2. PICK st \in TaskStatus : /\ task'[p][m] = [task[p][m] EXCEPT !.status = st]
                                 /\ st = "COMPLETED" => task[p][m].status = "COMPLETED"
    BY DEF Kept
  <2> QED BY <2>1, <2>2 DEF TaskRow
<1>2. ASSUME NEW p \in Participants
      PROVE  task'[p] \in [Modules(p) -> TaskRow]
  <2>1. \A m \in Modules(p) : task'[p][m] \in TaskRow
    BY <1>1
  <2>2. task'[p] = [m \in Modules(p) |-> task'[p][m]]
    OBVIOUS
  <2>3. \A g : g = [m \in Modules(p) |-> g[m]] /\ (\A m \in Modules(p) : g[m] \in TaskRow)
                 => g \in [Modules(p) -> TaskRow]
    OBVIOUS
  <2> QED BY <2>1, <2>2, <2>3
<1>3. TasksOK'
  BY <1>2 DEF TasksOK
<1>4. ASSUME NEW p \in Participants, NEW m \in Manual(p),
             task'[p][m].status = "COMPLETED" /\ ~task'[p][m].skipped
      PROVE  task'[p][m].scored = Scorers(p, m)
  <2>1. m \in Modules(p)
    BY DefinitionFacts
  <2> QED BY <1>1, <1>4, <2>1 DEF ScoredByAll
<1>5. ScoredByAll'
  BY <1>4 DEF ScoredByAll
<1> QED BY <1>3, <1>5

\* A row that stays as it is, or is given another status.
LEMMA KeptRow ==
  ASSUME NEW row \in TaskRow, NEW st \in TaskStatus
  PROVE  /\ Kept(row, row)
         /\ st # "COMPLETED" => Kept(row, [row EXCEPT !.status = st])
<1>1. row.status \in TaskStatus /\ row = [row EXCEPT !.status = row.status]
  BY DEF TaskRow
<1> QED BY <1>1 DEF Kept

LEMMA StopKeepsRow ==
  ASSUME NEW row \in TaskRow
  PROVE  Kept(row, Stop(row))
<1>1. "CANCELLED" \in TaskStatus
  BY DEF TaskStatus
<1>2. Stop(row) = row \/ Stop(row) = [row EXCEPT !.status = "CANCELLED"]
  BY DEF Stop
<1> QED BY <1>1, <1>2, KeptRow

LEMMA StopTasksKeeps ==
  ASSUME TasksOK, StepsOK, ScoredByAll, NEW ps, StopTasks(ps)
  PROVE  TasksOK' /\ StepsOK' /\ ScoredByAll'
<1>1. /\ task' = [p \in Participants |->
             IF p \in ps THEN [m \in Modules(p) |-> Stop(task[p][m])] ELSE task[p]]
      /\ step' = [p \in Participants |->
             IF p \in ps THEN [sa \in Attempts(p) |-> Stop(step[p][sa])] ELSE step[p]]
  BY DEF StopTasks
<1>2. ASSUME NEW p \in Participants
      PROVE  /\ task'[p] = [m \in Modules(p) |-> task'[p][m]]
             /\ \A m \in Modules(p) : Kept(task[p][m], task'[p][m])
  <2>1. task[p] = [m \in Modules(p) |-> task[p][m]] /\ \A m \in Modules(p) : task[p][m] \in TaskRow
    BY DEF TasksOK
  <2>2. CASE p \in ps
    BY <1>1, <2>1, <2>2, StopKeepsRow
  <2>3. CASE p \notin ps
    <3>1. task'[p] = task[p]
      BY <1>1, <2>3
    <3>2. \A m \in Modules(p) : Kept(task[p][m], task[p][m])
      BY <2>1, KeptRow DEF TaskStatus
    <3> QED BY <2>1, <3>1, <3>2
  <2> QED BY <2>2, <2>3
<1>3. task' = [p \in Participants |-> task'[p]] /\ step' = [p \in Participants |-> step'[p]]
  BY <1>1
<1>4. TasksOK' /\ ScoredByAll'
  BY <1>2, <1>3, AllAssessmentsKeep
<1>5. ASSUME NEW row \in StepRow
      PROVE  Stop(row) \in StepRow
  BY DEF Stop, StepRow, TaskStatus
<1>6. ASSUME NEW p \in Participants
      PROVE  step'[p] \in [Attempts(p) -> StepRow]
  <2>1. step[p] \in [Attempts(p) -> StepRow]
    BY DEF StepsOK
  <2>2. step'[p] = IF p \in ps THEN [sa \in Attempts(p) |-> Stop(step[p][sa])] ELSE step[p]
    BY <1>1
  <2> QED BY <1>5, <2>1, <2>2
<1>7. StepsOK'
  BY <1>3, <1>6 DEF StepsOK
<1> QED BY <1>4, <1>7

\* A step that touches many instances.
LEMMA AllInstancesKeep ==
  ASSUME instance' = [p \in Participants |-> instance'[p]],
         \A p \in Participants : instance'[p] \in InstanceRow,
         cycle' \in [status : ProcessStatus, archived : BOOLEAN]
  PROVE  RowsOK'
<1>1. \A g : g = [p \in Participants |-> g[p]] /\ (\A p \in Participants : g[p] \in InstanceRow)
               => g \in [Participants -> InstanceRow]
  OBVIOUS
<1> QED BY <1>1 DEF RowsOK

LEMMA ManagingType ==
  ASSUME RestOK, Managing
  PROVE  managed' \in 0 .. MaxManaged
<1>1. MaxManaged \in Nat /\ managed \in 0 .. MaxManaged
  BY PerformanceAssumption DEF RestOK
<1> QED BY <1>1 DEF Managing

LEMMA LoadManagementKeeps ==
  ASSUME PerformanceInv, NEW c \in Calls,
         \/ LoadStart(c) \/ LoadArchive(c)
         \/ \E p \in Participants : LoadAdd(c, p) \/ LoadTemplate(c, p)
         \/ \E ps \in SUBSET Participants : LoadRestart(c, ps)
  PROVE  PerformanceInv'
<1>1. RestOK /\ cycle.status \in ProcessStatus
  BY DEF PerformanceInv, RowsOK
<1>2. ASSUME NEW at \in {"starting", "restarting"}, NEW todo \in SUBSET Participants
      PROVE  /\ [Idle EXCEPT !.at = at, !.todo = todo] \in CallRecord
             /\ Grounded([Idle EXCEPT !.at = at, !.todo = todo])
  <2>1. /\ [Idle EXCEPT !.at = at, !.todo = todo] \in CallRecord
        /\ [Idle EXCEPT !.at = at, !.todo = todo].at = at
    BY IdleType DEF CallRecord, Stage
  <2> QED BY <2>1 DEF Grounded
<1>3. CASE LoadStart(c)
  <2>1. PICK todo \in SUBSET Participants :
          BeginWith(c, [Idle EXCEPT !.at = "starting", !.todo = todo], {}) /\ UNCHANGED managed
    BY <1>3 DEF LoadStart, BeginRequest, Begin, Members
  <2>2. managed' \in 0 .. MaxManaged
    BY <1>1, <2>1 DEF RestOK
  <2> DEFINE r == [Idle EXCEPT !.at = "starting", !.todo = todo]
  <2>3. r \in CallRecord /\ Grounded(r)
    BY <1>2
  <2>4. BeginWith(c, r, {})
    BY <2>1
  <2> HIDE DEF r
  <2> QED BY <2>2, <2>3, <2>4, BeginKeeps
<1>4. CASE LoadArchive(c)
  <2> DEFINE r == [Idle EXCEPT !.at = "archiving", !.read = cycle.status]
  <2>1. BeginWith(c, r, {}) /\ managed' \in 0 .. MaxManaged
    BY <1>1, <1>4, ManagingType DEF LoadArchive, BeginManaging, Begin
  <2>2. r \in CallRecord /\ r.at = "archiving"
    BY <1>1, IdleType DEF CallRecord, Stage
  <2> HIDE DEF r
  <2>3. Grounded(r)
    BY <2>2 DEF Grounded
  <2> QED BY <2>1, <2>2, <2>3, BeginKeeps
<1>5. ASSUME NEW p \in Participants, NEW at \in {"adding", "templating"},
             BeginManaging(c, [Idle EXCEPT !.at = at, !.p = p, !.read = cycle.status])
      PROVE  PerformanceInv'
  <2> DEFINE r == [Idle EXCEPT !.at = at, !.p = p, !.read = cycle.status]
  <2>1. BeginWith(c, r, {}) /\ managed' \in 0 .. MaxManaged
    BY <1>1, <1>5, ManagingType DEF BeginManaging, Begin
  <2>2. r \in CallRecord /\ r.at = at /\ r.p = p
    BY <1>1, IdleType DEF CallRecord, Stage
  <2> HIDE DEF r
  <2>3. Grounded(r)
    BY <2>2 DEF Grounded
  <2> QED BY <2>1, <2>2, <2>3, BeginKeeps
<1>6. ASSUME NEW p \in Participants, LoadAdd(c, p) \/ LoadTemplate(c, p)
      PROVE  PerformanceInv'
  BY <1>5, <1>6 DEF LoadAdd, LoadTemplate
<1>7. ASSUME NEW ps \in SUBSET Participants, LoadRestart(c, ps)
      PROVE  PerformanceInv'
  <2> DEFINE r == [Idle EXCEPT !.at = "restarting", !.todo = ps]
  <2>1. BeginWith(c, r, {}) /\ managed' \in 0 .. MaxManaged
    BY <1>1, <1>7, ManagingType DEF LoadRestart, BeginManaging, Begin
  <2>2. r \in CallRecord /\ Grounded(r)
    BY <1>2
  <2> HIDE DEF r
  <2> QED BY <2>1, <2>2, BeginKeeps
<1> QED BY <1>3, <1>4, <1>6, <1>7

LEMMA StartKeeps ==
  ASSUME PerformanceInv, NEW c \in Calls, Start(c)
  PROVE  PerformanceInv'
<1>1. CallsOK /\ TasksOK /\ StepsOK /\ RowsOK /\ ScoredByAll
  BY DEF PerformanceInv
<1>2. PICK todo : todo = call[c].todo
  OBVIOUS
<1> DEFINE r == [call[c] EXCEPT !.at = "measuring"]
<1>3. CASE Throw(c)
  BY <1>3, ThrowKeeps
<1>4. CASE ~Throw(c)
  <2>1. /\ cycle' = [cycle EXCEPT !.status = "IN_PROGRESS"]
        /\ instance' = [p \in Participants |->
             IF p \in todo
             THEN [instance[p] EXCEPT !.status = "IN_PROGRESS",
                     !.assessment = "IN_PROGRESS", !.module = FirstOrNull(Manual(p))]
             ELSE instance[p]]
        /\ task' = [p \in Participants |->
             IF p \in todo /\ Manual(p) # {}
             THEN [task[p] EXCEPT ![First(Manual(p))].status = "IN_PROGRESS"]
             ELSE task[p]]
        /\ Continue(c, r)
        /\ UNCHANGED step
    BY <1>2, <1>4 DEF Start
  <2>2. ASSUME NEW p \in Participants
        PROVE  instance'[p] \in InstanceRow
    <3>1. instance[p] \in InstanceRow
      BY <1>1 DEF RowsOK
    <3>2. FirstOrNull(Manual(p)) \in Nat
      BY DefinitionFacts, FirstOrNullType
    <3>3. instance'[p] = IF p \in todo
            THEN [instance[p] EXCEPT !.status = "IN_PROGRESS",
                    !.assessment = "IN_PROGRESS", !.module = FirstOrNull(Manual(p))]
            ELSE instance[p]
      BY <2>1
    <3> QED BY <3>1, <3>2, <3>3 DEF InstanceRow, ProcessStatus
  <2>3. RowsOK'
    <3>1. cycle' \in [status : ProcessStatus, archived : BOOLEAN]
      BY <1>1, <2>1 DEF RowsOK, ProcessStatus
    <3>2. instance' = [p \in Participants |-> instance'[p]]
      BY <2>1
    <3> QED BY <2>2, <3>1, <3>2, AllInstancesKeep
  <2>4. ASSUME NEW p \in Participants
        PROVE  /\ task'[p] = [m \in Modules(p) |-> task'[p][m]]
               /\ \A m \in Modules(p) : Kept(task[p][m], task'[p][m])
    <3>1. task[p] \in [Modules(p) -> TaskRow]
      BY <1>1 DEF TasksOK
    <3>2. \A m \in Modules(p) : /\ Kept(task[p][m], task[p][m])
                                /\ Kept(task[p][m], [task[p][m] EXCEPT !.status = "IN_PROGRESS"])
      BY <3>1, KeptRow DEF TaskStatus
    <3>3. task'[p] = IF p \in todo /\ Manual(p) # {}
                     THEN [task[p] EXCEPT ![First(Manual(p))].status = "IN_PROGRESS"]
                     ELSE task[p]
      BY <2>1
    <3>4. task'[p] = [m \in Modules(p) |-> task'[p][m]]
      BY <3>1, <3>3
    <3>5. \A m \in Modules(p) : task'[p][m] = task[p][m]
              \/ task'[p][m] = [task[p][m] EXCEPT !.status = "IN_PROGRESS"]
      BY <3>1, <3>3
    <3> QED BY <3>2, <3>4, <3>5
  <2>5. task' = [p \in Participants |-> task'[p]]
    BY <2>1
  <2>6. TasksOK' /\ ScoredByAll'
    BY <1>1, <2>4, <2>5, AllAssessmentsKeep
  <2>7. StepsOK'
    BY <1>1, <2>1 DEF StepsOK
  <2>8. r \in CallRecord /\ r.at = "measuring"
    BY <1>1 DEF CallsOK, CallRecord, Stage
  <2> HIDE DEF r
  <2>9. Grounded(r)
    BY <2>8 DEF Grounded
  <2> QED BY <2>1, <2>3, <2>6, <2>7, <2>8, <2>9, ContinueKeeps
<1> QED BY <1>3, <1>4

\* Only modules that nobody scores are completed by the measurement.
LEMMA MeasureKeeps ==
  ASSUME PerformanceInv, NEW c \in Calls, Measure(c)
  PROVE  PerformanceInv'
<1>1. CallsOK /\ TasksOK /\ StepsOK /\ RowsOK /\ ScoredByAll
  BY DEF PerformanceInv
<1>2. CASE Throw(c)
  BY <1>2, ThrowKeeps
<1>3. CASE ~Throw(c)
  <2>1. PICK p \in call[c].todo :
          /\ task' = [task EXCEPT ![p] = [m \in Modules(p) |->
               IF m \in Metric(p) THEN [@[m] EXCEPT !.status = "COMPLETED"] ELSE @[m]]]
          /\ Continue(c, [call[c] EXCEPT !.at = "advancing", !.p = p, !.todo = @ \ {p}])
          /\ UNCHANGED <<cycle, instance, step>>
    BY <1>3 DEF Measure
  <2>2. call[c] \in CallRecord
    BY <1>1 DEF CallsOK
  <2>3. p \in Participants
    BY <2>2 DEF CallRecord
  <2> DEFINE f == [m \in Modules(p) |->
               IF m \in Metric(p) THEN [task[p][m] EXCEPT !.status = "COMPLETED"]
               ELSE task[p][m]]
             r == [call[c] EXCEPT !.at = "advancing", !.p = p, !.todo = @ \ {p}]
  <2>4. task[p] \in [Modules(p) -> TaskRow]
    BY <1>1, <2>3 DEF TasksOK
  <2>5. f \in [Modules(p) -> TaskRow]
    BY <2>4 DEF TaskRow, TaskStatus
  <2>6. \A m \in Manual(p) : f[m] = task[p][m]
    BY <2>3, DefinitionFacts DEF Metric
  <2>7. task' = [task EXCEPT ![p] = f]
    BY <2>1
  <2>8. r \in CallRecord /\ r.at = "advancing" /\ r.p = p
    BY <2>2, <2>3 DEF CallRecord, Stage
  <2>9. Continue(c, r)
    BY <2>1
  <2> HIDE DEF f, r
  <2>10. \A m \in Manual(p) : f[m].status = "COMPLETED" /\ ~f[m].skipped
                                => f[m].scored = Scorers(p, m)
    BY <1>1, <2>3, <2>6 DEF ScoredByAll
  <2>11. TasksOK' /\ ScoredByAll'
    BY <1>1, <2>3, <2>5, <2>7, <2>10, OneAssessmentKeeps
  <2>12. StepsOK' /\ RowsOK'
    BY <1>1, <2>1 DEF StepsOK, RowsOK
  <2>13. Grounded(r)
    BY <2>3, <2>8 DEF Grounded
  <2> QED BY <2>8, <2>9, <2>11, <2>12, <2>13, ContinueKeeps
<1> QED BY <1>2, <1>3

LEMMA AddKeeps ==
  ASSUME PerformanceInv, NEW c \in Calls, Add(c)
  PROVE  PerformanceInv'
<1>1. CallsOK /\ TasksOK /\ StepsOK /\ RowsOK /\ ScoredByAll
  BY DEF PerformanceInv
<1>2. PICK p, running : p = call[c].p /\ running = (call[c].read = "IN_PROGRESS")
  OBVIOUS
<1>3. p \in Participants /\ call[c] \in CallRecord
  BY <1>1, <1>2 DEF CallsOK, Add, Grounded
<1>4. CASE instance[p].status = "ABSENT"
  <2> DEFINE row == IF running
                    THEN [instance[p] EXCEPT !.status = "IN_PROGRESS",
                            !.assessment = "IN_PROGRESS", !.module = FirstOrNull(Manual(p))]
                    ELSE [instance[p] EXCEPT !.status = "DRAFT"]
             r == [call[c] EXCEPT !.at = "measuring", !.todo = {p}]
  <2>1. /\ instance' = [instance EXCEPT ![p] = row]
        /\ Continue(c, IF running THEN r ELSE Idle)
        /\ UNCHANGED <<cycle, task, step>>
    BY <1>2, <1>4 DEF Add
  <2>2. row \in InstanceRow
    <3>1. instance[p] \in InstanceRow
      BY <1>1, <1>3 DEF RowsOK
    <3>2. FirstOrNull(Manual(p)) \in Nat
      BY <1>3, DefinitionFacts, FirstOrNullType
    <3> QED BY <3>1, <3>2 DEF InstanceRow, ProcessStatus
  <2>3. r \in CallRecord /\ r.at = "measuring"
    BY <1>3 DEF CallRecord, Stage
  <2> HIDE DEF row, r
  <2>4. RowsOK'
    BY <1>1, <1>3, <2>1, <2>2, OneInstanceKeeps DEF RowsOK
  <2>5. TasksOK' /\ ScoredByAll'
    BY <1>1, <2>1, SameTasks
  <2>6. StepsOK'
    BY <1>1, <2>1 DEF StepsOK
  <2>7. Grounded(r)
    BY <2>3 DEF Grounded
  <2>8. CASE running
    BY <2>1, <2>3, <2>4, <2>5, <2>6, <2>7, <2>8, ContinueKeeps
  <2>9. CASE ~running
    BY <2>1, <2>4, <2>5, <2>6, <2>9, IdleType, ContinueKeeps
  <2> QED BY <2>8, <2>9
<1>5. CASE ~(instance[p].status = "ABSENT")
  <2>1. Throw(c)
    BY <1>2, <1>5 DEF Add
  <2> QED BY <2>1, ThrowKeeps
<1> QED BY <1>4, <1>5

LEMMA RemoveKeeps ==
  ASSUME PerformanceInv, NEW p \in Participants, Remove(p)
  PROVE  PerformanceInv'
<1>1. CallsOK /\ TasksOK /\ StepsOK /\ RowsOK /\ RestOK /\ ScoredByAll
  BY DEF PerformanceInv
<1> DEFINE row == [instance[p] EXCEPT !.status = "REMOVED", !.module = 0, !.step = 0]
<1>2. /\ instance' = [instance EXCEPT ![p].status = "REMOVED", ![p].module = 0, ![p].step = 0]
      /\ overlapped' = (overlapped \/ \E c \in Calls : call[c].at # "idle")
      /\ Managing
      /\ UNCHANGED <<cycle, task, step, call, disturbed>>
  BY DEF Remove
<1>3. instance[p] \in InstanceRow /\ row \in InstanceRow
  BY <1>1 DEF RowsOK, InstanceRow
<1>4. instance' = [instance EXCEPT ![p] = row]
  BY <1>1, <1>2 DEF RowsOK
<1> HIDE DEF row
<1>5. RowsOK'
  BY <1>1, <1>2, <1>3, <1>4, OneInstanceKeeps DEF RowsOK
<1>6. TasksOK' /\ ScoredByAll'
  BY <1>1, <1>2, SameTasks
<1>7. StepsOK' /\ CallsOK'
  BY <1>1, <1>2 DEF StepsOK, CallsOK
<1>8. overlapped' \in BOOLEAN
  BY <1>2
<1>9. RestOK'
  BY <1>1, <1>2, <1>8, ManagingType DEF RestOK
<1> QED BY <1>5, <1>6, <1>7, <1>9 DEF PerformanceInv

\* A call that has ended
LEMMA EndType ==
  ASSUME CallsOK, NEW c \in Calls, call' = [call EXCEPT ![c] = Idle]
  PROVE  CallsOK'
  BY IdleType DEF CallsOK

LEMMA UpdateTemplateKeeps ==
  ASSUME PerformanceInv, NEW c \in Calls, UpdateTemplate(c)
  PROVE  PerformanceInv'
<1>1. CallsOK /\ TasksOK /\ StepsOK /\ RowsOK /\ RestOK /\ ScoredByAll
  BY DEF PerformanceInv
<1>2. PICK p, running : p = call[c].p /\ running = (call[c].read = "IN_PROGRESS")
  OBVIOUS
<1>3. p \in Participants
  BY <1>1, <1>2 DEF CallsOK, UpdateTemplate, Grounded
<1>4. CallsOK'
  BY <1>1, EndType DEF UpdateTemplate
<1>5. CASE Member(p) /\ \A m \in Modules(p) : task[p][m].status # "COMPLETED"
  <2> DEFINE row == [instance[p] EXCEPT
                       !.edition = @ + 1,
                       !.module = IF running THEN FirstOrNull(Manual(p)) ELSE 0,
                       !.assessment = IF running THEN "IN_PROGRESS" ELSE "DRAFT"]
  <2>1. /\ task' = [task EXCEPT ![p] = NewTasks(p)]
        /\ instance' = [instance EXCEPT
              ![p].edition = @ + 1,
              ![p].module = IF running THEN FirstOrNull(Manual(p)) ELSE 0,
              ![p].assessment = IF running THEN "IN_PROGRESS" ELSE "DRAFT"]
        /\ disturbed' = IF running THEN disturbed \cup {"management"} ELSE disturbed
        /\ UNCHANGED <<cycle, step, managed, overlapped>>
    BY <1>2, <1>5 DEF UpdateTemplate
  <2>2. instance[p] \in InstanceRow
    BY <1>1, <1>3 DEF RowsOK
  <2>3. row \in InstanceRow
    <3>1. FirstOrNull(Manual(p)) \in Nat
      BY <1>3, DefinitionFacts, FirstOrNullType
    <3>2. PICK e \in Nat, m \in Nat, a \in {"DRAFT", "IN_PROGRESS"} :
            /\ e = instance[p].edition + 1
            /\ m = IF running THEN FirstOrNull(Manual(p)) ELSE 0
            /\ a = IF running THEN "IN_PROGRESS" ELSE "DRAFT"
      <4>1. instance[p].edition + 1 \in Nat
        BY <2>2 DEF InstanceRow
      <4> QED BY <3>1, <4>1
    <3>3. row = [instance[p] EXCEPT !.edition = e, !.module = m, !.assessment = a]
      BY <2>2, <3>2 DEF InstanceRow
    <3> HIDE DEF row
    <3> QED BY <2>2, <3>3 DEF InstanceRow
  <2>4. instance' = [instance EXCEPT ![p] = row]
    BY <1>1, <1>3, <2>1 DEF RowsOK
  <2> HIDE DEF row
  <2>5. RowsOK'
    BY <1>1, <1>3, <2>1, <2>3, <2>4, OneInstanceKeeps DEF RowsOK
  <2>6. NewTasks(p) \in [Modules(p) -> TaskRow] /\ \A m \in Manual(p) : NewTasks(p)[m].status # "COMPLETED"
    BY <1>3, DefinitionFacts DEF NewTasks, NewTask, TaskRow, TaskStatus
  <2>7. TasksOK' /\ ScoredByAll'
    BY <1>1, <1>3, <2>1, <2>6, OneAssessmentKeeps
  <2>8. StepsOK' /\ RestOK'
    BY <1>1, <2>1 DEF StepsOK, RestOK, Disturbance
  <2> QED BY <1>4, <2>5, <2>7, <2>8 DEF PerformanceInv
<1>6. CASE ~(Member(p) /\ \A m \in Modules(p) : task[p][m].status # "COMPLETED")
  <2>1. UNCHANGED <<cycle, instance, task, step, managed, overlapped, disturbed>>
    BY <1>2, <1>6 DEF UpdateTemplate, rows
  <2>2. TasksOK' /\ StepsOK' /\ RowsOK' /\ RestOK' /\ ScoredByAll'
    BY <1>1, <2>1 DEF TasksOK, StepsOK, RowsOK, RestOK, ScoredByAll
  <2> QED BY <1>4, <2>2 DEF PerformanceInv
<1> QED BY <1>5, <1>6

\* A restart takes back every task but the completed ones.
LEMMA RestartKeeps ==
  ASSUME PerformanceInv, NEW c \in Calls, Restart(c)
  PROVE  PerformanceInv'
<1>1. CallsOK /\ TasksOK /\ StepsOK /\ RowsOK /\ RestOK /\ ScoredByAll
  BY DEF PerformanceInv
<1>2. PICK todo : todo = call[c].todo \cap Members
  OBVIOUS
<1> DEFINE reset(row) == IF row.status = "COMPLETED" THEN row
                         ELSE [row EXCEPT !.status = "PENDING"]
           again(row) == IF row.status \in {"ABSENT", "COMPLETED"} THEN row
                         ELSE [row EXCEPT !.status = "PENDING"]
<1>3. /\ cycle' = [cycle EXCEPT !.status = "IN_PROGRESS"]
      /\ instance' = [p \in Participants |->
           IF p \in todo
           THEN [instance[p] EXCEPT !.status = "IN_PROGRESS", !.assessment = "IN_PROGRESS",
                                    !.module = 0, !.step = 0]
           ELSE instance[p]]
      /\ task' = [p \in Participants |->
           IF p \in todo THEN [m \in Modules(p) |-> reset(task[p][m])] ELSE task[p]]
      /\ step' = [p \in Participants |->
           IF p \in todo THEN [sa \in Attempts(p) |-> again(step[p][sa])] ELSE step[p]]
      /\ call' = [call EXCEPT ![c] = Idle]
      /\ disturbed' = disturbed \cup {"management"}
      /\ UNCHANGED <<managed, overlapped>>
  BY <1>2 DEF Restart
<1>4. CallsOK' /\ RestOK'
  BY <1>1, <1>3, EndType DEF RestOK, Disturbance
<1>5. RowsOK'
  <2>1. ASSUME NEW p \in Participants
        PROVE  instance'[p] \in InstanceRow
    <3>1. instance[p] \in InstanceRow
      BY <1>1 DEF RowsOK
    <3>2. instance'[p] = IF p \in todo
           THEN [instance[p] EXCEPT !.status = "IN_PROGRESS", !.assessment = "IN_PROGRESS",
                                    !.module = 0, !.step = 0]
           ELSE instance[p]
      BY <1>3
    <3> DEFINE half == [instance[p] EXCEPT !.status = "IN_PROGRESS", !.assessment = "IN_PROGRESS"]
    <3>3. half \in InstanceRow
      BY <3>1 DEF InstanceRow, ProcessStatus
    <3>4. [half EXCEPT !.module = 0, !.step = 0] \in InstanceRow
      <4> HIDE DEF half
      <4> QED BY <3>3 DEF InstanceRow
    <3>5. CASE p \in todo
      <4>1. instance'[p] = [half EXCEPT !.module = 0, !.step = 0]
        BY <3>1, <3>2, <3>5 DEF InstanceRow
      <4> HIDE DEF half
      <4> QED BY <3>4, <4>1
    <3>6. CASE p \notin todo
      BY <3>1, <3>2, <3>6
    <3> QED BY <3>5, <3>6
  <2>2. cycle' \in [status : ProcessStatus, archived : BOOLEAN]
    BY <1>1, <1>3 DEF RowsOK, ProcessStatus
  <2>3. instance' = [p \in Participants |-> instance'[p]]
    BY <1>3
  <2> QED BY <2>1, <2>2, <2>3, AllInstancesKeep
<1>6. TasksOK' /\ ScoredByAll'
  <2>1. ASSUME NEW p \in Participants
        PROVE  /\ task'[p] = [m \in Modules(p) |-> task'[p][m]]
               /\ \A m \in Modules(p) : Kept(task[p][m], task'[p][m])
    <3>1. task[p] = [m \in Modules(p) |-> task[p][m]] /\ \A m \in Modules(p) : task[p][m] \in TaskRow
      BY <1>1 DEF TasksOK
    <3>2. \A m \in Modules(p) : Kept(task[p][m], task[p][m]) /\ Kept(task[p][m], reset(task[p][m]))
      BY <3>1, KeptRow DEF TaskStatus
    <3>3. task'[p] = IF p \in todo THEN [m \in Modules(p) |-> reset(task[p][m])] ELSE task[p]
      BY <1>3
    <3> HIDE DEF reset
    <3> QED BY <3>1, <3>2, <3>3
  <2>2. task' = [p \in Participants |-> task'[p]]
    BY <1>3
  <2> QED BY <1>1, <2>1, <2>2, AllAssessmentsKeep
<1>7. StepsOK'
  <2>1. ASSUME NEW row \in StepRow
        PROVE  again(row) \in StepRow
    BY DEF StepRow, TaskStatus
  <2>2. ASSUME NEW p \in Participants
        PROVE  step'[p] \in [Attempts(p) -> StepRow]
    <3>1. step[p] \in [Attempts(p) -> StepRow]
      BY <1>1 DEF StepsOK
    <3>2. step'[p] = IF p \in todo THEN [sa \in Attempts(p) |-> again(step[p][sa])] ELSE step[p]
      BY <1>3
    <3> HIDE DEF again
    <3> QED BY <2>1, <3>1, <3>2
  <2>3. step' = [p \in Participants |-> step'[p]]
    BY <1>3
  <2> QED BY <2>2, <2>3 DEF StepsOK
<1> QED BY <1>4, <1>5, <1>6, <1>7 DEF PerformanceInv

LEMMA CloseKeeps ==
  ASSUME PerformanceInv, NEW ps, Close(ps)
  PROVE  PerformanceInv'
<1>1. CallsOK /\ TasksOK /\ StepsOK /\ RowsOK /\ RestOK /\ ScoredByAll
  BY DEF PerformanceInv
<1>2. /\ Managing
      /\ StopTasks(ps)
      /\ instance' = [p \in Participants |->
           IF p \in ps THEN [instance[p] EXCEPT !.status = "CANCELLED"] ELSE instance[p]]
      /\ cycle' \in {cycle, [cycle EXCEPT !.status = "CANCELLED"]}
      /\ overlapped' = (overlapped \/ \E c \in Calls : call[c].at # "idle")
      /\ UNCHANGED <<call, disturbed>>
  BY DEF Close
<1>3. TasksOK' /\ StepsOK' /\ ScoredByAll'
  BY <1>1, <1>2, StopTasksKeeps
<1>4. RowsOK'
  <2>1. \A p \in Participants : instance'[p] \in InstanceRow
    BY <1>1, <1>2 DEF RowsOK, InstanceRow, ProcessStatus
  <2>2. cycle' \in [status : ProcessStatus, archived : BOOLEAN]
    BY <1>1, <1>2 DEF RowsOK, ProcessStatus
  <2>3. instance' = [p \in Participants |-> instance'[p]]
    BY <1>2
  <2> QED BY <2>1, <2>2, <2>3, AllInstancesKeep
<1>5. CallsOK'
  BY <1>1, <1>2 DEF CallsOK
<1>6. overlapped' \in BOOLEAN
  BY <1>2
<1>7. RestOK'
  BY <1>1, <1>2, <1>6, ManagingType DEF RestOK
<1> QED BY <1>3, <1>4, <1>5, <1>7 DEF PerformanceInv

LEMMA ArchiveKeeps ==
  ASSUME PerformanceInv, NEW c \in Calls, Archive(c)
  PROVE  PerformanceInv'
<1>1. CallsOK /\ TasksOK /\ StepsOK /\ RowsOK /\ RestOK /\ ScoredByAll
  BY DEF PerformanceInv
<1>2. Continue(c, Idle) /\ call[c].read \in ProcessStatus
  BY <1>1 DEF Archive, CallsOK, CallRecord
<1>3. CASE call[c].read = "IN_PROGRESS"
  <2>1. PICK running :
          /\ cycle' = [status |-> "CANCELLED", archived |-> TRUE]
          /\ instance' = [p \in Participants |->
               IF p \in running THEN [instance[p] EXCEPT !.status = "CANCELLED"]
               ELSE instance[p]]
          /\ StopTasks(Members)
    BY <1>3 DEF Archive
  <2>2. TasksOK' /\ StepsOK' /\ ScoredByAll'
    BY <1>1, <2>1, StopTasksKeeps
  <2>3. RowsOK'
    <3>1. \A p \in Participants : instance'[p] \in InstanceRow
      BY <1>1, <2>1 DEF RowsOK, InstanceRow, ProcessStatus
    <3>2. cycle' \in [status : ProcessStatus, archived : BOOLEAN]
      BY <2>1 DEF ProcessStatus
    <3>3. instance' = [p \in Participants |-> instance'[p]]
      BY <2>1
    <3> QED BY <3>1, <3>2, <3>3, AllInstancesKeep
  <2> QED BY <1>2, <2>2, <2>3, IdleType, ContinueKeeps
<1>4. CASE call[c].read # "IN_PROGRESS"
  <2>1. /\ cycle' = [status |-> call[c].read, archived |-> TRUE]
        /\ UNCHANGED <<instance, task, step>>
    BY <1>4 DEF Archive
  <2>2. TasksOK' /\ ScoredByAll'
    BY <1>1, <2>1, SameTasks
  <2>3. StepsOK'
    BY <1>1, <2>1 DEF StepsOK
  <2>4. RowsOK'
    BY <1>1, <1>2, <2>1 DEF RowsOK
  <2> QED BY <1>2, <2>2, <2>3, <2>4, IdleType, ContinueKeeps
<1> QED BY <1>3, <1>4

-----------------------------------------------------------------------------
(***************************************************************************)
(* The theorems                                                            *)
(***************************************************************************)
LEMMA InitHolds == Init => PerformanceInv
<1> SUFFICES ASSUME Init PROVE PerformanceInv
  OBVIOUS
<1>1. CallsOK
  BY IdleType DEF Init, CallsOK
<1>2. \A p \in Participants : /\ NewTasks(p) \in [Modules(p) -> TaskRow]
                              /\ \A m \in Manual(p) : NewTasks(p)[m].status = "PENDING"
  BY DefinitionFacts DEF NewTasks, NewTask, TaskRow, TaskStatus
<1>3. task = [p \in Participants |-> NewTasks(p)]
  BY DEF Init
<1>4. TasksOK /\ ScoredByAll
  BY <1>2, <1>3 DEF TasksOK, ScoredByAll
<1>5. StepsOK
  BY DEF Init, StepsOK, NoStep, StepRow, TaskStatus
<1>6. RowsOK
  BY DEF Init, RowsOK, InstanceRow, ProcessStatus
<1>7. RestOK
  <2>1. managed = 0 /\ overlapped = FALSE /\ disturbed = {}
    BY DEF Init
  <2>2. 0 \in 0 .. MaxManaged
    BY PerformanceAssumption
  <2> QED BY <2>1, <2>2 DEF RestOK
<1> QED BY <1>1, <1>4, <1>5, <1>6, <1>7 DEF PerformanceInv

LEMMA NextKeeps == PerformanceInv /\ [Next]_vars => PerformanceInv'
<1> SUFFICES ASSUME PerformanceInv, [Next]_vars
             PROVE  PerformanceInv'
  OBVIOUS
<1>1. ASSUME NEW c \in Calls, Request(c)
      PROVE  PerformanceInv'
  BY <1>1, LoadScoreKeeps, LoadActionKeeps, LoadManagementKeeps DEF Request
<1>2. ASSUME NEW c \in Calls, Proceed(c)
      PROVE  PerformanceInv'
  <2>1. CASE \/ CommitScore(c) \/ CollectScores(c) \/ SkipModule(c)
             \/ Advance(c) \/ OpenModule(c) \/ ResolveAssignees(c) \/ FinishAssessment(c)
    BY <2>1, CommitScoreKeeps, CollectScoresKeeps, AdvanceKeeps, OpenModuleKeeps,
       ResolveAssigneesKeeps, FinishAssessmentKeeps
  <2>2. CASE \/ ReadStep(c) \/ CreateStep(c)
             \/ CommitAction(c) \/ CollectApprovals(c) \/ RejectStep(c)
    BY <2>2, ReadStepKeeps, CreateStepKeeps, CommitActionKeeps, CollectApprovalsKeeps,
       RejectStepKeeps
  <2>3. CASE Start(c) \/ Measure(c) \/ Add(c) \/ UpdateTemplate(c) \/ Restart(c) \/ Archive(c)
    BY <2>3, StartKeeps, MeasureKeeps, AddKeeps, UpdateTemplateKeeps, RestartKeeps, ArchiveKeeps
  <2> QED BY <1>2, <2>1, <2>2, <2>3 DEF Proceed
<1>3. ASSUME NEW c \in Calls, Interrupt(c)
      PROVE  PerformanceInv'
  BY <1>3, InterruptKeeps
<1>4. ASSUME NEW p \in Participants, Remove(p)
      PROVE  PerformanceInv'
  BY <1>4, RemoveKeeps
<1>5. ASSUME NEW ps \in SUBSET Participants, Close(ps)
      PROVE  PerformanceInv'
  BY <1>5, CloseKeeps
<1>6. CASE UNCHANGED vars
  BY <1>6 DEF vars, rows, PerformanceInv, CallsOK, TasksOK, StepsOK, RowsOK, RestOK, ScoredByAll
<1> QED BY <1>1, <1>2, <1>3, <1>4, <1>5, <1>6 DEF Next

\* Whatever calls race, are cut off or are overtaken by the management of the cycle, the
\* rows keep their shape and a call acts on a module, a step and an executor that exist.
THEOREM PerformanceInvariance == Spec => []PerformanceInv
<1>1. Init => PerformanceInv
  BY InitHolds
<1>2. PerformanceInv /\ [Next]_vars => PerformanceInv'
  BY NextKeeps
<1> QED BY <1>1, <1>2, PTL DEF Spec

\* Every row and every call has its type, for any cycle and any number of managers'
\* requests and of racing calls.
THEOREM PerformanceTyped == Spec => []PerformanceTypeOK
<1>1. PerformanceInv => PerformanceTypeOK
  BY DEF PerformanceInv, CallsOK, TasksOK, StepsOK, RowsOK, RestOK, PerformanceTypeOK
<1> QED BY <1>1, PerformanceInvariance, PTL

\* submitAssigneeScore and completeTask: a module completed without being skipped has the
\* score of every one of its scorers, however the submissions race.
THEOREM CompletedModulesAreScored == Spec => []ScoredByAll
<1>1. PerformanceInv => ScoredByAll
  BY DEF PerformanceInv
<1> QED BY <1>1, PerformanceInvariance, PTL

-----------------------------------------------------------------------------
(***************************************************************************)
(* The order of the modules                                                *)
(*                                                                         *)
(* OneModuleAtATime and ResultIsFrozen are not inductive either: a chain   *)
(* opens, completes or finishes by what its call has read before.          *)
(* SeriesInv says why that is still true, and Advances what a step may do  *)
(* to the modules of a participant, whichever action it is.                *)
(***************************************************************************)
Done(p, m) == task[p][m].status \in {"COMPLETED", "CANCELLED"}
AllDone(p) == \A m \in Modules(p) : task[p][m].status = "COMPLETED"

\* The manual modules of p are taken one after the other: once one of them is cancelled none
\* is open or will be opened; before an open one, and before the current one, all are done.
InOrder(p) ==
  /\ \A m, n \in Manual(p) : task[p][m].status = "CANCELLED" => Done(p, n)
  /\ \A m, n \in Manual(p) : task[p][n].status = "IN_PROGRESS" /\ m < n => Done(p, m)
  /\ \A m \in Manual(p) : m < instance[p].module => Done(p, m)

\* What a call has read still holds: the module it is about to open comes after completed
\* ones only, the one it goes on with comes right after its own, unless it is completed by
\* now, and the assessment it is about to finish has no module left.
Abreast(r) ==
  /\ r.at = "opening" => \A k \in Manual(r.p) : k < r.n => task[r.p][k].status = "COMPLETED"
  /\ r.at \in {"scoring", "skipping", "scored"} =>
       \/ r.next = 0
       \/ r.next \in Manual(r.p) /\ task[r.p][r.next].status = "COMPLETED"
       \/ r.next \in Manual(r.p) /\ \A k \in Manual(r.p) : k < r.next => k <= r.n
  /\ r.at = "finishing" => AllDone(r.p)

SeriesInv ==
  /\ \A p \in Participants : InOrder(p)
  /\ \A c \in Calls : Abreast(call[c])
  /\ \A p \in Participants : instance[p].assessment = "COMPLETED" => AllDone(p)

\* What a step may do to the modules of a participant: nothing but measuring, open one after
\* completed ones, complete the current one, take all but the completed ones back, replace
\* them when none is completed, or cancel what is not done.
Rests(p) ==
  /\ \A m \in Modules(p) : \/ task'[p][m].status = task[p][m].status
                           \/ m \notin Manual(p) /\ task'[p][m].status = "COMPLETED"
  /\ instance'[p].module \in {instance[p].module, 0, FirstOrNull(Manual(p))}
Opens(p) ==
  \E m \in Nat :
    /\ task[p][m].status = "PENDING"
    /\ \A k \in Manual(p) : k < m => task[p][k].status = "COMPLETED"
    /\ \A n \in Modules(p) :
         task'[p][n].status = IF n = m THEN "IN_PROGRESS" ELSE task[p][n].status
    /\ instance'[p].module = m
Completes(p) ==
  \E m \in Modules(p), next \in Nat :
    /\ instance[p].module = m
    /\ \/ next = 0
       \/ task[p][next].status = "PENDING" /\ \A k \in Manual(p) : k < next => k <= m
    /\ \A n \in Modules(p) :
         task'[p][n].status = IF n = m THEN "COMPLETED"
                              ELSE IF n = next THEN "IN_PROGRESS" ELSE task[p][n].status
    /\ instance'[p].module = next
TakesBack(p) ==
  /\ \A n \in Modules(p) :
       task'[p][n].status = IF task[p][n].status = "COMPLETED" THEN "COMPLETED" ELSE "PENDING"
  /\ instance'[p].module = 0
Renews(p) ==
  /\ \A n \in Modules(p) : task[p][n].status # "COMPLETED" /\ task'[p][n].status = "PENDING"
  /\ instance'[p].module \in {0, FirstOrNull(Manual(p))}
Cancels(p) ==
  /\ \A n \in Modules(p) :
       task'[p][n].status = IF Done(p, n) THEN task[p][n].status ELSE "CANCELLED"
  /\ instance'[p].module = instance[p].module

Moves(p) == Rests(p) \/ Opens(p) \/ Completes(p) \/ TakesBack(p) \/ Renews(p) \/ Cancels(p)
Concludes(p) ==
  instance'[p].assessment = "COMPLETED" => instance[p].assessment = "COMPLETED" \/ AllDone(p)
CallGoesOn ==
  call' = call \/ \E c \in Calls, r \in CallRecord : call' = [call EXCEPT ![c] = r] /\ Abreast(r)'
Advances == (\A p \in Participants : Moves(p) /\ Concludes(p)) /\ CallGoesOn
Lasts(p) == \A m \in Modules(p) : task[p][m].status = "COMPLETED" => task'[p][m].status = "COMPLETED"

LEMMA NothingBeforeFirst ==
  ASSUME NEW p \in Participants
  PROVE  /\ FirstOrNull(Manual(p)) \in Nat
         /\ \A k \in Manual(p) : ~ (k < FirstOrNull(Manual(p))) /\ ~ (k < 0)
<1>1. Manual(p) \in SUBSET Nat
  BY DefinitionFacts
<1>2. FirstOrNull(Manual(p)) \in Nat
  BY <1>1, FirstOrNullType
<1>3. ASSUME NEW k \in Manual(p) PROVE FirstOrNull(Manual(p)) <= k
  BY <1>1, FirstIsIn DEF FirstOrNull
<1> QED BY <1>1, <1>2, <1>3

\* A completed module stays completed.
LEMMA CompletedLasts ==
  ASSUME NEW p \in Participants, Moves(p)
  PROVE  Lasts(p)
<1>1. CASE Rests(p)
  BY <1>1 DEF Rests, Lasts
<1>2. CASE Opens(p)
  BY <1>2 DEF Opens, Lasts
<1>3. CASE Completes(p)
  <2>1. PICK m \in Modules(p), next \in Nat :
          /\ next = 0 \/ task[p][next].status = "PENDING"
          /\ \A n \in Modules(p) :
               task'[p][n].status = IF n = m THEN "COMPLETED"
                                    ELSE IF n = next THEN "IN_PROGRESS" ELSE task[p][n].status
    BY <1>3 DEF Completes
  <2>2. 0 \notin Modules(p)
    BY DefinitionFacts
  <2> QED BY <2>1, <2>2 DEF Lasts
<1>4. CASE TakesBack(p)
  BY <1>4 DEF TakesBack, Lasts
<1>5. CASE Renews(p)
  BY <1>5 DEF Renews, Lasts
<1>6. CASE Cancels(p)
  BY <1>6 DEF Cancels, Done, Lasts
<1> QED BY <1>1, <1>2, <1>3, <1>4, <1>5, <1>6 DEF Moves

LEMMA OrderKept ==
  ASSUME TasksOK, NEW p \in Participants, InOrder(p), Moves(p)
  PROVE  InOrder(p)'
<1>1. Manual(p) \subseteq Modules(p) /\ Modules(p) \subseteq Nat \ {0}
  BY DefinitionFacts
<1>2. /\ \A m, n \in Manual(p) : task[p][m].status = "CANCELLED" => Done(p, n)
      /\ \A m, n \in Manual(p) : task[p][n].status = "IN_PROGRESS" /\ m < n => Done(p, m)
      /\ \A m \in Manual(p) : m < instance[p].module => Done(p, m)
  BY DEF InOrder
<1>3. \A m \in Modules(p) : task[p][m].status \in TaskStatus
  BY DEF TasksOK, TaskRow
<1>4. CASE Rests(p)
  <2>1. \A m \in Manual(p) : task'[p][m].status = task[p][m].status
    BY <1>1, <1>4 DEF Rests
  <2>2. \A m \in Manual(p) : m < instance'[p].module => m < instance[p].module
    BY <1>4, NothingBeforeFirst DEF Rests
  <2> QED BY <1>2, <2>1, <2>2 DEF InOrder, Done
<1>5. CASE Opens(p)
  <2>1. PICK m \in Nat :
          /\ task[p][m].status = "PENDING"
          /\ \A k \in Manual(p) : k < m => task[p][k].status = "COMPLETED"
          /\ \A n \in Modules(p) :
               task'[p][n].status = IF n = m THEN "IN_PROGRESS" ELSE task[p][n].status
          /\ instance'[p].module = m
    BY <1>5 DEF Opens
  <2>2. \A n \in Manual(p) : /\ Done(p, n) => n # m
                             /\ n # m => task'[p][n].status = task[p][n].status
    BY <1>1, <2>1 DEF Done
  <2>3. \A n \in Manual(p) : Done(p, n) => Done(p, n)'
    BY <2>2 DEF Done
  <2>4. \A k \in Manual(p) : k < m => Done(p, k)
    BY <2>1 DEF Done
  <2>5. \A n \in Manual(p) : task'[p][n].status = "CANCELLED" => task[p][n].status = "CANCELLED"
    BY <1>1, <2>1
  <2>6. \A n \in Manual(p) : task'[p][n].status = "IN_PROGRESS"
                               => n = m \/ task[p][n].status = "IN_PROGRESS"
    BY <2>2
  <2> QED BY <1>2, <2>1, <2>3, <2>4, <2>5, <2>6 DEF InOrder
<1>6. CASE Completes(p)
  <2>1. PICK m \in Modules(p), next \in Nat :
          /\ instance[p].module = m
          /\ \/ next = 0
             \/ task[p][next].status = "PENDING" /\ \A k \in Manual(p) : k < next => k <= m
          /\ \A n \in Modules(p) :
               task'[p][n].status = IF n = m THEN "COMPLETED"
                                    ELSE IF n = next THEN "IN_PROGRESS" ELSE task[p][n].status
          /\ instance'[p].module = next
    BY <1>6 DEF Completes
  <2>2. \A n \in Manual(p) : Done(p, n) => n # next
    BY <1>1, <2>1 DEF Done
  <2>3. \A n \in Manual(p) : Done(p, n) \/ n = m => Done(p, n)'
    BY <1>1, <2>1, <2>2 DEF Done
  <2>4. \A k \in Manual(p) : k < next => Done(p, k)'
    BY <1>1, <1>2, <2>1, <2>3
  <2>5. \A n \in Manual(p) : task'[p][n].status = "CANCELLED" => task[p][n].status = "CANCELLED"
    BY <1>1, <2>1
  <2>6. \A n \in Manual(p) : task'[p][n].status = "IN_PROGRESS"
                               => n = next \/ task[p][n].status = "IN_PROGRESS"
    BY <1>1, <2>1
  <2> QED BY <1>2, <2>1, <2>3, <2>4, <2>5, <2>6 DEF InOrder
<1>7. CASE TakesBack(p)
  <2>1. \A n \in Manual(p) : task'[p][n].status \in {"COMPLETED", "PENDING"}
    BY <1>1, <1>7 DEF TakesBack
  <2>2. \A n \in Manual(p) : ~ (n < instance'[p].module)
    BY <1>7, NothingBeforeFirst DEF TakesBack
  <2> QED BY <2>1, <2>2 DEF InOrder
<1>8. CASE Renews(p)
  <2>1. \A n \in Manual(p) : task'[p][n].status = "PENDING"
    BY <1>1, <1>8 DEF Renews
  <2>2. \A n \in Manual(p) : ~ (n < instance'[p].module)
    BY <1>8, NothingBeforeFirst DEF Renews
  <2> QED BY <2>1, <2>2 DEF InOrder
<1>9. CASE Cancels(p)
  <2>1. \A n \in Manual(p) : Done(p, n)'
    BY <1>1, <1>9 DEF Cancels, Done
  <2> QED BY <2>1 DEF InOrder
<1> QED BY <1>4, <1>5, <1>6, <1>7, <1>8, <1>9 DEF Moves

LEMMA StaysAbreast ==
  ASSUME NEW r, Grounded(r), Abreast(r), \A p \in Participants : Lasts(p)
  PROVE  Abreast(r)'
<1>1. r.at \in {"opening", "scoring", "skipping", "scored", "finishing"} => r.p \in Participants
  BY DEF Grounded
<1>2. \A p \in Participants : Manual(p) \subseteq Modules(p)
  BY DefinitionFacts
<1>3. CASE r.at = "opening"
  BY <1>1, <1>2, <1>3 DEF Abreast, Lasts
<1>4. CASE r.at \in {"scoring", "skipping", "scored"}
  BY <1>1, <1>2, <1>4 DEF Abreast, Lasts
<1>5. CASE r.at = "finishing"
  BY <1>1, <1>5 DEF Abreast, AllDone, Lasts
<1>6. CASE r.at \notin {"opening", "scoring", "skipping", "scored", "finishing"}
  BY <1>6 DEF Abreast
<1> QED BY <1>3, <1>4, <1>5, <1>6

LEMMA AdvancesKeeps ==
  ASSUME PerformanceInv, SeriesInv, Advances
  PROVE  SeriesInv'
<1>1. CallsOK /\ TasksOK
  BY DEF PerformanceInv
<1>2. \A p \in Participants : Lasts(p)
  BY CompletedLasts DEF Advances
<1>3. \A p \in Participants : InOrder(p)'
  BY <1>1, OrderKept DEF SeriesInv, Advances
<1>4. \A d \in Calls : Abreast(call[d])'
  <2>1. ASSUME NEW d \in Calls, call'[d] = call[d]
        PROVE  Abreast(call[d])'
    <3>1. PICK r : r = call[d]
      OBVIOUS
    <3>2. Grounded(r) /\ Abreast(r)
      BY <1>1, <3>1 DEF CallsOK, SeriesInv
    <3>3. Abreast(r)'
      BY <1>2, <3>2, StaysAbreast
    <3>4. call'[d] = r
      BY <2>1, <3>1
    <3> QED BY <3>3, <3>4 DEF Abreast
  <2>2. CASE call' = call
    BY <2>1, <2>2
  <2>3. ASSUME NEW c \in Calls, NEW r \in CallRecord, call' = [call EXCEPT ![c] = r], Abreast(r)'
        PROVE  \A d \in Calls : Abreast(call[d])'
    <3>1. call'[c] = r
      BY <1>1, <2>3 DEF CallsOK
    <3>2. Abreast(call[c])'
      BY <2>3, <3>1 DEF Abreast
    <3>3. \A d \in Calls \ {c} : call'[d] = call[d]
      BY <1>1, <2>3 DEF CallsOK
    <3> QED BY <2>1, <3>2, <3>3
  <2> QED BY <2>2, <2>3 DEF Advances, CallGoesOn
<1>5. ASSUME NEW p \in Participants, instance'[p].assessment = "COMPLETED"
      PROVE  AllDone(p)'
  <2>1. AllDone(p)
    BY <1>5 DEF Advances, Concludes, SeriesInv
  <2> QED BY <1>2, <2>1 DEF AllDone, Lasts
<1> QED BY <1>3, <1>4, <1>5 DEF SeriesInv

-----------------------------------------------------------------------------
(***************************************************************************)
(* Every step advances                                                     *)
(***************************************************************************)
Careful == {"opening", "scoring", "skipping", "scored", "finishing"}

\* A call that has read nothing it will rely on
LEMMA FreeCall ==
  ASSUME NEW c \in Calls, NEW r \in CallRecord, r.at \notin Careful, call' = [call EXCEPT ![c] = r]
  PROVE  CallGoesOn
  BY DEF CallGoesOn, Abreast, Careful

LEMMA IdleCall ==
  ASSUME NEW c \in Calls, call' = [call EXCEPT ![c] = Idle]
  PROVE  CallGoesOn
  BY IdleType, FreeCall DEF Careful

LEMMA NextStageCall ==
  ASSUME CallsOK, NEW c \in Calls, Continue(c, NextStage(c))
  PROVE  CallGoesOn
<1>1. call[c] \in CallRecord /\ NextStage(c) \in CallRecord
  BY NextStageType DEF CallsOK
<1>2. NextStage(c).at \in {"idle", "measuring"}
  <2>1. CASE call[c].todo = {}
    BY <2>1, IdleType DEF NextStage
  <2>2. CASE call[c].todo # {}
    BY <1>1, <2>2 DEF NextStage, CallRecord
  <2> QED BY <2>1, <2>2
<1> QED BY <1>1, <1>2, FreeCall DEF Continue, Careful

\* A participant the step does not concern
LEMMA Untouched ==
  ASSUME NEW p \in Participants,
         \A m \in Modules(p) : task'[p][m].status = task[p][m].status,
         instance'[p].module = instance[p].module,
         instance'[p].assessment = "COMPLETED" => instance[p].assessment = "COMPLETED"
  PROVE  Moves(p) /\ Concludes(p)
  BY DEF Moves, Rests, Concludes

LEMMA StillAdvances ==
  ASSUME UNCHANGED task, UNCHANGED instance, CallGoesOn
  PROVE  Advances
  BY Untouched DEF Advances

LEMMA ThrowAdvances ==
  ASSUME NEW c \in Calls, Throw(c)
  PROVE  Advances
  BY IdleCall, StillAdvances DEF Throw, Continue, rows

\* A step that touches the modules and the instance of one participant
LEMMA OneAdvances ==
  ASSUME TasksOK, RowsOK, NEW p \in Participants, NEW f, NEW row,
         task' = [task EXCEPT ![p] = f], instance' = [instance EXCEPT ![p] = row],
         Moves(p), Concludes(p), CallGoesOn
  PROVE  Advances
<1>1. ASSUME NEW q \in Participants, q # p
      PROVE  task'[q] = task[q] /\ instance'[q] = instance[q]
  BY <1>1 DEF TasksOK, RowsOK
<1>2. ASSUME NEW q \in Participants, q # p
      PROVE  Moves(q) /\ Concludes(q)
  BY <1>1, <1>2, Untouched
<1> QED BY <1>2 DEF Advances

-----------------------------------------------------------------------------
LEMMA ScoringAdvances ==
  ASSUME PerformanceInv, SeriesInv, NEW c \in Calls, NEW p \in Participants,
         NEW m \in Modules(p), NEW who \in Executors,
         LoadScore(c, p, m, who) \/ LoadSkip(c, p, m, who) \/ LoadCardScore(c, p, m, who)
  PROVE  Advances
<1>1. /\ Modules(p) \subseteq Nat \ {0}
      /\ Manual(p) \subseteq Modules(p)
  BY DefinitionFacts
<1> DEFINE S == {n \in Manual(p) : n > m /\ task[p][n].status # "CANCELLED"}
           next == NextTask(p, m)
<1>2. next = 0 \/ (next \in S /\ \A n \in S : next <= n)
  <2>1. S \in SUBSET Nat
    BY <1>1
  <2> HIDE DEF S
  <2>2. FirstOrNull(S) = 0 \/ (FirstOrNull(S) \in S /\ \A n \in S : FirstOrNull(S) <= n)
    BY <2>1, FirstIsIn DEF FirstOrNull
  <2> QED BY <2>2 DEF NextTask, S
<1>3. \/ next = 0
      \/ next \in Manual(p) /\ task[p][next].status = "COMPLETED"
      \/ next \in Manual(p) /\ \A k \in Manual(p) : k < next => k <= m
  <2>1. ASSUME next # 0, NEW k \in Manual(p), k < next, ~ (k <= m)
        PROVE  next \in Manual(p) /\ task[p][next].status = "COMPLETED"
    <3>1. next \in S /\ (k \in S => next <= k)
      BY <1>2, <2>1
    <3>2. next \in Nat /\ k \in Nat /\ m \in Nat
      BY <1>1, <3>1
    <3>3. task[p][k].status = "CANCELLED"
      <4> HIDE DEF next
      <4> QED BY <2>1, <3>1, <3>2
    <3>4. Done(p, next)
      BY <3>1, <3>3 DEF SeriesInv, InOrder
    <3> QED BY <3>1, <3>4 DEF Done
  <2>2. next # 0 => next \in Manual(p)
    BY <1>2
  <2> HIDE DEF next
  <2> QED BY <2>1, <2>2
<1>4. PICK at \in {"scoring", "skipping"} : \E d : BeginWith(c, Scoring(at, p, m, who), d)
  BY DEF LoadScore, LoadSkip, LoadCardScore, BeginRequest, Begin
<1>5. PICK r : /\ r = [Scoring(at, p, m, who) EXCEPT
                          !.seen = [q \in Participants |-> instance[q].edition]]
               /\ call' = [call EXCEPT ![c] = r] /\ UNCHANGED <<task, instance>>
  BY <1>4 DEF BeginWith, rows
<1>6. r \in CallRecord /\ r.at = at /\ r.p = p /\ r.n = m /\ r.next = next
  <2>1. [q \in Participants |-> instance[q].edition] \in [Participants -> Nat]
    BY DEF PerformanceInv, RowsOK, InstanceRow
  <2>2. next \in Nat
    BY <1>1, <1>2
  <2> HIDE DEF next
  <2>3. NextTask(p, m) = next
    BY DEF next
  <2> QED BY <1>1, <1>5, <2>1, <2>2, <2>3, IdleType DEF Scoring, CallRecord, Stage
<1> HIDE DEF next
<1>7. Abreast(r)
  BY <1>3, <1>6 DEF Abreast
<1>8. Abreast(r)'
  BY <1>5, <1>6, <1>7 DEF Abreast
<1> QED BY <1>5, <1>6, <1>8, StillAdvances DEF CallGoesOn

LEMMA CommitScoreAdvances ==
  ASSUME PerformanceInv, SeriesInv, NEW c \in Calls, CommitScore(c)
  PROVE  Advances
<1>1. CallsOK /\ TasksOK /\ RowsOK
  BY DEF PerformanceInv
<1>2. PICK p, m, who : p = call[c].p /\ m = call[c].n /\ who = call[c].who
  OBVIOUS
<1>3. call[c].at = "scoring" /\ call[c] \in CallRecord /\ Grounded(call[c]) /\ Abreast(call[c])
  BY <1>1 DEF CommitScore, CallsOK, SeriesInv
<1>4. p \in Participants /\ Manual(p) \subseteq Modules(p)
  BY <1>2, <1>3, DefinitionFacts DEF Grounded
<1>5. CASE Throw(c)
  BY <1>5, ThrowAdvances
<1>6. CASE ~Throw(c)
  <2> DEFINE f == [task[p] EXCEPT ![m].scored = @ \cup {who}]
  <2>1. PICK r :
        /\ r = [call[c] EXCEPT !.at = "scored"]
        /\ task' = [task EXCEPT ![p][m].scored = @ \cup {who}]
        /\ call' = [call EXCEPT ![c] = r]
        /\ UNCHANGED instance
    BY <1>2, <1>6 DEF CommitScore, Continue
  <2>2. task[p] \in [Modules(p) -> TaskRow]
    BY <1>1, <1>4 DEF TasksOK
  <2>3. \A n \in Modules(p) : f[n].status = task[p][n].status
    BY <2>2 DEF TaskRow
  <2>4. task' = [task EXCEPT ![p] = f] /\ instance' = [instance EXCEPT ![p] = instance[p]]
    BY <1>1, <2>1 DEF RowsOK
  <2> HIDE DEF f
  <2>5. \A n \in Modules(p) : task'[p][n].status = task[p][n].status
    BY <1>1, <1>4, <2>3, <2>4 DEF TasksOK
  <2>6. r \in CallRecord /\ r.at = "scored" /\ r.p = p /\ r.n = m /\ r.next = call[c].next
    BY <1>2, <1>3, <2>1 DEF CallRecord, Stage
  <2>7. Abreast(r)'
    BY <1>2, <1>3, <1>4, <2>5, <2>6 DEF Abreast
  <2>8. CallGoesOn
    BY <2>1, <2>6, <2>7 DEF CallGoesOn
  <2>9. Moves(p) /\ Concludes(p)
    BY <1>4, <2>1, <2>5, Untouched
  <2> QED BY <1>1, <1>4, <2>4, <2>8, <2>9, OneAdvances
<1> QED BY <1>5, <1>6

LEMMA CompleteTaskAdvances ==
  ASSUME PerformanceInv, SeriesInv, NEW c \in Calls, CompleteTask(c),
         call[c].at \in {"skipping", "scored"}
  PROVE  Advances
<1>1. CallsOK /\ TasksOK /\ RowsOK
  BY DEF PerformanceInv
<1>2. PICK p, m, next : p = call[c].p /\ m = call[c].n /\ next = call[c].next
  OBVIOUS
<1>3. call[c] \in CallRecord /\ Grounded(call[c]) /\ Abreast(call[c])
  BY <1>1 DEF CallsOK, SeriesInv
<1>4. p \in Participants /\ m \in Modules(p) /\ next \in Nat /\ next # m
  BY <1>2, <1>3 DEF Grounded, CallRecord
<1>40. PICK skip \in BOOLEAN : skip = (call[c].at = "skipping")
  OBVIOUS
<1>5. CASE Throw(c)
  BY <1>5, ThrowAdvances
<1>6. CASE ~Throw(c)
  <2> DEFINE r == [call[c] EXCEPT !.at = "advancing"]
             row == [instance[p] EXCEPT !.module = next]
             f == [n \in Modules(p) |->
                    CASE n = m -> [task[p][m] EXCEPT !.status = "COMPLETED", !.skipped = skip]
                      [] n = next -> [task[p][n] EXCEPT !.status = "IN_PROGRESS"]
                      [] OTHER -> task[p][n]]
  <2>1. /\ next = 0 \/ task[p][next].status = "PENDING"
        /\ instance[p].module = m
        /\ task' = [task EXCEPT ![p] = [n \in Modules(p) |->
                CASE n = m -> [@[m] EXCEPT !.status = "COMPLETED",
                                           !.skipped = (call[c].at = "skipping")]
                  [] n = next -> [@[n] EXCEPT !.status = "IN_PROGRESS"]
                  [] OTHER -> @[n]]]
        /\ instance' = [instance EXCEPT ![p].module = next]
        /\ call' = [call EXCEPT ![c] = r]
    BY <1>2, <1>6 DEF CompleteTask, Continue
  <2>2. task' = [task EXCEPT ![p] = f]
    BY <1>40, <2>1
  <2>3. instance[p] \in InstanceRow /\ instance' = [instance EXCEPT ![p] = row]
    BY <1>1, <1>4, <2>1 DEF RowsOK
  <2>4. \A n \in Modules(p) : task[p][n] \in TaskRow
    BY <1>1, <1>4 DEF TasksOK
  <2>5. \A n \in Modules(p) :
          f[n].status = IF n = m THEN "COMPLETED"
                        ELSE IF n = next THEN "IN_PROGRESS" ELSE task[p][n].status
    <3>1. f[m] = [task[p][m] EXCEPT !.status = "COMPLETED", !.skipped = skip]
      BY <1>4
    <3>2. ASSUME NEW n \in Modules(p) \ {m}
          PROVE  f[n] = IF n = next THEN [task[p][n] EXCEPT !.status = "IN_PROGRESS"]
                        ELSE task[p][n]
      BY <1>4
    <3> HIDE DEF f
    <3>3. f[m].status = "COMPLETED"
      BY <1>4, <2>4, <3>1 DEF TaskRow
    <3>4. ASSUME NEW n \in Modules(p) \ {m}
          PROVE  f[n].status = IF n = next THEN "IN_PROGRESS" ELSE task[p][n].status
      BY <2>4, <3>2 DEF TaskRow
    <3> QED BY <3>3, <3>4
  <2> HIDE DEF f
  <2>6. \A n \in Modules(p) :
          task'[p][n].status = IF n = m THEN "COMPLETED"
                               ELSE IF n = next THEN "IN_PROGRESS" ELSE task[p][n].status
    BY <1>1, <1>4, <2>2, <2>5 DEF TasksOK
  <2>7. /\ instance'[p].module = next
        /\ instance'[p].assessment = instance[p].assessment
    BY <1>1, <1>4, <2>3 DEF RowsOK, InstanceRow
  <2>8. \/ next = 0
        \/ task[p][next].status = "PENDING" /\ \A k \in Manual(p) : k < next => k <= m
    BY <1>2, <1>3, <2>1 DEF Abreast
  <2>9. Moves(p) /\ Concludes(p)
    BY <1>4, <2>1, <2>6, <2>7, <2>8 DEF Moves, Completes, Concludes
  <2>10. r \in CallRecord /\ r.at = "advancing"
    BY <1>3 DEF CallRecord, Stage
  <2> HIDE DEF r, row
  <2>11. CallGoesOn
    BY <2>1, <2>10, FreeCall DEF Careful
  <2> QED BY <1>1, <1>4, <2>2, <2>3, <2>9, <2>11, OneAdvances
<1> QED BY <1>5, <1>6

LEMMA CollectScoresAdvances ==
  ASSUME PerformanceInv, SeriesInv, NEW c \in Calls, CollectScores(c) \/ SkipModule(c)
  PROVE  Advances
<1>1. CASE CompleteTask(c)
  BY <1>1, CompleteTaskAdvances DEF CollectScores, SkipModule
<1>2. CASE Continue(c, Idle) /\ UNCHANGED rows
  BY <1>2, IdleCall, StillAdvances DEF Continue, rows
<1> QED BY <1>1, <1>2 DEF CollectScores, SkipModule

LEMMA AdvanceAdvances ==
  ASSUME PerformanceInv, SeriesInv, NEW c \in Calls, Advance(c)
  PROVE  Advances
<1>1. CallsOK /\ TasksOK /\ RowsOK
  BY DEF PerformanceInv
<1>2. PICK p : p = call[c].p
  OBVIOUS
<1> DEFINE open == {m \in Manual(p) : task[p][m].status \notin {"COMPLETED", "CANCELLED"}}
           first == First(open)
<1>3. /\ call[c] \in CallRecord /\ call[c].at = "advancing" /\ p \in Participants
      /\ UNCHANGED <<task, instance>>
  BY <1>1, <1>2 DEF CallsOK, Advance, Grounded, rows
<1>4. CASE Continue(c, NextStage(c))
  BY <1>1, <1>3, <1>4, NextStageCall, StillAdvances
<1>5. CASE Continue(c, Idle)
  BY <1>3, <1>5, IdleCall, StillAdvances DEF Continue
<1>6. CASE /\ open # {}
           /\ Continue(c, [call[c] EXCEPT !.n = first, !.seen[p] = instance[p].edition,
                !.at = IF task[p][first].status = "PENDING" THEN "opening" ELSE "resolving"])
  <2>1. Manual(p) \subseteq Nat
    BY <1>3, DefinitionFacts
  <2>2. first \in open /\ \A n \in open : first <= n
    <3>1. open \in SUBSET Nat
      BY <2>1
    <3> HIDE DEF open
    <3> QED BY <1>6, <3>1, FirstIsIn
  <2>3. \A k \in Manual(p) : k < first => task[p][k].status = "COMPLETED"
    <3>1. ASSUME NEW k \in Manual(p), k < first
          PROVE  task[p][k].status = "COMPLETED"
      <4>1. k \in Nat /\ first \in Nat /\ (k \in open => first <= k)
        BY <2>1, <2>2
      <4>2. Done(p, k)
        <5> HIDE DEF first
        <5> QED BY <3>1, <4>1 DEF Done
      <4>3. task[p][k].status # "CANCELLED"
        BY <1>3, <2>2, <3>1 DEF SeriesInv, InOrder, Done
      <4> QED BY <4>2, <4>3 DEF Done
    <3> QED BY <3>1
  <2>40. PICK at \in {"opening", "resolving"} :
           at = IF task[p][first].status = "PENDING" THEN "opening" ELSE "resolving"
    OBVIOUS
  <2>4. PICK r :
          /\ at = IF task[p][first].status = "PENDING" THEN "opening" ELSE "resolving"
          /\ r = [call[c] EXCEPT !.n = first, !.seen[p] = instance[p].edition, !.at = at]
          /\ call' = [call EXCEPT ![c] = r]
    BY <1>6, <2>40 DEF Continue
  <2>5. PICK n \in Nat, e \in Nat : n = first /\ e = instance[p].edition
    BY <1>1, <1>3, <2>1, <2>2 DEF RowsOK, InstanceRow
  <2> HIDE DEF first
  <2>6. r \in CallRecord /\ r.at = at /\ r.p = p /\ r.n = n
    BY <1>2, <1>3, <2>4, <2>5 DEF CallRecord, Stage
  <2>7. Abreast(r)'
    BY <1>3, <2>3, <2>5, <2>6 DEF Abreast
  <2>8. CallGoesOn
    BY <2>4, <2>6, <2>7 DEF CallGoesOn
  <2> QED BY <1>3, <2>8, StillAdvances
<1>7. CASE AllDone(p) /\ Continue(c, [call[c] EXCEPT !.at = "finishing"])
  <2>1. PICK r : r = [call[c] EXCEPT !.at = "finishing"] /\ call' = [call EXCEPT ![c] = r]
    BY <1>7 DEF Continue
  <2>2. r \in CallRecord /\ r.at = "finishing" /\ r.p = p
    BY <1>2, <1>3, <2>1 DEF CallRecord, Stage
  <2>3. Abreast(r)'
    BY <1>3, <1>7, <2>2 DEF Abreast, AllDone
  <2>4. CallGoesOn
    BY <2>1, <2>2, <2>3 DEF CallGoesOn
  <2> QED BY <1>3, <2>4, StillAdvances
<1>8. \/ Continue(c, NextStage(c))
      \/ Continue(c, Idle)
      \/ AllDone(p) /\ Continue(c, [call[c] EXCEPT !.at = "finishing"])
      \/ /\ open # {}
         /\ Continue(c, [call[c] EXCEPT !.n = first, !.seen[p] = instance[p].edition,
                !.at = IF task[p][first].status = "PENDING" THEN "opening" ELSE "resolving"])
  BY <1>2 DEF Advance, AllDone
<1> QED BY <1>4, <1>5, <1>6, <1>7, <1>8

LEMMA OpenModuleAdvances ==
  ASSUME PerformanceInv, SeriesInv, NEW c \in Calls, OpenModule(c)
  PROVE  Advances
<1>1. CallsOK /\ TasksOK /\ RowsOK
  BY DEF PerformanceInv
<1>2. PICK p, m : p = call[c].p /\ m = call[c].n
  OBVIOUS
<1>3. /\ call[c] \in CallRecord /\ call[c].at = "opening" /\ p \in Participants /\ m \in Nat
      /\ Abreast(call[c])
  BY <1>1, <1>2 DEF CallsOK, OpenModule, Grounded, CallRecord, SeriesInv
<1>4. CASE Throw(c)
  BY <1>4, ThrowAdvances
<1>5. CASE ~Throw(c)
  <2> DEFINE r == [call[c] EXCEPT !.at = "resolving"]
             row == [instance[p] EXCEPT !.module = m, !.assessment = "IN_PROGRESS"]
             f == [task[p] EXCEPT ![m].status = "IN_PROGRESS"]
  <2>1. /\ task[p][m].status = "PENDING"
        /\ task' = [task EXCEPT ![p][m].status = "IN_PROGRESS"]
        /\ instance' = [instance EXCEPT ![p].module = m, ![p].assessment = "IN_PROGRESS"]
        /\ call' = [call EXCEPT ![c] = r]
    BY <1>2, <1>5 DEF OpenModule, Continue
  <2>2. task[p] \in [Modules(p) -> TaskRow] /\ instance[p] \in InstanceRow
    BY <1>1, <1>3 DEF TasksOK, RowsOK
  <2>3. task' = [task EXCEPT ![p] = f]
    BY <2>1
  <2>4. instance' = [instance EXCEPT ![p] = row]
    BY <1>1, <1>3, <2>1 DEF RowsOK
  <2>5. \A n \in Modules(p) : f[n].status = IF n = m THEN "IN_PROGRESS" ELSE task[p][n].status
    BY <2>2 DEF TaskRow
  <2>6. row.module = m /\ row.assessment = "IN_PROGRESS"
    BY <2>2 DEF InstanceRow
  <2> HIDE DEF f, row
  <2>7. task'[p] = f /\ instance'[p] = row
    BY <1>1, <1>3, <2>3, <2>4 DEF TasksOK, RowsOK
  <2>8. \A k \in Manual(p) : k < m => task[p][k].status = "COMPLETED"
    BY <1>2, <1>3 DEF Abreast
  <2>9. Moves(p)
    BY <1>3, <2>1, <2>5, <2>6, <2>7, <2>8 DEF Moves, Opens
  <2>10. Concludes(p)
    BY <2>6, <2>7 DEF Concludes
  <2>11. r \in CallRecord /\ r.at = "resolving"
    BY <1>3 DEF CallRecord, Stage
  <2> HIDE DEF r
  <2>12. CallGoesOn
    BY <2>1, <2>11, FreeCall DEF Careful
  <2> QED BY <1>1, <1>3, <2>3, <2>4, <2>9, <2>10, <2>12, OneAdvances
<1> QED BY <1>4, <1>5

LEMMA ResolveAssigneesAdvances ==
  ASSUME PerformanceInv, NEW c \in Calls, ResolveAssignees(c)
  PROVE  Advances
<1>1. CallsOK /\ TasksOK /\ RowsOK
  BY DEF PerformanceInv
<1>2. PICK p, m : p = call[c].p /\ m = call[c].n
  OBVIOUS
<1>3. p \in Participants
  BY <1>1, <1>2 DEF CallsOK, ResolveAssignees, Grounded
<1>4. CASE Throw(c)
  BY <1>4, ThrowAdvances
<1>5. CASE ~Throw(c)
  <2> DEFINE f == [task[p] EXCEPT ![m].assigned = TRUE]
  <2>1. /\ task' = [task EXCEPT ![p][m].assigned = TRUE]
        /\ Continue(c, NextStage(c))
        /\ UNCHANGED instance
    BY <1>2, <1>5 DEF ResolveAssignees
  <2>2. task[p] \in [Modules(p) -> TaskRow]
    BY <1>1, <1>3 DEF TasksOK
  <2>3. \A n \in Modules(p) : f[n].status = task[p][n].status
    BY <2>2 DEF TaskRow
  <2>4. task' = [task EXCEPT ![p] = f] /\ instance' = [instance EXCEPT ![p] = instance[p]]
    BY <1>1, <2>1 DEF RowsOK
  <2> HIDE DEF f
  <2>5. \A n \in Modules(p) : task'[p][n].status = task[p][n].status
    BY <1>1, <1>3, <2>3, <2>4 DEF TasksOK
  <2>6. Moves(p) /\ Concludes(p)
    BY <1>3, <2>1, <2>5, Untouched
  <2> QED BY <1>1, <1>3, <2>1, <2>4, <2>6, NextStageCall, OneAdvances
<1> QED BY <1>4, <1>5

LEMMA FinishAssessmentAdvances ==
  ASSUME PerformanceInv, SeriesInv, NEW c \in Calls, FinishAssessment(c)
  PROVE  Advances
<1>1. CallsOK /\ TasksOK /\ RowsOK
  BY DEF PerformanceInv
<1>2. PICK p : p = call[c].p
  OBVIOUS
<1>3. /\ call[c] \in CallRecord /\ call[c].at = "finishing" /\ p \in Participants
      /\ Abreast(call[c])
  BY <1>1, <1>2 DEF FinishAssessment, CallsOK, Grounded, SeriesInv
<1>4. CASE Throw(c)
  BY <1>4, ThrowAdvances
<1>5. CASE ~Throw(c)
  <2>1. PICK row :
          /\ row = [instance[p] EXCEPT
                !.module = 0, !.assessment = "COMPLETED",
                !.status = IF Steps(p) = {} THEN "COMPLETED" ELSE "IN_PROGRESS"]
          /\ instance' = [instance EXCEPT ![p] = row]
          /\ UNCHANGED task
    BY <1>1, <1>2, <1>3, <1>5 DEF FinishAssessment, RowsOK
  <2>2. row.module = 0
    BY <1>1, <1>3, <2>1 DEF RowsOK, InstanceRow
  <2>3. instance'[p].module = 0
    BY <1>1, <1>3, <2>1, <2>2 DEF RowsOK
  <2>4. Moves(p)
    BY <2>1, <2>3 DEF Moves, Rests
  <2>5. Concludes(p)
    BY <1>2, <1>3 DEF Concludes, Abreast
  <2>6. CallGoesOn
    <3>1. CASE Continue(c, NextStage(c))
      BY <1>1, <3>1, NextStageCall
    <3>2. CASE Continue(c, [call[c] EXCEPT !.at = "stepping", !.n = 1, !.next = 1])
      <4>1. PICK r : /\ r = [call[c] EXCEPT !.at = "stepping", !.n = 1, !.next = 1]
                     /\ call' = [call EXCEPT ![c] = r]
        BY <3>2 DEF Continue
      <4>2. r \in CallRecord /\ r.at = "stepping"
        BY <1>3, <4>1 DEF CallRecord, Stage
      <4> QED BY <4>1, <4>2, FreeCall DEF Careful
    <3> QED BY <1>5, <3>1, <3>2 DEF FinishAssessment
  <2>7. task' = [task EXCEPT ![p] = task[p]]
    BY <1>1, <2>1 DEF TasksOK
  <2> QED BY <1>1, <1>3, <2>1, <2>4, <2>5, <2>6, <2>7, OneAdvances
<1> QED BY <1>4, <1>5

\* The workflow leaves the modules alone.
LEMMA WorkflowAdvances ==
  ASSUME PerformanceInv, NEW c \in Calls,
         ReadStep(c) \/ CreateStep(c) \/ CommitAction(c) \/ CollectApprovals(c) \/ RejectStep(c)
  PROVE  Advances
<1>1. CallsOK /\ RowsOK
  BY DEF PerformanceInv
<1>2. call[c] \in CallRecord
  BY <1>1 DEF CallsOK
<1>3. ASSUME NEW p, NEW s, NEW st,
             UNCHANGED task, instance' = [instance EXCEPT ![p].step = s, ![p].status = st],
             CallGoesOn
      PROVE  Advances
  <2>1. ASSUME NEW q \in Participants
        PROVE  /\ instance'[q].module = instance[q].module
               /\ instance'[q].assessment = instance[q].assessment
    <3>1. instance[q] \in InstanceRow
      BY <1>1 DEF RowsOK
    <3>2. instance'[q] = IF q = p THEN [instance[q] EXCEPT !.step = s, !.status = st]
                         ELSE instance[q]
      BY <1>1, <1>3 DEF RowsOK
    <3> QED BY <3>1, <3>2 DEF InstanceRow
  <2> QED BY <1>3, <2>1, Untouched DEF Advances
<1>4. ASSUME NEW at \in {"stepping", "creating", "acted"}, NEW n \in Nat, NEW next \in Nat,
             Continue(c, [call[c] EXCEPT !.at = at, !.n = n, !.next = next])
      PROVE  CallGoesOn
  <2>1. PICK r : /\ r = [call[c] EXCEPT !.at = at, !.n = n, !.next = next]
                 /\ call' = [call EXCEPT ![c] = r]
    BY <1>4 DEF Continue
  <2>2. r \in CallRecord /\ r.at = at
    BY <1>2, <2>1 DEF CallRecord, Stage
  <2> QED BY <2>1, <2>2, FreeCall DEF Careful
<1>5. CASE ReadStep(c)
  <2>1. UNCHANGED <<task, instance>>
    BY <1>5 DEF ReadStep, rows
  <2>2. CASE Continue(c, NextStage(c))
    BY <1>1, <2>1, <2>2, NextStageCall, StillAdvances
  <2>3. CASE ~Continue(c, NextStage(c))
    <3>1. PICK r : /\ call' = [call EXCEPT ![c] = r]
                   /\ \E a : r = [call[c] EXCEPT !.at = "creating", !.next = a]
      BY <1>5, <2>3 DEF ReadStep, Continue
    <3>2. r.at = "creating"
      BY <1>2, <3>1 DEF CallRecord
    <3>3. call'[c] = r /\ call' \in [Calls -> CallRecord]
      <4>1. PerformanceInv'
        BY <1>5, ReadStepKeeps
      <4> QED BY <1>1, <3>1, <4>1 DEF PerformanceInv, CallsOK
    <3> QED BY <2>1, <3>1, <3>2, <3>3, FreeCall, StillAdvances DEF Careful
  <2> QED BY <2>2, <2>3
<1>6. CASE CreateStep(c)
  <2>1. CASE Throw(c)
    BY <2>1, ThrowAdvances
  <2>2. CASE ~Throw(c)
    <3>1. /\ UNCHANGED task /\ Continue(c, NextStage(c))
          /\ instance' = [instance EXCEPT ![call[c].p].step = call[c].n,
                                          ![call[c].p].status = "IN_PROGRESS"]
      BY <1>6, <2>2 DEF CreateStep
    <3> QED BY <1>1, <1>3, <3>1, NextStageCall
  <2> QED BY <2>1, <2>2
<1>7. CASE CommitAction(c)
  <2>1. CASE Throw(c)
    BY <2>1, ThrowAdvances
  <2>2. CASE ~Throw(c)
    <3>1. PICK r : /\ r = [call[c] EXCEPT !.at = "acted"]
                   /\ call' = [call EXCEPT ![c] = r] /\ UNCHANGED <<task, instance>>
      BY <1>7, <2>2 DEF CommitAction, Continue
    <3>2. r \in CallRecord /\ r.at = "acted"
      BY <1>2, <3>1 DEF CallRecord, Stage
    <3> QED BY <3>1, <3>2, FreeCall, StillAdvances DEF Careful
  <2> QED BY <2>1, <2>2
<1>8. CASE CollectApprovals(c)
  <2>1. CASE Throw(c)
    BY <2>1, ThrowAdvances
  <2>2. CASE Continue(c, Idle) /\ UNCHANGED rows
    BY <2>2, IdleCall, StillAdvances DEF Continue, rows
  <2>3. CASE CompleteStep(c) /\ ~Throw(c)
    <3>1. PICK last \in BOOLEAN : last = (call[c].n = Len(Template[call[c].p].steps))
      OBVIOUS
    <3>2. /\ UNCHANGED task
          /\ instance' = [instance EXCEPT
                ![call[c].p].step = IF last THEN 0 ELSE call[c].n + 1,
                ![call[c].p].status = IF last THEN "COMPLETED" ELSE "IN_PROGRESS"]
          /\ Continue(c, IF last THEN Idle
                         ELSE [call[c] EXCEPT !.at = "stepping", !.n = call[c].n + 1, !.next = 1])
      BY <2>3, <3>1 DEF CompleteStep
    <3>3. call[c].n + 1 \in Nat
      BY <1>2 DEF CallRecord
    <3>4. CallGoesOn
      <4>1. CASE last
        BY <3>2, <4>1, IdleCall DEF Continue
      <4>2. CASE ~last
        BY <1>4, <3>2, <3>3, <4>2
      <4> QED BY <4>1, <4>2
    <3> QED BY <1>3, <3>2, <3>4
  <2> QED BY <1>8, <2>1, <2>2, <2>3 DEF CollectApprovals
<1>9. CASE RejectStep(c)
  <2>1. CASE Throw(c)
    BY <2>1, ThrowAdvances
  <2>2. CASE ~Throw(c)
    <3>1. PICK target : target = Template[call[c].p].steps[call[c].n].target
      OBVIOUS
    <3>2. target \in Nat
      BY <1>1, <1>9, <3>1, DefinitionFacts DEF CallsOK, Grounded, RejectStep
    <3>3. /\ UNCHANGED task
          /\ instance' = [instance EXCEPT
                ![call[c].p].step = target,
                ![call[c].p].status = IF target = 0 THEN "REJECTED" ELSE "IN_PROGRESS"]
          /\ Continue(c, IF target = 0 THEN Idle
                         ELSE [call[c] EXCEPT !.at = "stepping", !.n = target, !.next = 0])
      BY <1>9, <2>2, <3>1 DEF RejectStep
    <3>4. CallGoesOn
      <4>1. CASE target = 0
        BY <3>3, <4>1, IdleCall DEF Continue
      <4>2. CASE target # 0
        BY <1>4, <3>2, <3>3, <4>2
      <4> QED BY <4>1, <4>2
    <3> QED BY <1>3, <3>3, <3>4
  <2> QED BY <2>1, <2>2
<1> QED BY <1>5, <1>6, <1>7, <1>8, <1>9

\* What the other requests read they check again, or rely on it for the cycle only.
LEMMA LoadAdvances ==
  ASSUME PerformanceInv, NEW c \in Calls,
         \/ \E p \in Participants, who \in Executors, approve \in BOOLEAN :
              \E sa \in Attempts(p) : LoadAction(c, p, sa, who, approve)
         \/ LoadStart(c) \/ LoadArchive(c)
         \/ \E p \in Participants : LoadAdd(c, p) \/ LoadTemplate(c, p)
         \/ \E ps \in SUBSET Participants : LoadRestart(c, ps)
  PROVE  Advances
<1>1. CallsOK
  BY DEF PerformanceInv
<1>2. PerformanceInv'
  BY LoadActionKeeps, LoadManagementKeeps
<1>3. PICK r : call' = [call EXCEPT ![c] = r] /\ UNCHANGED rows /\ r.at \notin Careful
  <2>1. ASSUME NEW k, k.at \notin Careful, BeginWith(c, k, {})
        PROVE  \E r : call' = [call EXCEPT ![c] = r] /\ UNCHANGED rows /\ r.at \notin Careful
    <3>1. [k EXCEPT !.seen = [p \in Participants |-> instance[p].edition]].at = k.at
      OBVIOUS
    <3> QED BY <2>1, <3>1 DEF BeginWith
  <2> DEFINE Begun(at) == \E k : k.at = at /\ BeginWith(c, k, {})
  <2>2. \E at : at \notin Careful /\ Begun(at)
    <3>1. ASSUME NEW p \in Participants, NEW sa \in Attempts(p), NEW who \in Executors,
                 NEW approve \in BOOLEAN, LoadAction(c, p, sa, who, approve)
          PROVE  Begun("acting")
      <4> DEFINE k == [Idle EXCEPT !.at = "acting", !.p = p, !.n = sa[1], !.next = sa[2],
                                   !.who = who, !.approve = approve]
      <4>1. k.at = "acting"
        BY DEF Idle
      <4>2. BeginWith(c, k, {})
        BY <3>1 DEF LoadAction, BeginRequest, Begin
      <4> HIDE DEF k
      <4> QED BY <4>1, <4>2
    <3>2. ASSUME LoadStart(c) PROVE Begun("starting")
      <4>1. PICK todo : BeginWith(c, [Idle EXCEPT !.at = "starting", !.todo = todo], {})
        BY <3>2 DEF LoadStart, BeginRequest, Begin
      <4>2. [Idle EXCEPT !.at = "starting", !.todo = todo].at = "starting"
        BY DEF Idle
      <4> QED BY <4>1, <4>2
    <3>3. ASSUME LoadArchive(c) PROVE Begun("archiving")
      <4>1. BeginWith(c, [Idle EXCEPT !.at = "archiving", !.read = cycle.status], {})
        BY <3>3 DEF LoadArchive, BeginManaging, Begin
      <4>2. [Idle EXCEPT !.at = "archiving", !.read = cycle.status].at = "archiving"
        BY DEF Idle
      <4> QED BY <4>1, <4>2
    <3>4. ASSUME NEW p \in Participants, LoadAdd(c, p) \/ LoadTemplate(c, p)
          PROVE  Begun("adding") \/ Begun("templating")
      <4>1. PICK at \in {"adding", "templating"} :
              BeginWith(c, [Idle EXCEPT !.at = at, !.p = p, !.read = cycle.status], {})
        BY <3>4 DEF LoadAdd, LoadTemplate, BeginManaging, Begin
      <4>2. [Idle EXCEPT !.at = at, !.p = p, !.read = cycle.status].at = at
        BY DEF Idle
      <4>3. Begun(at)
        BY <4>1, <4>2
      <4> HIDE DEF Begun
      <4> QED BY <4>3
    <3>5. ASSUME NEW ps \in SUBSET Participants, LoadRestart(c, ps)
          PROVE  Begun("restarting")
      <4>1. BeginWith(c, [Idle EXCEPT !.at = "restarting", !.todo = ps], {})
        BY <3>5 DEF LoadRestart, BeginManaging, Begin
      <4>2. [Idle EXCEPT !.at = "restarting", !.todo = ps].at = "restarting"
        BY DEF Idle
      <4> QED BY <4>1, <4>2
    <3> HIDE DEF Begun
    <3>6. PICK at \in {"acting", "starting", "archiving", "adding", "templating", "restarting"} :
            Begun(at)
      BY <3>1, <3>2, <3>3, <3>4, <3>5
    <3> QED BY <3>6 DEF Careful
  <2> QED BY <2>1, <2>2
<1>4. r \in CallRecord
  BY <1>1, <1>2, <1>3 DEF PerformanceInv, CallsOK
<1>5. CallGoesOn
  BY <1>3, <1>4, FreeCall
<1> QED BY <1>3, <1>5, StillAdvances DEF rows

LEMMA StartAdvances ==
  ASSUME PerformanceInv, NEW c \in Calls, Start(c)
  PROVE  Advances
<1>1. CallsOK /\ TasksOK /\ RowsOK
  BY DEF PerformanceInv
<1>2. CASE Throw(c)
  BY <1>2, ThrowAdvances
<1>3. CASE ~Throw(c)
  <2>1. PICK todo, r :
        /\ \A p \in todo : Manual(p) # {} => task[p][First(Manual(p))].status = "PENDING"
        /\ instance' = [p \in Participants |->
             IF p \in todo
             THEN [instance[p] EXCEPT !.status = "IN_PROGRESS",
                     !.assessment = "IN_PROGRESS", !.module = FirstOrNull(Manual(p))]
             ELSE instance[p]]
        /\ task' = [p \in Participants |->
             IF p \in todo /\ Manual(p) # {}
             THEN [task[p] EXCEPT ![First(Manual(p))].status = "IN_PROGRESS"]
             ELSE task[p]]
        /\ r = [call[c] EXCEPT !.at = "measuring"]
        /\ call' = [call EXCEPT ![c] = r]
    BY <1>3 DEF Start, Continue
  <2>2. r \in CallRecord /\ r.at = "measuring"
    BY <1>1, <2>1 DEF CallsOK, CallRecord, Stage
  <2>3. CallGoesOn
    BY <2>1, <2>2, FreeCall DEF Careful
  <2>4. ASSUME NEW p \in Participants
        PROVE  Moves(p) /\ Concludes(p)
    <3>1. instance[p] \in InstanceRow /\ task[p] \in [Modules(p) -> TaskRow]
      BY <1>1 DEF RowsOK, TasksOK
    <3>2. CASE p \notin todo
      <4>1. task'[p] = task[p] /\ instance'[p] = instance[p]
        BY <2>1, <3>2
      <4> QED BY <4>1, Untouched
    <3>3. CASE p \in todo
      <4>1. /\ instance'[p].module = FirstOrNull(Manual(p))
            /\ instance'[p].assessment = "IN_PROGRESS"
        <5>1. instance'[p] = [instance[p] EXCEPT !.status = "IN_PROGRESS",
                     !.assessment = "IN_PROGRESS", !.module = FirstOrNull(Manual(p))]
          BY <2>1, <3>3
        <5> QED BY <3>1, <5>1 DEF InstanceRow
      <4>2. Concludes(p)
        BY <4>1 DEF Concludes
      <4>3. CASE Manual(p) = {}
        <5>1. task'[p] = task[p]
          BY <2>1, <4>3
        <5>2. Moves(p)
          BY <4>1, <5>1 DEF Moves, Rests
        <5> QED BY <4>2, <5>2
      <4>4. CASE Manual(p) # {}
        <5>1. PICK m : m = First(Manual(p))
          OBVIOUS
        <5>2. m \in Nat /\ (\A k \in Manual(p) : ~ (k < m)) /\ FirstOrNull(Manual(p)) = m
          BY <4>4, <5>1, NothingBeforeFirst DEF FirstOrNull
        <5>3. task'[p] = [task[p] EXCEPT ![m].status = "IN_PROGRESS"]
          BY <2>1, <3>3, <4>4, <5>1
        <5>4. \A n \in Modules(p) :
                task'[p][n].status = IF n = m THEN "IN_PROGRESS" ELSE task[p][n].status
          BY <3>1, <5>3 DEF TaskRow
        <5>5. task[p][m].status = "PENDING"
          BY <2>1, <3>3, <4>4, <5>1
        <5>6. Moves(p)
          BY <4>1, <5>2, <5>4, <5>5 DEF Moves, Opens
        <5> QED BY <4>2, <5>6
      <4> QED BY <4>3, <4>4
    <3> QED BY <3>2, <3>3
  <2> QED BY <2>3, <2>4 DEF Advances
<1> QED BY <1>2, <1>3

LEMMA MeasureAdvances ==
  ASSUME PerformanceInv, NEW c \in Calls, Measure(c)
  PROVE  Advances
<1>1. CallsOK /\ TasksOK /\ RowsOK
  BY DEF PerformanceInv
<1>2. CASE Throw(c)
  BY <1>2, ThrowAdvances
<1>3. CASE ~Throw(c)
  <2>1. PICK p, r :
          /\ p \in call[c].todo
          /\ task' = [task EXCEPT ![p] = [m \in Modules(p) |->
               IF m \in Metric(p) THEN [@[m] EXCEPT !.status = "COMPLETED"] ELSE @[m]]]
          /\ r = [call[c] EXCEPT !.at = "advancing", !.p = p, !.todo = @ \ {p}]
          /\ call' = [call EXCEPT ![c] = r]
          /\ UNCHANGED instance
    BY <1>3 DEF Measure, Continue
  <2>2. call[c] \in CallRecord /\ p \in Participants
    BY <1>1, <2>1 DEF CallsOK, CallRecord
  <2>3. r \in CallRecord /\ r.at = "advancing"
    BY <2>1, <2>2 DEF CallRecord, Stage
  <2>4. CallGoesOn
    BY <2>1, <2>3, FreeCall DEF Careful
  <2> DEFINE f == [m \in Modules(p) |->
               IF m \in Metric(p) THEN [task[p][m] EXCEPT !.status = "COMPLETED"]
               ELSE task[p][m]]
  <2>5. \A m \in Modules(p) : task[p][m] \in TaskRow
    BY <1>1, <2>2 DEF TasksOK
  <2>6. \A m \in Modules(p) : \/ f[m].status = task[p][m].status
                              \/ m \notin Manual(p) /\ f[m].status = "COMPLETED"
    BY <2>5 DEF TaskRow, Metric
  <2>7. task' = [task EXCEPT ![p] = f] /\ instance' = [instance EXCEPT ![p] = instance[p]]
    BY <1>1, <2>1 DEF RowsOK
  <2> HIDE DEF f
  <2>8. task'[p] = f /\ instance' = instance
    BY <1>1, <2>1, <2>2, <2>7 DEF TasksOK
  <2>9. Moves(p) /\ Concludes(p)
    BY <2>6, <2>8 DEF Moves, Rests, Concludes
  <2> QED BY <1>1, <2>2, <2>4, <2>7, <2>9, OneAdvances
<1> QED BY <1>2, <1>3

\* A step that leaves the modules as they are and gives one participant a first module or none
LEMMA OneInstanceAdvances ==
  ASSUME TasksOK, RowsOK, NEW p \in Participants, NEW row, UNCHANGED task,
         instance' = [instance EXCEPT ![p] = row],
         row.module \in {instance[p].module, 0, FirstOrNull(Manual(p))},
         row.assessment = "COMPLETED" => instance[p].assessment = "COMPLETED", CallGoesOn
  PROVE  Advances
<1>1. instance'[p] = row
  BY DEF RowsOK
<1>2. Moves(p) /\ Concludes(p)
  BY <1>1 DEF Moves, Rests, Concludes
<1>3. task' = [task EXCEPT ![p] = task[p]]
  BY DEF TasksOK
<1> QED BY <1>2, <1>3, OneAdvances

LEMMA AddAdvances ==
  ASSUME PerformanceInv, NEW c \in Calls, Add(c)
  PROVE  Advances
<1>1. CallsOK /\ TasksOK /\ RowsOK
  BY DEF PerformanceInv
<1>2. PICK p, running : p = call[c].p /\ running = (call[c].read = "IN_PROGRESS")
  OBVIOUS
<1>3. p \in Participants /\ call[c] \in CallRecord /\ instance[p] \in InstanceRow
  BY <1>1, <1>2 DEF CallsOK, Add, Grounded, RowsOK
<1>4. CASE Throw(c)
  BY <1>4, ThrowAdvances
<1>5. CASE ~Throw(c)
  <2>1. PICK row, r :
          /\ row = IF running
                   THEN [instance[p] EXCEPT !.status = "IN_PROGRESS",
                           !.assessment = "IN_PROGRESS", !.module = FirstOrNull(Manual(p))]
                   ELSE [instance[p] EXCEPT !.status = "DRAFT"]
          /\ instance' = [instance EXCEPT ![p] = row]
          /\ r = IF running THEN [call[c] EXCEPT !.at = "measuring", !.todo = {p}] ELSE Idle
          /\ call' = [call EXCEPT ![c] = r]
          /\ UNCHANGED task
    BY <1>2, <1>5 DEF Add, Continue
  <2>2. /\ row.module \in {instance[p].module, FirstOrNull(Manual(p))}
        /\ row.assessment = "COMPLETED" => instance[p].assessment = "COMPLETED"
    BY <1>3, <2>1 DEF InstanceRow
  <2>3. r \in CallRecord /\ r.at \in {"idle", "measuring"}
    <3>1. CASE running
      BY <1>3, <2>1, <3>1 DEF CallRecord, Stage
    <3>2. CASE ~running
      BY <2>1, <3>2, IdleType
    <3> QED BY <3>1, <3>2
  <2>4. CallGoesOn
    BY <2>1, <2>3, FreeCall DEF Careful
  <2> QED BY <1>1, <1>3, <2>1, <2>2, <2>4, OneInstanceAdvances
<1> QED BY <1>4, <1>5

LEMMA RemoveAdvances ==
  ASSUME PerformanceInv, NEW p \in Participants, Remove(p)
  PROVE  Advances
<1>1. TasksOK /\ RowsOK /\ instance[p] \in InstanceRow
  BY DEF PerformanceInv, RowsOK
<1>2. PICK row : /\ row = [instance[p] EXCEPT !.status = "REMOVED", !.module = 0, !.step = 0]
                 /\ instance' = [instance EXCEPT ![p] = row]
                 /\ UNCHANGED <<task, call>>
  BY <1>1 DEF Remove, RowsOK
<1>3. row.module = 0 /\ row.assessment = instance[p].assessment
  BY <1>1, <1>2 DEF InstanceRow
<1> QED BY <1>1, <1>2, <1>3, OneInstanceAdvances DEF CallGoesOn

LEMMA UpdateTemplateAdvances ==
  ASSUME PerformanceInv, NEW c \in Calls, UpdateTemplate(c)
  PROVE  Advances
<1>1. CallsOK /\ TasksOK /\ RowsOK
  BY DEF PerformanceInv
<1>2. PICK p, running : p = call[c].p /\ running = (call[c].read = "IN_PROGRESS")
  OBVIOUS
<1>3. p \in Participants /\ instance[p] \in InstanceRow
  BY <1>1, <1>2 DEF CallsOK, UpdateTemplate, Grounded, RowsOK
<1>4. CallGoesOn
  BY IdleCall DEF UpdateTemplate
<1>5. CASE \A m \in Modules(p) : task[p][m].status # "COMPLETED"
  <2>1. CASE UNCHANGED rows
    BY <1>4, <2>1, StillAdvances DEF rows
  <2>2. CASE ~UNCHANGED rows
    <3> DEFINE updated == [instance[p] EXCEPT
                      !.edition = @ + 1,
                      !.module = IF running THEN FirstOrNull(Manual(p)) ELSE 0,
                      !.assessment = IF running THEN "IN_PROGRESS" ELSE "DRAFT"]
    <3>0. /\ instance' = [instance EXCEPT
                ![p].edition = @ + 1,
                ![p].module = IF running THEN FirstOrNull(Manual(p)) ELSE 0,
                ![p].assessment = IF running THEN "IN_PROGRESS" ELSE "DRAFT"]
          /\ task' = [task EXCEPT ![p] = NewTasks(p)]
      BY <1>2, <2>2 DEF UpdateTemplate
    <3>1. PICK row : /\ row = updated
                     /\ instance' = [instance EXCEPT ![p] = row]
                     /\ task' = [task EXCEPT ![p] = NewTasks(p)]
      BY <1>1, <1>3, <3>0 DEF RowsOK
    <3>2. row.module \in {0, FirstOrNull(Manual(p))} /\ row.assessment # "COMPLETED"
      BY <1>3, <3>1 DEF InstanceRow
    <3>3. instance'[p] = row /\ task'[p] = NewTasks(p)
      BY <1>1, <1>3, <3>1 DEF RowsOK, TasksOK
    <3>4. \A m \in Modules(p) : NewTasks(p)[m].status = "PENDING"
      BY DEF NewTasks, NewTask
    <3>5. Moves(p) /\ Concludes(p)
      BY <1>5, <3>2, <3>3, <3>4 DEF Moves, Renews, Concludes
    <3> QED BY <1>1, <1>3, <1>4, <3>1, <3>5, OneAdvances
  <2> QED BY <2>1, <2>2
<1>6. CASE ~ \A m \in Modules(p) : task[p][m].status # "COMPLETED"
  <2>1. UNCHANGED rows
    BY <1>2, <1>6 DEF UpdateTemplate
  <2> QED BY <1>4, <2>1, StillAdvances DEF rows
<1> QED BY <1>5, <1>6

LEMMA RestartAdvances ==
  ASSUME PerformanceInv, NEW c \in Calls, Restart(c)
  PROVE  Advances
<1>1. TasksOK /\ RowsOK
  BY DEF PerformanceInv
<1> DEFINE reset(row) == IF row.status = "COMPLETED" THEN row
                         ELSE [row EXCEPT !.status = "PENDING"]
<1>2. PICK todo :
      /\ instance' = [p \in Participants |->
           IF p \in todo
           THEN [instance[p] EXCEPT !.status = "IN_PROGRESS", !.assessment = "IN_PROGRESS",
                                    !.module = 0, !.step = 0]
           ELSE instance[p]]
      /\ task' = [p \in Participants |->
           IF p \in todo THEN [m \in Modules(p) |-> reset(task[p][m])] ELSE task[p]]
      /\ call' = [call EXCEPT ![c] = Idle]
  BY DEF Restart
<1>3. ASSUME NEW p \in Participants
      PROVE  Moves(p) /\ Concludes(p)
  <2>1. instance[p] \in InstanceRow /\ \A m \in Modules(p) : task[p][m] \in TaskRow
    BY <1>1 DEF RowsOK, TasksOK
  <2>2. CASE p \notin todo
    <3>1. task'[p] = task[p] /\ instance'[p] = instance[p]
      BY <1>2, <2>2
    <3> QED BY <3>1, Untouched
  <2>3. CASE p \in todo
    <3>1. /\ instance'[p] = [instance[p] EXCEPT !.status = "IN_PROGRESS",
                               !.assessment = "IN_PROGRESS", !.module = 0, !.step = 0]
          /\ \A m \in Modules(p) : task'[p][m] = reset(task[p][m])
      BY <1>2, <2>3
    <3>2. instance'[p].module = 0 /\ instance'[p].assessment = "IN_PROGRESS"
      BY <2>1, <3>1 DEF InstanceRow
    <3>3. \A m \in Modules(p) :
            task'[p][m].status = IF task[p][m].status = "COMPLETED" THEN "COMPLETED" ELSE "PENDING"
      BY <2>1, <3>1 DEF TaskRow
    <3> QED BY <3>2, <3>3 DEF Moves, TakesBack, Concludes
  <2> QED BY <2>2, <2>3
<1>4. CallGoesOn
  BY <1>2, IdleCall
<1> QED BY <1>3, <1>4 DEF Advances

LEMMA StopAdvances ==
  ASSUME PerformanceInv, NEW ps, NEW qs, StopTasks(ps),
         instance' = [p \in Participants |->
           IF p \in qs THEN [instance[p] EXCEPT !.status = "CANCELLED"] ELSE instance[p]],
         CallGoesOn
  PROVE  Advances
<1>1. TasksOK /\ RowsOK
  BY DEF PerformanceInv
<1>2. ASSUME NEW p \in Participants
      PROVE  Moves(p) /\ Concludes(p)
  <2>1. instance[p] \in InstanceRow /\ \A m \in Modules(p) : task[p][m] \in TaskRow
    BY <1>1 DEF RowsOK, TasksOK
  <2>2. /\ instance'[p].module = instance[p].module
        /\ instance'[p].assessment = instance[p].assessment
    <3>1. instance'[p] = IF p \in qs THEN [instance[p] EXCEPT !.status = "CANCELLED"]
                         ELSE instance[p]
      OBVIOUS
    <3> QED BY <2>1, <3>1 DEF InstanceRow
  <2>3. task'[p] = IF p \in ps THEN [m \in Modules(p) |-> Stop(task[p][m])] ELSE task[p]
    BY DEF StopTasks
  <2>4. CASE p \notin ps
    BY <2>2, <2>3, <2>4, Untouched
  <2>5. CASE p \in ps
    <3>1. \A m \in Modules(p) : task'[p][m] = Stop(task[p][m])
      BY <2>3, <2>5
    <3>2. ASSUME NEW row \in TaskRow
          PROVE  Stop(row).status = IF row.status \in {"COMPLETED", "CANCELLED"} THEN row.status
                                    ELSE "CANCELLED"
      BY DEF Stop, TaskRow, TaskStatus
    <3>3. \A m \in Modules(p) :
            task'[p][m].status = IF Done(p, m) THEN task[p][m].status ELSE "CANCELLED"
      BY <2>1, <3>1, <3>2 DEF Done
    <3> QED BY <2>2, <3>3 DEF Moves, Cancels, Concludes
  <2> QED BY <2>4, <2>5
<1> QED BY <1>2 DEF Advances

LEMMA ArchiveAdvances ==
  ASSUME PerformanceInv, NEW c \in Calls, Archive(c)
  PROVE  Advances
<1>1. CallGoesOn
  BY IdleCall DEF Archive, Continue
<1>2. CASE call[c].read = "IN_PROGRESS"
  <2>1. PICK running :
          /\ instance' = [p \in Participants |->
               IF p \in running THEN [instance[p] EXCEPT !.status = "CANCELLED"]
               ELSE instance[p]]
          /\ StopTasks(Members)
    BY <1>2 DEF Archive
  <2> QED BY <1>1, <2>1, StopAdvances
<1>3. CASE call[c].read # "IN_PROGRESS"
  BY <1>1, <1>3, StillAdvances DEF Archive
<1> QED BY <1>2, <1>3

LEMMA CloseAdvances ==
  ASSUME PerformanceInv, NEW ps, Close(ps)
  PROVE  Advances
<1>1. CallGoesOn
  BY DEF Close, CallGoesOn
<1> QED BY <1>1, StopAdvances DEF Close

LEMMA NextAdvances ==
  ASSUME PerformanceInv, SeriesInv, Next
  PROVE  Advances
<1>1. ASSUME NEW c \in Calls, Request(c)
      PROVE  Advances
  BY <1>1, ScoringAdvances, LoadAdvances DEF Request
<1>2. ASSUME NEW c \in Calls, Proceed(c)
      PROVE  Advances
  <2>1. CASE \/ CommitScore(c) \/ CollectScores(c) \/ SkipModule(c)
             \/ Advance(c) \/ OpenModule(c) \/ ResolveAssignees(c) \/ FinishAssessment(c)
    BY <2>1, CommitScoreAdvances, CollectScoresAdvances, AdvanceAdvances, OpenModuleAdvances,
       ResolveAssigneesAdvances, FinishAssessmentAdvances
  <2>2. CASE \/ ReadStep(c) \/ CreateStep(c)
             \/ CommitAction(c) \/ CollectApprovals(c) \/ RejectStep(c)
    BY <2>2, WorkflowAdvances
  <2>3. CASE Start(c) \/ Measure(c) \/ Add(c) \/ UpdateTemplate(c) \/ Restart(c) \/ Archive(c)
    BY <2>3, StartAdvances, MeasureAdvances, AddAdvances, UpdateTemplateAdvances,
       RestartAdvances, ArchiveAdvances
  <2> QED BY <1>2, <2>1, <2>2, <2>3 DEF Proceed
<1>3. ASSUME NEW c \in Calls, Interrupt(c)
      PROVE  Advances
  BY <1>3, IdleCall, StillAdvances DEF Interrupt, rows
<1> QED BY <1>1, <1>2, <1>3, RemoveAdvances, CloseAdvances DEF Next

LEMMA SeriesHolds == Spec => []SeriesInv
<1>1. Init => SeriesInv
  <2> SUFFICES ASSUME Init PROVE SeriesInv
    OBVIOUS
  <2>1. ASSUME NEW p \in Participants
        PROVE  InOrder(p) /\ instance[p].assessment = "DRAFT"
    <3>1. /\ \A m \in Manual(p) : task[p][m].status = "PENDING"
          /\ instance[p].module = 0 /\ instance[p].assessment = "DRAFT"
      BY DefinitionFacts DEF Init, NewTasks, NewTask
    <3> QED BY <3>1, NothingBeforeFirst DEF InOrder
  <2>2. \A c \in Calls : call[c] = Idle
    BY DEF Init
  <2>3. \A c \in Calls : Abreast(call[c])
    BY <2>2, IdleType DEF Abreast
  <2> QED BY <2>1, <2>3 DEF SeriesInv
<1>2. PerformanceInv /\ SeriesInv /\ [Next]_vars => SeriesInv'
  <2>1. CASE UNCHANGED vars
    BY <2>1 DEF vars, rows, SeriesInv, InOrder, Abreast, AllDone, Done
  <2> QED BY <2>1, NextAdvances, AdvancesKeeps
<1> QED BY <1>1, <1>2, PerformanceInvariance, PTL DEF Spec

\* completeTask and advanceAssessment: scoring is serial.  Whatever submissions race, are cut
\* off or are overtaken by a restart, a new template or a closing, the modules before an open
\* one are completed or cancelled.
THEOREM ModulesAreScoredInOrder == Spec => []OneModuleAtATime
<1>1. SeriesInv => OneModuleAtATime
  BY DEF SeriesInv, InOrder, Done, OneModuleAtATime, Members
<1> QED BY <1>1, SeriesHolds, PTL

\* finishAssessment: an assessment ends with all of its modules completed, and no later step
\* and no management of the cycle takes one of them back while it stays completed.
THEOREM CompletedAssessmentIsFrozen == Spec => ResultIsFrozen
<1> DEFINE Frozen == \A p \in Participants :
             instance[p].assessment = "COMPLETED" /\ instance'[p].assessment = "COMPLETED" =>
               \A m \in Modules(p) : task'[p][m].status = task[p][m].status
<1>1. PerformanceInv /\ SeriesInv /\ [Next]_vars => [Frozen]_vars
  <2> SUFFICES ASSUME PerformanceInv, SeriesInv, Next
               PROVE  Frozen
    OBVIOUS
  <2>1. \A p \in Participants : Lasts(p)
    BY NextAdvances, CompletedLasts DEF Advances
  <2> QED BY <2>1 DEF SeriesInv, AllDone, Lasts
<1> QED BY <1>1, PerformanceInvariance, SeriesHolds, PTL DEF Spec, ResultIsFrozen
-----------------------------------------------------------------------------
(***************************************************************************)
(* What each stage of a call does to the rows of its participant.  A call  *)
(* fails, or leaves the rows of everybody else alone.                      *)
(***************************************************************************)
LeavesRows == UNCHANGED <<cycle, instance, task, step, disturbed>>
Fails(c) == call'[c] = Idle /\ LeavesRows

Spared(q) == instance'[q] = instance[q] /\ task'[q] = task[q] /\ step'[q] = step[q]
Touches(p) == UNCHANGED disturbed /\ \A q \in Participants \ {p} : Spared(q)

Turns(p, status, assessment, module, s) ==
  /\ instance'[p].status = status /\ instance'[p].assessment = assessment
  /\ instance'[p].module = module /\ instance'[p].step = s
  /\ instance'[p].edition = instance[p].edition

Goes(c, at, n, next) ==
  /\ call'[c].at = at /\ call'[c].n = n /\ call'[c].next = next
  /\ call'[c].p = call[c].p /\ call'[c].approve = call[c].approve
  /\ call'[c].todo = call[c].todo /\ call'[c].seen = call[c].seen

\* With the next participant, when there is one.
GoesOnTo(c) ==
  IF call[c].todo = {} THEN call'[c] = Idle ELSE Goes(c, "measuring", call[c].n, call[c].next)

LEMMA CallGoes ==
  ASSUME CallsOK, NEW c \in Calls, NEW at, NEW n, NEW next,
         Continue(c, [call[c] EXCEPT !.at = at, !.n = n, !.next = next])
  PROVE  Goes(c, at, n, next) /\ UNCHANGED disturbed
<1>1. PICK r \in CallRecord : r = call[c]
  BY DEF CallsOK
<1>2. call'[c] = [r EXCEPT !.at = at, !.n = n, !.next = next]
  BY <1>1 DEF CallsOK, Continue
<1>3. call'[c].at = at /\ call'[c].n = n /\ call'[c].next = next
  BY <1>2 DEF CallRecord
<1>4. /\ call'[c].p = r.p /\ call'[c].approve = r.approve
      /\ call'[c].todo = r.todo /\ call'[c].seen = r.seen
  BY <1>2 DEF CallRecord
<1>5. UNCHANGED disturbed
  BY DEF Continue
<1> QED BY <1>1, <1>3, <1>4, <1>5 DEF Goes

LEMMA CallGoesTo ==
  ASSUME CallsOK, NEW c \in Calls, NEW at, Continue(c, [call[c] EXCEPT !.at = at])
  PROVE  Goes(c, at, call[c].n, call[c].next) /\ UNCHANGED disturbed
<1>1. call[c] \in CallRecord /\ call'[c] = [call[c] EXCEPT !.at = at]
  BY DEF CallsOK, Continue
<1> QED BY <1>1 DEF Goes, CallRecord, Continue

LEMMA NextStageGoes ==
  ASSUME CallsOK, NEW c \in Calls, Continue(c, NextStage(c))
  PROVE  GoesOnTo(c) /\ UNCHANGED disturbed
<1>1. CASE call[c].todo = {}
  BY <1>1 DEF NextStage, GoesOnTo, Continue, CallsOK
<1>2. CASE call[c].todo # {}
  BY <1>2, CallGoesTo DEF NextStage, GoesOnTo
<1> QED BY <1>1, <1>2

LEMMA CallEnds ==
  ASSUME CallsOK, NEW c \in Calls, Continue(c, Idle)
  PROVE  call'[c] = Idle /\ UNCHANGED disturbed
  BY DEF CallsOK, Continue

LEMMA ThrowFails ==
  ASSUME CallsOK, NEW c \in Calls, Throw(c)
  PROVE  Fails(c)
  BY CallEnds DEF Throw, Fails, LeavesRows, rows

\* A step that writes the rows of one participant
LEMMA TouchesOne ==
  ASSUME PerformanceInv, NEW p \in Participants, UNCHANGED disturbed,
         UNCHANGED instance \/ \E row : instance' = [instance EXCEPT ![p] = row],
         UNCHANGED task \/ \E f : task' = [task EXCEPT ![p] = f],
         UNCHANGED step \/ \E g : step' = [step EXCEPT ![p] = g]
  PROVE  Touches(p)
<1>1. /\ instance = [q \in Participants |-> instance[q]]
      /\ task = [q \in Participants |-> task[q]]
      /\ step = [q \in Participants |-> step[q]]
  BY DEF PerformanceInv, RowsOK, TasksOK, StepsOK
<1> SUFFICES ASSUME NEW q \in Participants \ {p} PROVE Spared(q)
  BY DEF Touches
<1>2. instance'[q] = instance[q]
  BY <1>1
<1>3. task'[q] = task[q]
  BY <1>1
<1>4. step'[q] = step[q]
  BY <1>1
<1> QED BY <1>2, <1>3, <1>4 DEF Spared

LEMMA ActsOn ==
  ASSUME PerformanceInv, NEW c \in Calls, call[c].at \notin Roaming
  PROVE  /\ call[c] \in CallRecord /\ call[c].p \in Participants
         /\ instance[call[c].p] \in InstanceRow
         /\ task[call[c].p] \in [Modules(call[c].p) -> TaskRow]
         /\ step[call[c].p] \in [Attempts(call[c].p) -> StepRow]
<1>1. call[c] \in CallRecord /\ call[c].p \in Participants
  BY DEF PerformanceInv, CallsOK, Grounded, Roaming
<1> QED BY <1>1 DEF PerformanceInv, RowsOK, TasksOK, StepsOK

LEMMA CommitScoreDoes ==
  ASSUME PerformanceInv, NEW c \in Calls, CommitScore(c),
         NEW p, p = call[c].p, NEW m, m = call[c].n
  PROVE  \/ Fails(c)
         \/ /\ Touches(p) /\ UNCHANGED <<cycle, instance, step>>
            /\ Goes(c, "scored", m, call[c].next)
            /\ \A n \in Modules(p) \ {m} : task'[p][n] = task[p][n]
            /\ task'[p][m].status = task[p][m].status
            /\ task'[p][m].assigned = task[p][m].assigned
<1>1. call[c].at = "scoring" /\ CallsOK
  BY DEF CommitScore, PerformanceInv
<1>2. p \in Participants /\ m \in Modules(p) /\ task[p] \in [Modules(p) -> TaskRow]
  BY <1>1, ActsOn DEF CallsOK, Grounded, Roaming
<1>3. CASE Throw(c)
  BY <1>1, <1>3, ThrowFails
<1>4. CASE ~Throw(c)
  <2>1. /\ task' = [task EXCEPT ![p][m].scored = @ \cup {call[c].who}]
        /\ Continue(c, [call[c] EXCEPT !.at = "scored"])
        /\ UNCHANGED <<cycle, instance, step>>
    BY <1>4 DEF CommitScore
  <2>2. Goes(c, "scored", m, call[c].next) /\ UNCHANGED disturbed
    BY <1>1, <2>1, CallGoesTo
  <2>3. task'[p] = [task[p] EXCEPT ![m].scored = @ \cup {call[c].who}]
    BY <1>2, <2>1 DEF PerformanceInv, TasksOK
  <2>4. /\ \A n \in Modules(p) \ {m} : task'[p][n] = task[p][n]
        /\ task'[p][m].status = task[p][m].status
        /\ task'[p][m].assigned = task[p][m].assigned
    <3>1. \A n \in Modules(p) \ {m} : task'[p][n] = task[p][n]
      BY <1>2, <2>3
    <3>2. task[p][m] \in TaskRow
      BY <1>2
    <3>3. PICK scored : task'[p][m] = [task[p][m] EXCEPT !.scored = scored]
      BY <1>2, <2>3
    <3> QED BY <3>1, <3>2, <3>3 DEF TaskRow
  <2>5. Touches(p)
    BY <1>2, <2>1, <2>2, TouchesOne
  <2> QED BY <2>1, <2>2, <2>4, <2>5
<1> QED BY <1>3, <1>4

CanComplete(c, p, m, next) ==
  Known(c, p) /\ (next = 0 \/ task[p][next].status = "PENDING") /\ instance[p].module = m

LEMMA CompleteTaskDoes ==
  ASSUME PerformanceInv, NEW c \in Calls, call[c].at \in {"scored", "skipping"}, CompleteTask(c),
         NEW p, p = call[c].p, NEW m, m = call[c].n, NEW next, next = call[c].next
  PROVE  \/ Fails(c) /\ ~CanComplete(c, p, m, next)
         \/ /\ CanComplete(c, p, m, next)
            /\ Touches(p) /\ UNCHANGED <<cycle, step>>
            /\ Goes(c, "advancing", m, next)
            /\ Turns(p, instance[p].status, instance[p].assessment, next, instance[p].step)
            /\ \A n \in Modules(p) \ {m, next} : task'[p][n] = task[p][n]
            /\ task'[p][m].status = "COMPLETED"
            /\ next \in Modules(p) =>
                 task'[p][next].status = "IN_PROGRESS" /\ task'[p][next].scored = task[p][next].scored
<1>1. CallsOK /\ call[c].at \notin Roaming
  BY DEF PerformanceInv, Roaming
<1>2. /\ p \in Participants /\ m \in Modules(p) /\ next # m
      /\ task[p] \in [Modules(p) -> TaskRow] /\ instance[p] \in InstanceRow
  BY <1>1, ActsOn DEF CallsOK, Grounded
<1>3. CASE ~CanComplete(c, p, m, next)
  <2>1. Throw(c)
    BY <1>3 DEF CompleteTask, CanComplete
  <2> QED BY <1>1, <1>3, <2>1, ThrowFails
<1>4. CASE CanComplete(c, p, m, next)
  <2>1. PICK skipped : skipped = (call[c].at = "skipping")
    OBVIOUS
  <2>2. /\ task' = [task EXCEPT ![p] = [n \in Modules(p) |->
                CASE n = m -> [@[m] EXCEPT !.status = "COMPLETED", !.skipped = skipped]
                  [] n = next -> [@[n] EXCEPT !.status = "IN_PROGRESS"]
                  [] OTHER -> @[n]]]
        /\ instance' = [instance EXCEPT ![p].module = next]
        /\ Continue(c, [call[c] EXCEPT !.at = "advancing"])
        /\ UNCHANGED <<cycle, step>>
    BY <1>4, <2>1 DEF CompleteTask, CanComplete
  <2>3. Goes(c, "advancing", m, next) /\ UNCHANGED disturbed
    BY <1>1, <2>2, CallGoesTo
  <2>4. task'[p] = [n \in Modules(p) |->
                CASE n = m -> [task[p][m] EXCEPT !.status = "COMPLETED", !.skipped = skipped]
                  [] n = next -> [task[p][n] EXCEPT !.status = "IN_PROGRESS"]
                  [] OTHER -> task[p][n]]
    BY <1>2, <2>2 DEF PerformanceInv, TasksOK
  <2>5. \A n \in Modules(p) \ {m, next} : task'[p][n] = task[p][n]
    BY <2>4
  <2>6. task'[p][m].status = "COMPLETED"
    <3>1. task'[p][m] = [task[p][m] EXCEPT !.status = "COMPLETED", !.skipped = skipped]
      BY <1>2, <2>4
    <3>2. task[p][m] \in TaskRow
      BY <1>2
    <3> QED BY <3>1, <3>2 DEF TaskRow
  <2>7. ASSUME next \in Modules(p)
        PROVE  task'[p][next].status = "IN_PROGRESS" /\ task'[p][next].scored = task[p][next].scored
    <3>1. task'[p][next] = [task[p][next] EXCEPT !.status = "IN_PROGRESS"]
      BY <1>2, <2>4, <2>7
    <3>2. task[p][next] \in TaskRow
      BY <1>2, <2>7
    <3> QED BY <3>1, <3>2 DEF TaskRow
  <2>8. Turns(p, instance[p].status, instance[p].assessment, next, instance[p].step)
    <3>1. instance'[p] = [instance[p] EXCEPT !.module = next]
      BY <1>2, <2>2 DEF PerformanceInv, RowsOK
    <3> QED BY <1>2, <3>1 DEF Turns, InstanceRow
  <2>9. Touches(p)
    <3>1. \E row : instance' = [instance EXCEPT ![p] = row]
      BY <2>2
    <3>2. \E f : task' = [task EXCEPT ![p] = f]
      BY <2>2
    <3> QED BY <1>2, <2>2, <2>3, <3>1, <3>2, TouchesOne
  <2> QED BY <1>4, <2>2, <2>3, <2>5, <2>6, <2>7, <2>8, <2>9
<1> QED BY <1>3, <1>4

LEMMA CollectScoresDoes ==
  ASSUME PerformanceInv, NEW c \in Calls, CollectScores(c),
         NEW p, p = call[c].p, NEW m, m = call[c].n
  PROVE  \/ Fails(c) /\ ~(Known(c, p) /\ task[p][m].scored = Scorers(p, m))
         \/ call[c].at = "scored" /\ CompleteTask(c)
<1>1. CallsOK /\ call[c].at = "scored"
  BY DEF PerformanceInv, CollectScores
<1>2. CASE Known(c, p) /\ task[p][m].scored = Scorers(p, m)
  BY <1>1, <1>2 DEF CollectScores
<1>3. CASE ~(Known(c, p) /\ task[p][m].scored = Scorers(p, m))
  <2>1. Continue(c, Idle) /\ UNCHANGED rows
    BY <1>3 DEF CollectScores
  <2> QED BY <1>1, <1>3, <2>1, CallEnds DEF Fails, LeavesRows, rows
<1> QED BY <1>2, <1>3

\* advanceAssessment picks the first module that is not done.
Picks(c, p) ==
  \E m \in Manual(p) :
    /\ ~Done(p, m) /\ \A k \in Manual(p) : k < m => Done(p, k)
    /\ call'[c].at = IF task[p][m].status = "PENDING" THEN "opening" ELSE "resolving"
    /\ call'[c].n = m /\ call'[c].p = p /\ call'[c].todo = call[c].todo
    /\ call'[c].seen[p] = instance[p].edition
    /\ \A q \in Participants \ {p} : call'[c].seen[q] = call[c].seen[q]

LEMMA AdvanceDoes ==
  ASSUME PerformanceInv, NEW c \in Calls, Advance(c), NEW p, p = call[c].p
  PROVE  /\ LeavesRows
         /\ \/ (~Member(p) \/ instance[p].assessment = "COMPLETED") /\ GoesOnTo(c)
            \/ /\ Member(p) /\ instance[p].assessment # "COMPLETED"
               /\ \/ Picks(c, p)
                  \/ AllDone(p) /\ Goes(c, "finishing", call[c].n, call[c].next)
                  \/ ~AllDone(p) /\ (\A k \in Manual(p) : Done(p, k)) /\ call'[c] = Idle
<1> DEFINE open == {m \in Manual(p) : task[p][m].status \notin {"COMPLETED", "CANCELLED"}}
           first == First(open)
           r == [call[c] EXCEPT !.n = first, !.seen[p] = instance[p].edition,
                   !.at = IF task[p][first].status = "PENDING" THEN "opening" ELSE "resolving"]
<1>1. CallsOK /\ call[c].at = "advancing" /\ UNCHANGED rows
  BY DEF Advance, PerformanceInv
<1>2. call[c] \in CallRecord /\ p \in Participants
  BY <1>1, ActsOn DEF Roaming
<1>3. CASE ~Member(p) \/ instance[p].assessment = "COMPLETED"
  <2>1. Continue(c, NextStage(c))
    BY <1>3 DEF Advance
  <2> QED BY <1>1, <1>3, <2>1, NextStageGoes DEF LeavesRows, rows
<1>4. CASE Member(p) /\ instance[p].assessment # "COMPLETED" /\ open # {}
  <2>1. Continue(c, r)
    BY <1>4 DEF Advance
  <2>2. open \in SUBSET Nat
    BY <1>2, DefinitionFacts
  <2>3. first \in open /\ \A n \in open : first <= n
    <3> HIDE DEF open
    <3> QED BY <1>4, <2>2, FirstIsIn
  <2>4. first \in Manual(p) /\ ~Done(p, first) /\ \A k \in Manual(p) : k < first => Done(p, k)
    <3>1. \A k \in Manual(p) : ~Done(p, k) => first <= k
      BY <2>3 DEF Done
    <3>2. \A k \in Manual(p) : k \in Nat
      BY <1>2, DefinitionFacts
    <3>3. first \in Nat
      BY <2>2, <2>3
    <3>4. \A k \in Manual(p) : k < first => ~ (first <= k)
      BY <3>2, <3>3
    <3> QED BY <2>3, <3>1, <3>4 DEF Done
  <2> HIDE DEF first
  <2>5. call[c].seen \in [Participants -> Nat]
    BY <1>2 DEF CallRecord
  <2>6. call'[c] = r
    BY <1>1, <2>1 DEF Continue, CallsOK
  <2>7. /\ r.at = (IF task[p][first].status = "PENDING" THEN "opening" ELSE "resolving")
        /\ r.n = first /\ r.p = p /\ r.todo = call[c].todo
    BY <1>2 DEF CallRecord
  <2>8. r.seen = [call[c].seen EXCEPT ![p] = instance[p].edition]
    BY <1>2 DEF CallRecord
  <2> HIDE DEF r
  <2>9. r.seen[p] = instance[p].edition /\ \A q \in Participants \ {p} : r.seen[q] = call[c].seen[q]
    BY <1>2, <2>5, <2>8
  <2>10. Picks(c, p)
    BY <2>4, <2>6, <2>7, <2>9 DEF Picks
  <2>11. UNCHANGED disturbed
    BY <2>1 DEF Continue
  <2> QED BY <1>1, <1>4, <2>10, <2>11 DEF LeavesRows, rows
<1>5. CASE Member(p) /\ instance[p].assessment # "COMPLETED" /\ open = {} /\ AllDone(p)
  <2>1. Continue(c, [call[c] EXCEPT !.at = "finishing"])
    BY <1>5 DEF Advance, AllDone
  <2> QED BY <1>1, <1>5, <2>1, CallGoesTo DEF LeavesRows, rows
<1>6. CASE Member(p) /\ instance[p].assessment # "COMPLETED" /\ open = {} /\ ~AllDone(p)
  <2>1. Continue(c, Idle)
    BY <1>6 DEF Advance, AllDone
  <2>2. \A k \in Manual(p) : Done(p, k)
    BY <1>6 DEF Done
  <2> QED BY <1>1, <1>6, <2>1, <2>2, CallEnds DEF LeavesRows, rows
<1> QED BY <1>3, <1>4, <1>5, <1>6

LEMMA OpenModuleDoes ==
  ASSUME PerformanceInv, NEW c \in Calls, OpenModule(c),
         NEW p, p = call[c].p, NEW m, m = call[c].n
  PROVE  \/ Fails(c) /\ ~(Known(c, p) /\ task[p][m].status = "PENDING")
         \/ /\ Known(c, p) /\ task[p][m].status = "PENDING"
            /\ Touches(p) /\ UNCHANGED <<cycle, step>>
            /\ Goes(c, "resolving", m, call[c].next)
            /\ Turns(p, instance[p].status, "IN_PROGRESS", m, instance[p].step)
            /\ \A n \in Modules(p) \ {m} : task'[p][n] = task[p][n]
            /\ m \in Modules(p) =>
                 task'[p][m].status = "IN_PROGRESS" /\ task'[p][m].scored = task[p][m].scored
<1>1. CallsOK /\ call[c].at = "opening"
  BY DEF OpenModule, PerformanceInv
<1>2. p \in Participants /\ task[p] \in [Modules(p) -> TaskRow] /\ instance[p] \in InstanceRow
  BY <1>1, ActsOn DEF Roaming
<1>3. CASE ~(Known(c, p) /\ task[p][m].status = "PENDING")
  <2>1. Throw(c)
    BY <1>3 DEF OpenModule
  <2> QED BY <1>1, <1>3, <2>1, ThrowFails
<1>4. CASE Known(c, p) /\ task[p][m].status = "PENDING"
  <2>1. /\ task' = [task EXCEPT ![p][m].status = "IN_PROGRESS"]
        /\ instance' = [instance EXCEPT ![p].module = m, ![p].assessment = "IN_PROGRESS"]
        /\ Continue(c, [call[c] EXCEPT !.at = "resolving"])
        /\ UNCHANGED <<cycle, step>>
    BY <1>4 DEF OpenModule
  <2>2. Goes(c, "resolving", m, call[c].next) /\ UNCHANGED disturbed
    BY <1>1, <2>1, CallGoesTo
  <2>3. task'[p] = [task[p] EXCEPT ![m].status = "IN_PROGRESS"]
    BY <1>2, <2>1 DEF PerformanceInv, TasksOK
  <2>4. \A n \in Modules(p) \ {m} : task'[p][n] = task[p][n]
    BY <1>2, <2>3
  <2>5. ASSUME m \in Modules(p)
        PROVE  task'[p][m].status = "IN_PROGRESS" /\ task'[p][m].scored = task[p][m].scored
    <3>1. task'[p][m] = [task[p][m] EXCEPT !.status = "IN_PROGRESS"] /\ task[p][m] \in TaskRow
      BY <1>2, <2>3, <2>5
    <3> QED BY <3>1 DEF TaskRow
  <2>6. Turns(p, instance[p].status, "IN_PROGRESS", m, instance[p].step)
    <3>1. instance'[p] = [instance[p] EXCEPT !.module = m, !.assessment = "IN_PROGRESS"]
      BY <1>2, <2>1 DEF PerformanceInv, RowsOK
    <3> QED BY <1>2, <3>1 DEF Turns, InstanceRow
  <2>7. Touches(p)
    <3>1. \E row : instance' = [instance EXCEPT ![p] = row]
      BY <2>1
    <3>2. \E f : task' = [task EXCEPT ![p] = f]
      BY <2>1
    <3> QED BY <1>2, <2>1, <2>2, <3>1, <3>2, TouchesOne
  <2> QED BY <1>4, <2>1, <2>2, <2>4, <2>5, <2>6, <2>7
<1> QED BY <1>3, <1>4

LEMMA ResolveAssigneesDoes ==
  ASSUME PerformanceInv, NEW c \in Calls, ResolveAssignees(c),
         NEW p, p = call[c].p, NEW m, m = call[c].n
  PROVE  \/ Fails(c) /\ ~Known(c, p)
         \/ /\ Touches(p) /\ UNCHANGED <<cycle, instance, step>>
            /\ GoesOnTo(c)
            /\ \A n \in Modules(p) \ {m} : task'[p][n] = task[p][n]
            /\ m \in Modules(p) => /\ task'[p][m].status = task[p][m].status
                                   /\ task'[p][m].scored = task[p][m].scored
                                   /\ task'[p][m].assigned
<1>1. CallsOK /\ call[c].at = "resolving"
  BY DEF ResolveAssignees, PerformanceInv
<1>2. p \in Participants /\ task[p] \in [Modules(p) -> TaskRow]
  BY <1>1, ActsOn DEF Roaming
<1>3. CASE ~Known(c, p)
  <2>1. Throw(c)
    BY <1>3 DEF ResolveAssignees
  <2> QED BY <1>1, <1>3, <2>1, ThrowFails
<1>4. CASE Known(c, p)
  <2>1. /\ task' = [task EXCEPT ![p][m].assigned = TRUE]
        /\ Continue(c, NextStage(c))
        /\ UNCHANGED <<cycle, instance, step>>
    BY <1>4 DEF ResolveAssignees
  <2>2. GoesOnTo(c) /\ UNCHANGED disturbed
    BY <1>1, <2>1, NextStageGoes
  <2>3. task'[p] = [task[p] EXCEPT ![m].assigned = TRUE]
    BY <1>2, <2>1 DEF PerformanceInv, TasksOK
  <2>4. \A n \in Modules(p) \ {m} : task'[p][n] = task[p][n]
    BY <1>2, <2>3
  <2>5. ASSUME m \in Modules(p)
        PROVE  /\ task'[p][m].status = task[p][m].status
               /\ task'[p][m].scored = task[p][m].scored
               /\ task'[p][m].assigned
    <3>1. task'[p][m] = [task[p][m] EXCEPT !.assigned = TRUE] /\ task[p][m] \in TaskRow
      BY <1>2, <2>3, <2>5
    <3> QED BY <3>1 DEF TaskRow
  <2>6. Touches(p)
    <3>1. \E f : task' = [task EXCEPT ![p] = f]
      BY <2>1
    <3> QED BY <1>2, <2>1, <2>2, <3>1, TouchesOne
  <2> QED BY <2>1, <2>2, <2>4, <2>5, <2>6
<1> QED BY <1>3, <1>4

LEMMA FinishAssessmentDoes ==
  ASSUME PerformanceInv, NEW c \in Calls, FinishAssessment(c), NEW p, p = call[c].p
  PROVE  \/ Fails(c) /\ ~Member(p)
         \/ /\ Touches(p) /\ UNCHANGED <<task, step>>
            /\ IF Steps(p) = {}
               THEN /\ Turns(p, "COMPLETED", "COMPLETED", 0, instance[p].step)
                    /\ cycle' = CloseCycleAfter(p) /\ GoesOnTo(c)
               ELSE /\ Turns(p, "IN_PROGRESS", "COMPLETED", 0, instance[p].step)
                    /\ UNCHANGED cycle /\ Goes(c, "stepping", 1, 1)
<1>1. CallsOK /\ call[c].at = "finishing"
  BY DEF FinishAssessment, PerformanceInv
<1>2. p \in Participants /\ instance[p] \in InstanceRow
  BY <1>1, ActsOn DEF Roaming
<1>3. CASE ~Member(p)
  <2>1. Throw(c)
    BY <1>3 DEF FinishAssessment
  <2> QED BY <1>1, <1>3, <2>1, ThrowFails
<1>4. CASE Member(p)
  <2>1. PICK status : status = IF Steps(p) = {} THEN "COMPLETED" ELSE "IN_PROGRESS"
    OBVIOUS
  <2>2. /\ instance' = [instance EXCEPT
                   ![p].module = 0, ![p].assessment = "COMPLETED", ![p].status = status]
        /\ cycle' = (IF Steps(p) = {} THEN CloseCycleAfter(p) ELSE cycle)
        /\ Continue(c, IF Steps(p) = {} THEN NextStage(c)
                       ELSE [call[c] EXCEPT !.at = "stepping", !.n = 1, !.next = 1])
        /\ UNCHANGED <<task, step>>
    BY <1>4, <2>1 DEF FinishAssessment
  <2>3. Turns(p, status, "COMPLETED", 0, instance[p].step)
    <3>1. instance'[p] = [instance[p] EXCEPT !.module = 0, !.assessment = "COMPLETED",
                                             !.status = status]
      BY <1>2, <2>2 DEF PerformanceInv, RowsOK
    <3> QED BY <1>2, <3>1 DEF Turns, InstanceRow
  <2>4. IF Steps(p) = {} THEN GoesOnTo(c) ELSE Goes(c, "stepping", 1, 1)
    BY <1>1, <2>2, NextStageGoes, CallGoes
  <2>5. Touches(p)
    <3>1. \E row : instance' = [instance EXCEPT ![p] = row]
      BY <2>2
    <3>2. UNCHANGED disturbed
      BY <2>2 DEF Continue
    <3> QED BY <1>2, <2>2, <3>1, <3>2, TouchesOne
  <2> QED BY <2>1, <2>2, <2>3, <2>4, <2>5
<1> QED BY <1>3, <1>4

\* openWorkflowStep reads on, or finds the step open.
LEMMA ReadStepDoes ==
  ASSUME PerformanceInv, NEW c \in Calls, ReadStep(c),
         NEW p, p = call[c].p, NEW s, s = call[c].n, NEW next, next = call[c].next
  PROVE  /\ LeavesRows
         /\ \/ /\ \/ ~Member(p) \/ instance[p].assessment # "COMPLETED"
                  \/ next # 0 => step[p][<<s, next>>].status = "IN_PROGRESS"
               /\ GoesOnTo(c)
            \/ /\ Member(p) /\ instance[p].assessment = "COMPLETED"
               /\ \E a \in Nat : (next # 0 => a = next) /\ Goes(c, "creating", s, a)
<1> DEFINE made == {a \in 1 .. MaxAttempts : step[p][<<s, a>>].status # "ABSENT"}
           a == IF next = 0 THEN Cardinality(made) + 1 ELSE next
           found == \/ ~Member(p)
                    \/ instance[p].assessment # "COMPLETED"
                    \/ a \in made /\ step[p][<<s, a>>].status = "IN_PROGRESS"
<1>1. CallsOK /\ UNCHANGED rows /\ next \in Nat
  BY DEF PerformanceInv, ReadStep, CallsOK, CallRecord
<1>2. a \in Nat
  <2>1. IsFiniteSet(made)
    BY AttemptsFinite, FS_Subset
  <2>2. Cardinality(made) \in Nat
    BY <2>1, FS_CardinalityType
  <2> QED BY <1>1, <2>2
<1>3. Continue(c, IF found THEN NextStage(c) ELSE [call[c] EXCEPT !.at = "creating", !.next = a])
  BY DEF ReadStep
<1>4. next # 0 => a = next
  OBVIOUS
<1> HIDE DEF a
<1>5. CASE found
  <2>1. GoesOnTo(c) /\ UNCHANGED disturbed
    BY <1>1, <1>3, <1>5, NextStageGoes
  <2>2. \/ ~Member(p) \/ instance[p].assessment # "COMPLETED"
        \/ next # 0 => step[p][<<s, next>>].status = "IN_PROGRESS"
    BY <1>4, <1>5
  <2> QED BY <1>1, <2>1, <2>2 DEF LeavesRows, rows
<1>6. CASE ~found
  <2>1. Continue(c, [call[c] EXCEPT !.at = "creating", !.n = s, !.next = a])
    <3>1. [call[c] EXCEPT !.at = "creating", !.next = a]
            = [call[c] EXCEPT !.at = "creating", !.n = s, !.next = a]
      BY <1>1 DEF CallsOK, CallRecord
    <3> QED BY <1>3, <1>6, <3>1
  <2>2. Goes(c, "creating", s, a) /\ UNCHANGED disturbed
    BY <1>1, <2>1, CallGoes
  <2> QED BY <1>1, <1>2, <1>4, <1>6, <2>2 DEF LeavesRows, rows
<1> QED BY <1>5, <1>6

\* What a step does to one task of the workflow and no other
Writes(p, sa, status) ==
  /\ \A ta \in Attempts(p) \ {sa} : step'[p][ta] = step[p][ta]
  /\ sa \in Attempts(p) => /\ step'[p][sa].status = status
                           /\ step'[p][sa].approved = step[p][sa].approved
                           /\ step'[p][sa].rejected = step[p][sa].rejected

LEMMA WritesOne ==
  ASSUME PerformanceInv, NEW p \in Participants, NEW sa, NEW status,
         \/ step' = [step EXCEPT ![p][sa].status = status]
         \/ step' = [step EXCEPT ![p][sa].status = status, ![p][sa].dropped = TRUE]
  PROVE  Writes(p, sa, status) /\ \E g : step' = [step EXCEPT ![p] = g]
<1>1. step[p] \in [Attempts(p) -> StepRow] /\ step = [q \in Participants |-> step[q]]
  BY DEF PerformanceInv, StepsOK
<1>2. \/ step'[p] = [step[p] EXCEPT ![sa].status = status]
      \/ step'[p] = [step[p] EXCEPT ![sa].status = status, ![sa].dropped = TRUE]
  BY <1>1
<1>3. \A ta \in Attempts(p) \ {sa} : step'[p][ta] = step[p][ta]
  BY <1>1, <1>2
<1>4. ASSUME sa \in Attempts(p)
      PROVE  /\ step'[p][sa].status = status
             /\ step'[p][sa].approved = step[p][sa].approved
             /\ step'[p][sa].rejected = step[p][sa].rejected
  <2>1. \/ step'[p][sa] = [step[p][sa] EXCEPT !.status = status]
        \/ step'[p][sa] = [step[p][sa] EXCEPT !.status = status, !.dropped = TRUE]
    BY <1>1, <1>2, <1>4
  <2>2. step[p][sa] \in StepRow
    BY <1>1, <1>4
  <2> QED BY <2>1, <2>2 DEF StepRow
<1>5. \E g : step' = [step EXCEPT ![p] = g]
  <2>1. \/ step' = [step EXCEPT ![p] = [@ EXCEPT ![sa].status = status]]
        \/ step' = [step EXCEPT ![p] = [@ EXCEPT ![sa].status = status, ![sa].dropped = TRUE]]
    BY <1>1
  <2> QED BY <2>1
<1> QED BY <1>3, <1>4, <1>5 DEF Writes

LEMMA CreateStepDoes ==
  ASSUME PerformanceInv, NEW c \in Calls, CreateStep(c),
         NEW p, p = call[c].p, NEW s, s = call[c].n, NEW a, a = call[c].next
  PROVE  \/ Fails(c) /\ ~(Member(p) /\ step[p][<<s, a>>].status = "ABSENT")
         \/ /\ Member(p) /\ step[p][<<s, a>>].status = "ABSENT"
            /\ Touches(p) /\ UNCHANGED <<cycle, task>>
            /\ Writes(p, <<s, a>>, "IN_PROGRESS")
            /\ Turns(p, "IN_PROGRESS", instance[p].assessment, instance[p].module, s)
            /\ GoesOnTo(c)
<1>1. CallsOK /\ call[c].at = "creating"
  BY DEF PerformanceInv, CreateStep
<1>2. p \in Participants /\ instance[p] \in InstanceRow
  BY <1>1, ActsOn DEF Roaming
<1>3. CASE ~(Member(p) /\ step[p][<<s, a>>].status = "ABSENT")
  <2>1. Throw(c)
    BY <1>3 DEF CreateStep
  <2> QED BY <1>1, <1>3, <2>1, ThrowFails
<1>4. CASE Member(p) /\ step[p][<<s, a>>].status = "ABSENT"
  <2>1. /\ step' = [step EXCEPT ![p][<<s, a>>].status = "IN_PROGRESS"]
        /\ instance' = [instance EXCEPT ![p].step = s, ![p].status = "IN_PROGRESS"]
        /\ Continue(c, NextStage(c))
        /\ UNCHANGED <<cycle, task>>
    BY <1>4 DEF CreateStep
  <2>2. GoesOnTo(c) /\ UNCHANGED disturbed
    BY <1>1, <2>1, NextStageGoes
  <2>3. Writes(p, <<s, a>>, "IN_PROGRESS")
    BY <1>2, <2>1, WritesOne
  <2>4. Turns(p, "IN_PROGRESS", instance[p].assessment, instance[p].module, s)
    <3>1. instance'[p] = [instance[p] EXCEPT !.step = s, !.status = "IN_PROGRESS"]
      BY <1>2, <2>1 DEF PerformanceInv, RowsOK
    <3> QED BY <1>2, <3>1 DEF Turns, InstanceRow
  <2>5. Touches(p)
    <3>1. \E row : instance' = [instance EXCEPT ![p] = row]
      BY <2>1
    <3>2. \E g : step' = [step EXCEPT ![p] = g]
      BY <2>1
    <3> QED BY <1>2, <2>1, <2>2, <3>1, <3>2, TouchesOne
  <2> QED BY <1>4, <2>1, <2>2, <2>3, <2>4, <2>5
<1> QED BY <1>3, <1>4

LEMMA ActsOnOne ==
  ASSUME PerformanceInv, NEW p \in Participants, NEW sa, NEW who, NEW approve,
         step' = [step EXCEPT
                   ![p][sa].approved = IF approve THEN @ \cup {who} ELSE @,
                   ![p][sa].rejected = IF approve THEN @ ELSE @ \cup {who}]
  PROVE  \E g : step' = [step EXCEPT ![p] = g]
<1> DEFINE g == [step[p] EXCEPT ![sa].approved = IF approve THEN @ \cup {who} ELSE @,
                                ![sa].rejected = IF approve THEN @ ELSE @ \cup {who}]
<1>1. step = [q \in Participants |-> step[q]] /\ step[p] \in [Attempts(p) -> StepRow]
  BY DEF PerformanceInv, StepsOK
<1>2. step' = [step EXCEPT ![p] = g]
  BY <1>1
<1> HIDE DEF g
<1> QED BY <1>2

LEMMA CommitActionDoes ==
  ASSUME PerformanceInv, NEW c \in Calls, CommitAction(c), NEW p, p = call[c].p,
         NEW sa, sa = <<call[c].n, call[c].next>>
  PROVE  \/ Fails(c)
         \/ /\ Member(p) /\ Touches(p) /\ UNCHANGED <<cycle, instance, task>>
            /\ Goes(c, "acted", call[c].n, call[c].next)
            /\ \A ta \in Attempts(p) \ {sa} : step'[p][ta] = step[p][ta]
            /\ sa \in Attempts(p) =>
                 /\ step'[p][sa].status = step[p][sa].status
                 /\ call[c].approve => step'[p][sa].rejected = step[p][sa].rejected
<1>1. CallsOK /\ call[c].at = "acting"
  BY DEF PerformanceInv, CommitAction
<1>2. p \in Participants /\ step[p] \in [Attempts(p) -> StepRow]
  BY <1>1, ActsOn DEF Roaming
<1>3. PICK approve, who : approve = call[c].approve /\ who = call[c].who
  OBVIOUS
<1>4. CASE ~(Member(p) /\ who \notin Handled(step[p][sa]) /\ ~step[p][sa].dropped)
  <2>1. Throw(c)
    BY <1>3, <1>4 DEF CommitAction
  <2> QED BY <1>1, <2>1, ThrowFails
<1>5. CASE Member(p) /\ who \notin Handled(step[p][sa]) /\ ~step[p][sa].dropped
  <2>1. /\ step' = [step EXCEPT
                   ![p][sa].approved = IF approve THEN @ \cup {who} ELSE @,
                   ![p][sa].rejected = IF approve THEN @ ELSE @ \cup {who}]
        /\ Continue(c, [call[c] EXCEPT !.at = "acted"])
        /\ UNCHANGED <<cycle, instance, task>>
    BY <1>3, <1>5 DEF CommitAction
  <2>2. Goes(c, "acted", call[c].n, call[c].next) /\ UNCHANGED disturbed
    BY <1>1, <2>1, CallGoesTo
  <2>3. step'[p] = [step[p] EXCEPT
                   ![sa].approved = IF approve THEN @ \cup {who} ELSE @,
                   ![sa].rejected = IF approve THEN @ ELSE @ \cup {who}]
    BY <1>2, <2>1 DEF PerformanceInv, StepsOK
  <2>4. \A ta \in Attempts(p) \ {sa} : step'[p][ta] = step[p][ta]
    BY <1>2, <2>3
  <2>5. ASSUME sa \in Attempts(p)
        PROVE  /\ step'[p][sa].status = step[p][sa].status
               /\ approve => step'[p][sa].rejected = step[p][sa].rejected
    <3>1. PICK row \in StepRow : row = step[p][sa]
      BY <1>2, <2>5
    <3>2. PICK approved, rejected :
            /\ step'[p][sa] = [row EXCEPT !.approved = approved, !.rejected = rejected]
            /\ approve => rejected = row.rejected
      <4>1. step'[p][sa] = [row EXCEPT !.approved = IF approve THEN @ \cup {who} ELSE @,
                                       !.rejected = IF approve THEN @ ELSE @ \cup {who}]
        BY <1>2, <2>3, <2>5, <3>1
      <4> QED BY <4>1
    <3>3. step'[p][sa].status = row.status /\ step'[p][sa].rejected = rejected
      BY <3>2 DEF StepRow
    <3> QED BY <3>1, <3>2, <3>3
  <2>6. Touches(p)
    <3>1. \E g : step' = [step EXCEPT ![p] = g]
      BY <1>2, <2>1, ActsOnOne
    <3> QED BY <1>2, <2>1, <2>2, <3>1, TouchesOne
  <2> QED BY <1>3, <1>5, <2>1, <2>2, <2>4, <2>5, <2>6
<1> QED BY <1>4, <1>5

LEMMA CompleteStepDoes ==
  ASSUME PerformanceInv, NEW c \in Calls, call[c].at = "acted", CompleteStep(c),
         NEW p, p = call[c].p, NEW s, s = call[c].n, NEW sa, sa = <<s, call[c].next>>
  PROVE  \/ Fails(c) /\ ~(Member(p) /\ instance[p].step = s)
         \/ /\ Touches(p) /\ UNCHANGED task
            /\ Writes(p, sa, "COMPLETED")
            /\ IF s = Len(Template[p].steps)
               THEN /\ Turns(p, "COMPLETED", instance[p].assessment, instance[p].module, 0)
                    /\ cycle' = CloseCycleAfter(p) /\ call'[c] = Idle
               ELSE /\ Turns(p, "IN_PROGRESS", instance[p].assessment, instance[p].module, s + 1)
                    /\ UNCHANGED cycle /\ Goes(c, "stepping", s + 1, 1)
<1>1. CallsOK /\ p \in Participants /\ instance[p] \in InstanceRow
  BY ActsOn DEF Roaming, PerformanceInv
<1>2. CASE ~(Member(p) /\ instance[p].step = s)
  <2>1. Throw(c)
    BY <1>2 DEF CompleteStep
  <2> QED BY <1>1, <1>2, <2>1, ThrowFails
<1>3. CASE Member(p) /\ instance[p].step = s
  <2>1. PICK last, n, status : /\ last = (s = Len(Template[p].steps))
                               /\ n = IF last THEN 0 ELSE s + 1
                               /\ status = IF last THEN "COMPLETED" ELSE "IN_PROGRESS"
    OBVIOUS
  <2>2. /\ step' = [step EXCEPT ![p][sa].status = "COMPLETED"]
        /\ instance' = [instance EXCEPT ![p].step = n, ![p].status = status]
        /\ cycle' = (IF last THEN CloseCycleAfter(p) ELSE cycle)
        /\ Continue(c, IF last THEN Idle
                       ELSE [call[c] EXCEPT !.at = "stepping", !.n = s + 1, !.next = 1])
        /\ UNCHANGED task
    BY <1>3, <2>1 DEF CompleteStep
  <2>3. Turns(p, status, instance[p].assessment, instance[p].module, n)
    <3>1. instance'[p] = [instance[p] EXCEPT !.step = n, !.status = status]
      BY <1>1, <2>2 DEF PerformanceInv, RowsOK
    <3> QED BY <1>1, <3>1 DEF Turns, InstanceRow
  <2>4. IF last THEN call'[c] = Idle ELSE Goes(c, "stepping", s + 1, 1)
    BY <1>1, <2>2, CallEnds, CallGoes
  <2>5. Writes(p, sa, "COMPLETED")
    BY <1>1, <2>2, WritesOne
  <2>6. Touches(p)
    <3>1. \E row : instance' = [instance EXCEPT ![p] = row]
      BY <2>2
    <3>2. \E g : step' = [step EXCEPT ![p] = g]
      BY <2>2
    <3>3. UNCHANGED disturbed
      BY <2>2 DEF Continue
    <3> QED BY <1>1, <2>2, <3>1, <3>2, <3>3, TouchesOne
  <2> QED BY <2>1, <2>2, <2>3, <2>4, <2>5, <2>6
<1> QED BY <1>2, <1>3

LEMMA CollectApprovalsDoes ==
  ASSUME PerformanceInv, NEW c \in Calls, CollectApprovals(c),
         NEW p, p = call[c].p, NEW sa, sa = <<call[c].n, call[c].next>>
  PROVE  /\ call[c].at = "acted" /\ call[c].approve
         /\ \/ Fails(c) /\ Handled(step[p][sa]) # Reviewers(p, call[c].n)
            \/ Handled(step[p][sa]) = Reviewers(p, call[c].n) /\ CompleteStep(c)
<1>1. CallsOK /\ call[c].at = "acted" /\ call[c].approve
  BY DEF PerformanceInv, CollectApprovals
<1>2. CASE Handled(step[p][sa]) = Reviewers(p, call[c].n)
  BY <1>1, <1>2 DEF CollectApprovals
<1>3. CASE Handled(step[p][sa]) # Reviewers(p, call[c].n)
  <2>1. Continue(c, Idle) /\ UNCHANGED rows
    BY <1>3 DEF CollectApprovals
  <2> QED BY <1>1, <1>3, <2>1, CallEnds DEF Fails, LeavesRows, rows
<1> QED BY <1>2, <1>3

LEMMA RejectStepDoes ==
  ASSUME PerformanceInv, NEW c \in Calls, RejectStep(c),
         NEW p, p = call[c].p, NEW s, s = call[c].n, NEW sa, sa = <<s, call[c].next>>
  PROVE  \/ Fails(c) /\ ~(Member(p) /\ instance[p].step = s)
         \/ /\ Touches(p) /\ UNCHANGED <<cycle, task>>
            /\ Writes(p, sa, "CANCELLED")
            /\ LET target == Template[p].steps[s].target
               IN  IF target = 0
                   THEN /\ Turns(p, "REJECTED", instance[p].assessment, instance[p].module, 0)
                        /\ call'[c] = Idle
                   ELSE /\ Turns(p, "IN_PROGRESS", instance[p].assessment, instance[p].module, target)
                        /\ Goes(c, "stepping", target, 0)
<1>1. CallsOK /\ call[c].at = "acted"
  BY DEF RejectStep, PerformanceInv
<1>2. p \in Participants /\ instance[p] \in InstanceRow
  BY <1>1, ActsOn DEF Roaming
<1>3. CASE ~(Member(p) /\ instance[p].step = s)
  <2>1. Throw(c)
    BY <1>3 DEF RejectStep
  <2> QED BY <1>1, <1>3, <2>1, ThrowFails
<1>4. CASE Member(p) /\ instance[p].step = s
  <2>1. PICK target, status : /\ target = Template[p].steps[s].target
                              /\ status = IF target = 0 THEN "REJECTED" ELSE "IN_PROGRESS"
    OBVIOUS
  <2>2. /\ step' = [step EXCEPT ![p][sa].status = "CANCELLED", ![p][sa].dropped = TRUE]
        /\ instance' = [instance EXCEPT ![p].step = target, ![p].status = status]
        /\ Continue(c, IF target = 0 THEN Idle
                       ELSE [call[c] EXCEPT !.at = "stepping", !.n = target, !.next = 0])
        /\ UNCHANGED <<cycle, task>>
    BY <1>4, <2>1 DEF RejectStep
  <2>3. Turns(p, status, instance[p].assessment, instance[p].module, target)
    <3>1. instance'[p] = [instance[p] EXCEPT !.step = target, !.status = status]
      BY <1>2, <2>2 DEF PerformanceInv, RowsOK
    <3> QED BY <1>2, <3>1 DEF Turns, InstanceRow
  <2>4. IF target = 0 THEN call'[c] = Idle ELSE Goes(c, "stepping", target, 0)
    BY <1>1, <2>2, CallEnds, CallGoes
  <2>5. Writes(p, sa, "CANCELLED")
    BY <1>2, <2>2, WritesOne
  <2>6. Touches(p)
    <3>1. \E row : instance' = [instance EXCEPT ![p] = row]
      BY <2>2
    <3>2. \E g : step' = [step EXCEPT ![p] = g]
      BY <1>2, <2>2, WritesOne
    <3>3. UNCHANGED disturbed
      BY <2>2 DEF Continue
    <3> QED BY <1>2, <2>2, <3>1, <3>2, <3>3, TouchesOne
  <2> QED BY <2>1, <2>2, <2>3, <2>4, <2>5, <2>6
<1> QED BY <1>3, <1>4

\* What a request does: it reads, and the call begins.
Asks(c) ==
  /\ UNCHANGED <<cycle, instance, task, step>> /\ disturbed \subseteq disturbed'
  /\ call[c].at = "idle" /\ overlapped' = Overlap(c)
  /\ \A d \in Calls \ {c} : call'[d] = call[d]
  /\ \A p \in Participants : call'[c].seen[p] = instance[p].edition
Names(c, at, p, todo) == call'[c].at = at /\ call'[c].p = p /\ call'[c].todo = todo

AsksToScore(c) ==
  \E p \in Participants : \E m \in Modules(p), at \in {"scoring", "skipping"} :
    /\ Names(c, at, p, {}) /\ call'[c].n = m /\ call'[c].next = NextTask(p, m)
    /\ Member(p) /\ task[p][m].assigned
    /\ "late card" \notin disturbed' =>
         /\ task[p][m].status = "IN_PROGRESS"
         /\ instance[p].module = m /\ instance[p].assessment # "COMPLETED"
AsksToReview(c) ==
  \E p \in Participants : \E sa \in Attempts(p) :
    /\ Names(c, "acting", p, {}) /\ call'[c].n = sa[1] /\ call'[c].next = sa[2]
    /\ Member(p) /\ step[p][sa].status = "IN_PROGRESS" /\ instance[p].step = sa[1]
AsksToManage(c) ==
  \/ /\ Names(c, "starting", None, {p \in Members : instance[p].status # "CANCELLED"})
     /\ cycle.status = "DRAFT"
  \/ Names(c, "archiving", None, {}) /\ call'[c].read = cycle.status
  \/ \E p \in Participants :
       /\ Names(c, "adding", p, {}) /\ call'[c].read = cycle.status
       /\ cycle.status \in {"DRAFT", "IN_PROGRESS"} /\ instance[p].status = "ABSENT"
  \/ \E p \in Participants : Names(c, "templating", p, {}) /\ call'[c].read = cycle.status
  \/ \E ps \in SUBSET Participants : Names(c, "restarting", None, ps)

LEMMA BeginDoes ==
  ASSUME CallsOK, NEW c \in Calls, NEW r \in CallRecord, NEW d, BeginWith(c, r, d)
  PROVE  /\ Asks(c) /\ disturbed' = disturbed \cup d
         /\ Names(c, r.at, r.p, r.todo)
         /\ call'[c].n = r.n /\ call'[c].next = r.next /\ call'[c].read = r.read
<1>1. /\ UNCHANGED <<cycle, instance, task, step>> /\ disturbed' = disturbed \cup d
      /\ call[c].at = "idle" /\ overlapped' = Overlap(c)
      /\ \A o \in Calls \ {c} : call'[o] = call[o]
  BY DEF BeginWith, rows, CallsOK
<1>2. call'[c] = [r EXCEPT !.seen = [p \in Participants |-> instance[p].edition]]
  BY DEF BeginWith, CallsOK
<1>3. /\ call'[c].at = r.at /\ call'[c].p = r.p /\ call'[c].todo = r.todo
      /\ call'[c].n = r.n /\ call'[c].next = r.next /\ call'[c].read = r.read
      /\ call'[c].seen = [p \in Participants |-> instance[p].edition]
  BY <1>2 DEF CallRecord
<1> QED BY <1>1, <1>3 DEF Asks, Names

LEMMA ScoringDoes ==
  ASSUME PerformanceInv, NEW c \in Calls, NEW p \in Participants, NEW m \in Modules(p),
         NEW who \in Executors,
         LoadScore(c, p, m, who) \/ LoadSkip(c, p, m, who) \/ LoadCardScore(c, p, m, who)
  PROVE  Asks(c) /\ AsksToScore(c)
<1>1. CallsOK /\ m \in Nat
  BY DefinitionFacts DEF PerformanceInv
<1>2. NextTask(p, m) \in Nat
  <2> DEFINE S == {n \in Manual(p) : n > m /\ task[p][n].status # "CANCELLED"}
  <2>1. S \in SUBSET Nat
    BY DefinitionFacts
  <2> HIDE DEF S
  <2>2. FirstOrNull(S) \in Nat
    BY <2>1, FirstOrNullType
  <2> QED BY <2>2 DEF NextTask, S
<1>3. ASSUME NEW at \in {"scoring", "skipping"}
      PROVE  /\ Scoring(at, p, m, who) \in CallRecord
             /\ Scoring(at, p, m, who).at = at /\ Scoring(at, p, m, who).p = p
             /\ Scoring(at, p, m, who).n = m /\ Scoring(at, p, m, who).todo = {}
             /\ Scoring(at, p, m, who).next = NextTask(p, m)
  <2>1. PICK next \in Nat : next = NextTask(p, m)
    BY <1>2
  <2>2. Scoring(at, p, m, who)
          = [Idle EXCEPT !.at = at, !.p = p, !.n = m, !.who = who, !.next = next]
    BY <2>1 DEF Scoring
  <2>3. Idle \in CallRecord /\ Idle.todo = {}
    BY IdleType DEF Idle
  <2> QED BY <1>1, <2>1, <2>2, <2>3 DEF CallRecord, Stage
<1>4. PICK at \in {"scoring", "skipping"}, d \in {{}, {"late card"}} :
        /\ BeginWith(c, Scoring(at, p, m, who), d)
        /\ d = {} => OpenToScorer(p, m, who)
  <2>1. CASE LoadScore(c, p, m, who)
    BY <2>1 DEF LoadScore, BeginRequest, Begin
  <2>2. CASE LoadSkip(c, p, m, who)
    BY <2>2 DEF LoadSkip, BeginRequest, Begin
  <2>3. CASE LoadCardScore(c, p, m, who)
    <3>1. CASE OpenToScorer(p, m, who)
      BY <2>3, <3>1 DEF LoadCardScore
    <3>2. CASE ~OpenToScorer(p, m, who)
      BY <2>3, <3>2 DEF LoadCardScore
    <3> QED BY <3>1, <3>2
  <2> QED BY <2>1, <2>2, <2>3
<1>5. Member(p) /\ task[p][m].assigned
  BY DEF LoadScore, LoadSkip, LoadCardScore, OpenToScorer
<1>6. /\ Asks(c) /\ disturbed' = disturbed \cup d
      /\ Names(c, at, p, {}) /\ call'[c].n = m /\ call'[c].next = NextTask(p, m)
  <2>1. PICK r \in CallRecord :
          /\ r = Scoring(at, p, m, who)
          /\ r.at = at /\ r.p = p /\ r.n = m /\ r.todo = {} /\ r.next = NextTask(p, m)
    BY <1>3
  <2>2. BeginWith(c, r, d)
    BY <1>4, <2>1
  <2> QED BY <1>1, <2>1, <2>2, BeginDoes
<1>7. "late card" \notin disturbed' =>
         /\ task[p][m].status = "IN_PROGRESS"
         /\ instance[p].module = m /\ instance[p].assessment # "COMPLETED"
  BY <1>4, <1>6 DEF OpenToScorer
<1> QED BY <1>5, <1>6, <1>7 DEF AsksToScore

LEMMA ActionDoes ==
  ASSUME PerformanceInv, NEW c \in Calls, NEW p \in Participants, NEW sa \in Attempts(p),
         NEW who \in Executors, NEW approve \in BOOLEAN, LoadAction(c, p, sa, who, approve)
  PROVE  Asks(c) /\ AsksToReview(c) /\ UNCHANGED disturbed
<1> DEFINE r == [Idle EXCEPT !.at = "acting", !.p = p, !.n = sa[1], !.next = sa[2],
                             !.who = who, !.approve = approve]
<1>1. sa[1] \in Nat /\ sa[2] \in Nat
  BY DefinitionFacts, PerformanceAssumption DEF Attempts
<1>2. Idle \in CallRecord /\ Idle.todo = {}
  BY IdleType DEF Idle
<1>3. /\ r \in CallRecord
      /\ r.at = "acting" /\ r.p = p /\ r.todo = {} /\ r.n = sa[1] /\ r.next = sa[2]
  BY <1>1, <1>2 DEF CallRecord, Stage
<1>4. BeginWith(c, r, {}) /\ CallsOK
  BY DEF LoadAction, BeginRequest, Begin, PerformanceInv
<1> HIDE DEF r
<1>5. /\ Asks(c) /\ disturbed' = disturbed \cup {}
      /\ Names(c, "acting", p, {}) /\ call'[c].n = sa[1] /\ call'[c].next = sa[2]
  BY <1>3, <1>4, BeginDoes
<1>6. Member(p) /\ step[p][sa].status = "IN_PROGRESS" /\ instance[p].step = sa[1]
  BY DEF LoadAction
<1> QED BY <1>5, <1>6 DEF AsksToReview

LEMMA ManagementDoes ==
  ASSUME PerformanceInv, NEW c \in Calls,
         \/ LoadStart(c) \/ LoadArchive(c)
         \/ \E p \in Participants : LoadAdd(c, p) \/ LoadTemplate(c, p)
         \/ \E ps \in SUBSET Participants : LoadRestart(c, ps)
  PROVE  Asks(c) /\ AsksToManage(c) /\ UNCHANGED disturbed
<1>1. CallsOK /\ cycle.status \in ProcessStatus
  BY DEF PerformanceInv, RowsOK
<1>2. Idle \in CallRecord /\ Idle.todo = {} /\ Idle.p = None
  BY IdleType DEF Idle
<1>3. ASSUME NEW at \in {"starting", "restarting"}, NEW todo \in SUBSET Participants,
             Begin(c, [Idle EXCEPT !.at = at, !.todo = todo])
      PROVE  Asks(c) /\ Names(c, at, None, todo) /\ UNCHANGED disturbed
  <2> DEFINE r == [Idle EXCEPT !.at = at, !.todo = todo]
  <2>1. r \in CallRecord /\ r.at = at /\ r.p = None /\ r.todo = todo
    BY <1>2 DEF CallRecord, Stage
  <2>2. BeginWith(c, r, {})
    BY <1>3 DEF Begin
  <2> HIDE DEF r
  <2>3. /\ Asks(c) /\ disturbed' = disturbed \cup {}
        /\ Names(c, r.at, r.p, r.todo)
    BY <1>1, <2>1, <2>2, BeginDoes
  <2> QED BY <2>1, <2>3
<1>4. ASSUME NEW at \in {"adding", "templating"}, NEW p \in Participants,
             Begin(c, [Idle EXCEPT !.at = at, !.p = p, !.read = cycle.status])
      PROVE  Asks(c) /\ Names(c, at, p, {}) /\ call'[c].read = cycle.status /\ UNCHANGED disturbed
  <2> DEFINE r == [Idle EXCEPT !.at = at, !.p = p, !.read = cycle.status]
  <2>1. r \in CallRecord /\ r.at = at /\ r.p = p /\ r.todo = {} /\ r.read = cycle.status
    BY <1>1, <1>2 DEF CallRecord, Stage
  <2>2. BeginWith(c, r, {})
    BY <1>4 DEF Begin
  <2> HIDE DEF r
  <2>3. /\ Asks(c) /\ disturbed' = disturbed \cup {}
        /\ Names(c, r.at, r.p, r.todo) /\ call'[c].read = r.read
    BY <1>1, <2>1, <2>2, BeginDoes
  <2> QED BY <2>1, <2>3
<1>5. CASE LoadStart(c)
  <2>1. PICK todo \in SUBSET Participants :
          /\ todo = {p \in Members : instance[p].status # "CANCELLED"}
          /\ Begin(c, [Idle EXCEPT !.at = "starting", !.todo = todo])
    BY <1>5 DEF LoadStart, BeginRequest, Members
  <2>2. cycle.status = "DRAFT"
    BY <1>5 DEF LoadStart
  <2> QED BY <1>3, <2>1, <2>2 DEF AsksToManage
<1>6. CASE LoadArchive(c)
  <2> DEFINE r == [Idle EXCEPT !.at = "archiving", !.read = cycle.status]
  <2>1. /\ r \in CallRecord /\ r.at = "archiving" /\ r.p = None /\ r.todo = {}
        /\ r.read = cycle.status
    BY <1>1, <1>2 DEF CallRecord, Stage
  <2>2. BeginWith(c, r, {})
    BY <1>6 DEF LoadArchive, BeginManaging, Begin
  <2> HIDE DEF r
  <2>3. /\ Asks(c) /\ disturbed' = disturbed \cup {}
        /\ Names(c, "archiving", None, {}) /\ call'[c].read = cycle.status
    BY <1>1, <2>1, <2>2, BeginDoes
  <2> QED BY <2>3 DEF AsksToManage
<1>7. ASSUME NEW p \in Participants, LoadAdd(c, p)
      PROVE  Asks(c) /\ AsksToManage(c) /\ UNCHANGED disturbed
  <2>1. Asks(c) /\ Names(c, "adding", p, {}) /\ call'[c].read = cycle.status /\ UNCHANGED disturbed
    BY <1>4, <1>7 DEF LoadAdd, BeginManaging
  <2>2. cycle.status \in {"DRAFT", "IN_PROGRESS"} /\ instance[p].status = "ABSENT"
    BY <1>7 DEF LoadAdd
  <2> QED BY <2>1, <2>2 DEF AsksToManage
<1>8. ASSUME NEW p \in Participants, LoadTemplate(c, p)
      PROVE  Asks(c) /\ AsksToManage(c) /\ UNCHANGED disturbed
  <2>1. Asks(c) /\ Names(c, "templating", p, {}) /\ call'[c].read = cycle.status /\ UNCHANGED disturbed
    BY <1>4, <1>8 DEF LoadTemplate, BeginManaging
  <2> QED BY <2>1 DEF AsksToManage
<1>9. ASSUME NEW ps \in SUBSET Participants, LoadRestart(c, ps)
      PROVE  Asks(c) /\ AsksToManage(c) /\ UNCHANGED disturbed
  <2>1. Asks(c) /\ Names(c, "restarting", None, ps) /\ UNCHANGED disturbed
    BY <1>3, <1>9 DEF LoadRestart, BeginManaging
  <2> QED BY <2>1 DEF AsksToManage
<1> QED BY <1>5, <1>6, <1>7, <1>8, <1>9

LEMMA RequestDoes ==
  ASSUME PerformanceInv, NEW c \in Calls, Request(c)
  PROVE  Asks(c) /\ (AsksToScore(c) \/ AsksToReview(c) \/ AsksToManage(c))
  BY ScoringDoes, ActionDoes, ManagementDoes DEF Request

LEMMA StartDoes ==
  ASSUME PerformanceInv, NEW c \in Calls, Start(c), NEW todo, todo = call[c].todo
  PROVE  \/ Fails(c)
         \/ /\ cycle'.status = "IN_PROGRESS" /\ UNCHANGED <<step, disturbed>>
            /\ Goes(c, "measuring", call[c].n, call[c].next)
            /\ \A p \in Participants \ todo : Spared(p)
            /\ \A p \in todo :
                 /\ Turns(p, "IN_PROGRESS", "IN_PROGRESS", FirstOrNull(Manual(p)), instance[p].step)
                 /\ IF Manual(p) = {} THEN task'[p] = task[p]
                    ELSE /\ \A m \in Modules(p) \ {First(Manual(p))} : task'[p][m] = task[p][m]
                         /\ LET m == First(Manual(p))
                            IN  /\ task'[p][m].status = "IN_PROGRESS"
                                /\ task'[p][m].scored = task[p][m].scored
<1>1. CallsOK /\ call[c] \in CallRecord
  BY DEF PerformanceInv, CallsOK
<1>2. CASE Throw(c)
  BY <1>1, <1>2, ThrowFails
<1>3. CASE ~Throw(c)
  <2>1. /\ cycle' = [cycle EXCEPT !.status = "IN_PROGRESS"]
        /\ instance' = [p \in Participants |->
             IF p \in todo
             THEN [instance[p] EXCEPT !.status = "IN_PROGRESS",
                     !.assessment = "IN_PROGRESS", !.module = FirstOrNull(Manual(p))]
             ELSE instance[p]]
        /\ task' = [p \in Participants |->
             IF p \in todo /\ Manual(p) # {}
             THEN [task[p] EXCEPT ![First(Manual(p))].status = "IN_PROGRESS"]
             ELSE task[p]]
        /\ Continue(c, [call[c] EXCEPT !.at = "measuring"])
        /\ UNCHANGED step
    BY <1>3 DEF Start
  <2>2. Goes(c, "measuring", call[c].n, call[c].next) /\ UNCHANGED disturbed
    BY <1>1, <2>1, CallGoesTo
  <2>3. cycle'.status = "IN_PROGRESS"
    BY <2>1 DEF PerformanceInv, RowsOK
  <2>4. \A p \in Participants \ todo : Spared(p)
    BY <2>1 DEF Spared
  <2>5. ASSUME NEW p \in todo
        PROVE  /\ Turns(p, "IN_PROGRESS", "IN_PROGRESS", FirstOrNull(Manual(p)), instance[p].step)
               /\ IF Manual(p) = {} THEN task'[p] = task[p]
                  ELSE /\ \A m \in Modules(p) \ {First(Manual(p))} : task'[p][m] = task[p][m]
                       /\ LET m == First(Manual(p))
                          IN  /\ task'[p][m].status = "IN_PROGRESS"
                              /\ task'[p][m].scored = task[p][m].scored
    <3>1. p \in Participants
      BY <1>1 DEF CallRecord
    <3>2. instance[p] \in InstanceRow /\ task[p] \in [Modules(p) -> TaskRow]
      BY <3>1 DEF PerformanceInv, RowsOK, TasksOK
    <3>3. instance'[p] = [instance[p] EXCEPT !.status = "IN_PROGRESS",
                     !.assessment = "IN_PROGRESS", !.module = FirstOrNull(Manual(p))]
      BY <2>1, <3>1
    <3>4. Turns(p, "IN_PROGRESS", "IN_PROGRESS", FirstOrNull(Manual(p)), instance[p].step)
      BY <3>2, <3>3 DEF Turns, InstanceRow
    <3>5. CASE Manual(p) = {}
      BY <2>1, <3>1, <3>4, <3>5
    <3>6. CASE Manual(p) # {}
      <4>1. Manual(p) \in SUBSET Nat /\ Manual(p) \subseteq Modules(p)
        BY <3>1, DefinitionFacts
      <4>2. PICK m \in Modules(p) : m = First(Manual(p))
        BY <3>6, <4>1, FirstIsIn
      <4>3. task'[p] = [task[p] EXCEPT ![m].status = "IN_PROGRESS"]
        BY <2>1, <3>1, <3>6, <4>2
      <4>4. \A k \in Modules(p) \ {m} : task'[p][k] = task[p][k]
        BY <3>2, <4>3
      <4>5. task'[p][m] = [task[p][m] EXCEPT !.status = "IN_PROGRESS"] /\ task[p][m] \in TaskRow
        BY <3>2, <4>3
      <4>6. task'[p][m].status = "IN_PROGRESS" /\ task'[p][m].scored = task[p][m].scored
        BY <4>5 DEF TaskRow
      <4> QED BY <3>4, <3>6, <4>2, <4>4, <4>6
    <3> QED BY <3>5, <3>6
  <2> QED BY <2>1, <2>2, <2>3, <2>4, <2>5
<1> QED BY <1>2, <1>3

LEMMA MeasureDoes ==
  ASSUME PerformanceInv, NEW c \in Calls, Measure(c)
  PROVE  \E p \in call[c].todo :
           \/ Fails(c) /\ ~Known(c, p)
           \/ /\ Touches(p) /\ UNCHANGED <<cycle, instance, step>>
              /\ \A m \in Manual(p) : task'[p][m] = task[p][m]
              /\ \A m \in Metric(p) : task'[p][m].status = "COMPLETED"
              /\ Names(c, "advancing", p, call[c].todo \ {p}) /\ call'[c].seen = call[c].seen
<1>1. CallsOK /\ call[c] \in CallRecord
  BY DEF PerformanceInv, CallsOK
<1>2. PICK p \in call[c].todo :
       IF Metric(p) = {} \/ Known(c, p)
       THEN /\ task' = [task EXCEPT ![p] = [m \in Modules(p) |->
                 IF m \in Metric(p) THEN [@[m] EXCEPT !.status = "COMPLETED"] ELSE @[m]]]
            /\ Continue(c, [call[c] EXCEPT !.at = "advancing", !.p = p, !.todo = @ \ {p}])
            /\ UNCHANGED <<cycle, instance, step>>
       ELSE Throw(c)
  BY DEF Measure
<1>3. p \in Participants /\ task[p] \in [Modules(p) -> TaskRow] /\ Manual(p) \subseteq Modules(p)
  BY <1>1, DefinitionFacts DEF CallRecord, PerformanceInv, TasksOK
<1>4. CASE ~(Metric(p) = {} \/ Known(c, p))
  BY <1>1, <1>2, <1>4, ThrowFails
<1>5. CASE Metric(p) = {} \/ Known(c, p)
  <2>1. /\ task' = [task EXCEPT ![p] = [m \in Modules(p) |->
                 IF m \in Metric(p) THEN [@[m] EXCEPT !.status = "COMPLETED"] ELSE @[m]]]
        /\ Continue(c, [call[c] EXCEPT !.at = "advancing", !.p = p, !.todo = @ \ {p}])
        /\ UNCHANGED <<cycle, instance, step>>
    BY <1>2, <1>5
  <2>2. task'[p] = [m \in Modules(p) |->
          IF m \in Metric(p) THEN [task[p][m] EXCEPT !.status = "COMPLETED"] ELSE task[p][m]]
    BY <1>3, <2>1 DEF PerformanceInv, TasksOK
  <2>3. \A m \in Manual(p) : task'[p][m] = task[p][m]
    BY <1>3, <2>2 DEF Metric
  <2>4. \A m \in Metric(p) : task'[p][m].status = "COMPLETED"
    <3>1. ASSUME NEW m \in Metric(p) PROVE task'[p][m].status = "COMPLETED"
      <4>1. task'[p][m] = [task[p][m] EXCEPT !.status = "COMPLETED"] /\ task[p][m] \in TaskRow
        BY <1>3, <2>2 DEF Metric
      <4> QED BY <4>1 DEF TaskRow
    <3> QED BY <3>1
  <2>5. Names(c, "advancing", p, call[c].todo \ {p}) /\ call'[c].seen = call[c].seen
    <3>1. call'[c] = [call[c] EXCEPT !.at = "advancing", !.p = p, !.todo = @ \ {p}]
      BY <1>1, <2>1 DEF Continue, CallsOK
    <3> QED BY <1>1, <3>1 DEF Names, CallRecord
  <2>6. Touches(p)
    <3>1. \E f : task' = [task EXCEPT ![p] = f]
      BY <2>1
    <3>2. UNCHANGED disturbed
      BY <2>1 DEF Continue
    <3> QED BY <1>3, <2>1, <3>1, <3>2, TouchesOne
  <2> QED BY <2>1, <2>3, <2>4, <2>5, <2>6
<1> QED BY <1>4, <1>5

LEMMA AddDoes ==
  ASSUME PerformanceInv, NEW c \in Calls, Add(c), NEW p, p = call[c].p
  PROVE  \/ Fails(c)
         \/ /\ instance[p].status = "ABSENT"
            /\ Touches(p) /\ UNCHANGED <<cycle, task, step>>
            /\ IF call[c].read = "IN_PROGRESS"
               THEN /\ Turns(p, "IN_PROGRESS", "IN_PROGRESS", FirstOrNull(Manual(p)), instance[p].step)
                    /\ call'[c].at = "measuring" /\ call'[c].todo = {p}
                    /\ call'[c].seen = call[c].seen
               ELSE /\ Turns(p, "DRAFT", instance[p].assessment, instance[p].module, instance[p].step)
                    /\ call'[c] = Idle
<1>1. CallsOK /\ call[c] \in CallRecord /\ call[c].at = "adding"
  BY DEF Add, PerformanceInv, CallsOK
<1>2. p \in Participants /\ instance[p] \in InstanceRow
  BY <1>1, ActsOn DEF Roaming
<1>3. CASE instance[p].status # "ABSENT"
  <2>1. Throw(c)
    BY <1>3 DEF Add
  <2> QED BY <1>1, <2>1, ThrowFails
<1>4. CASE instance[p].status = "ABSENT" /\ call[c].read = "IN_PROGRESS"
  <2>1. /\ instance' = [instance EXCEPT ![p] =
                   [@ EXCEPT !.status = "IN_PROGRESS", !.assessment = "IN_PROGRESS",
                             !.module = FirstOrNull(Manual(p))]]
        /\ Continue(c, [call[c] EXCEPT !.at = "measuring", !.todo = {p}])
        /\ UNCHANGED <<cycle, task, step>>
    BY <1>4 DEF Add
  <2>2. instance'[p] = [instance[p] EXCEPT !.status = "IN_PROGRESS",
                          !.assessment = "IN_PROGRESS", !.module = FirstOrNull(Manual(p))]
    BY <1>2, <2>1 DEF PerformanceInv, RowsOK
  <2>3. Turns(p, "IN_PROGRESS", "IN_PROGRESS", FirstOrNull(Manual(p)), instance[p].step)
    BY <1>2, <2>2 DEF Turns, InstanceRow
  <2>4. /\ call'[c].at = "measuring" /\ call'[c].todo = {p} /\ call'[c].seen = call[c].seen
        /\ UNCHANGED disturbed
    <3>1. call'[c] = [call[c] EXCEPT !.at = "measuring", !.todo = {p}] /\ UNCHANGED disturbed
      BY <1>1, <2>1 DEF Continue, CallsOK
    <3> QED BY <1>1, <3>1 DEF CallRecord
  <2>5. Touches(p)
    <3>1. \E row : instance' = [instance EXCEPT ![p] = row]
      BY <2>1
    <3> QED BY <1>2, <2>1, <2>4, <3>1, TouchesOne
  <2> QED BY <1>4, <2>1, <2>3, <2>4, <2>5
<1>5. CASE instance[p].status = "ABSENT" /\ call[c].read # "IN_PROGRESS"
  <2>1. /\ instance' = [instance EXCEPT ![p] = [@ EXCEPT !.status = "DRAFT"]]
        /\ Continue(c, Idle)
        /\ UNCHANGED <<cycle, task, step>>
    BY <1>5 DEF Add
  <2>2. instance'[p] = [instance[p] EXCEPT !.status = "DRAFT"]
    BY <1>2, <2>1 DEF PerformanceInv, RowsOK
  <2>3. Turns(p, "DRAFT", instance[p].assessment, instance[p].module, instance[p].step)
    BY <1>2, <2>2 DEF Turns, InstanceRow
  <2>4. call'[c] = Idle /\ UNCHANGED disturbed
    BY <1>1, <2>1, CallEnds
  <2>5. Touches(p)
    <3>1. \E row : instance' = [instance EXCEPT ![p] = row]
      BY <2>1
    <3> QED BY <1>2, <2>1, <2>4, <3>1, TouchesOne
  <2> QED BY <1>5, <2>1, <2>3, <2>4, <2>5
<1> QED BY <1>3, <1>4, <1>5

LEMMA UpdateTemplateDoes ==
  ASSUME PerformanceInv, NEW c \in Calls, UpdateTemplate(c), NEW p, p = call[c].p
  PROVE  /\ call'[c] = Idle
         /\ \/ LeavesRows
            \/ /\ \A m \in Modules(p) : task[p][m].status # "COMPLETED"
               /\ UNCHANGED <<cycle, step>> /\ \A q \in Participants \ {p} : Spared(q)
               /\ task'[p] = NewTasks(p)
               /\ instance'[p].status = instance[p].status /\ instance'[p].step = instance[p].step
               /\ IF call[c].read = "IN_PROGRESS"
                  THEN disturbed' = disturbed \cup {"management"}
                  ELSE instance'[p].assessment = "DRAFT" /\ UNCHANGED disturbed
<1>1. CallsOK /\ call[c].at = "templating" /\ call'[c] = Idle
  BY DEF UpdateTemplate, PerformanceInv, CallsOK
<1>2. p \in Participants /\ instance[p] \in InstanceRow
  BY <1>1, ActsOn DEF Roaming
<1>3. CASE UNCHANGED <<rows, disturbed>>
  BY <1>1, <1>3 DEF LeavesRows, rows
<1>4. CASE ~UNCHANGED <<rows, disturbed>>
  <2>1. PICK e, module, assessment :
          /\ instance' = [instance EXCEPT
               ![p].edition = e, ![p].module = module, ![p].assessment = assessment]
          /\ call[c].read # "IN_PROGRESS" => assessment = "DRAFT"
    <3>1. PICK e, module, assessment :
            /\ e = instance[p].edition + 1
            /\ module = IF call[c].read = "IN_PROGRESS" THEN FirstOrNull(Manual(p)) ELSE 0
            /\ assessment = IF call[c].read = "IN_PROGRESS" THEN "IN_PROGRESS" ELSE "DRAFT"
      OBVIOUS
    <3>2. instance' = [instance EXCEPT
            ![p].edition = @ + 1, ![p].module = module, ![p].assessment = assessment]
      BY <1>4, <3>1 DEF UpdateTemplate
    <3>3. instance' = [instance EXCEPT
            ![p].edition = e, ![p].module = module, ![p].assessment = assessment]
      BY <1>2, <3>1, <3>2 DEF PerformanceInv, RowsOK
    <3> QED BY <3>1, <3>3
  <2>2. /\ \A m \in Modules(p) : task[p][m].status # "COMPLETED"
        /\ task' = [task EXCEPT ![p] = NewTasks(p)]
        /\ UNCHANGED <<cycle, step>>
        /\ disturbed' = IF call[c].read = "IN_PROGRESS" THEN disturbed \cup {"management"}
                        ELSE disturbed
    BY <1>4 DEF UpdateTemplate
  <2>3. instance'[p] = [instance[p] EXCEPT
                          !.edition = e, !.module = module, !.assessment = assessment]
    BY <1>2, <2>1 DEF PerformanceInv, RowsOK
  <2>4. /\ instance'[p].status = instance[p].status /\ instance'[p].step = instance[p].step
        /\ instance'[p].assessment = assessment
    BY <1>2, <2>3 DEF InstanceRow
  <2>5. task'[p] = NewTasks(p)
    BY <1>2, <2>2 DEF PerformanceInv, TasksOK
  <2>6. ASSUME NEW q \in Participants \ {p} PROVE Spared(q)
    <3>1. instance'[q] = instance[q]
      BY <1>2, <2>1 DEF PerformanceInv, RowsOK
    <3>2. task'[q] = task[q] /\ step'[q] = step[q]
      BY <1>2, <2>2 DEF PerformanceInv, TasksOK
    <3> QED BY <3>1, <3>2 DEF Spared
  <2> QED BY <1>1, <2>1, <2>2, <2>4, <2>5, <2>6
<1> QED BY <1>3, <1>4

LEMMA RestartDoes ==
  ASSUME PerformanceInv, NEW c \in Calls, Restart(c)
  PROVE  /\ call'[c] = Idle /\ disturbed' = disturbed \cup {"management"}
         /\ cycle'.status = "IN_PROGRESS"
         /\ \A p \in Participants :
              \/ /\ Member(p)
                 /\ instance'[p].status = "IN_PROGRESS" /\ instance'[p].step = 0
              \/ Spared(p)
<1>1. call'[c] = Idle /\ disturbed' = disturbed \cup {"management"}
  BY DEF Restart, PerformanceInv, CallsOK
<1>2. cycle'.status = "IN_PROGRESS"
  BY DEF Restart, PerformanceInv, RowsOK
<1>3. ASSUME NEW p \in Participants
      PROVE  \/ /\ Member(p)
                /\ instance'[p].status = "IN_PROGRESS" /\ instance'[p].step = 0
             \/ Spared(p)
  <2>1. CASE p \in call[c].todo \cap Members
    <3>1. instance'[p] = [instance[p] EXCEPT !.status = "IN_PROGRESS",
                            !.assessment = "IN_PROGRESS", !.module = 0, !.step = 0]
      BY <2>1 DEF Restart
    <3>2. instance[p] \in InstanceRow
      BY DEF PerformanceInv, RowsOK
    <3>3. instance'[p].status = "IN_PROGRESS" /\ instance'[p].step = 0
      BY <3>1, <3>2 DEF InstanceRow
    <3> QED BY <2>1, <3>3 DEF Members
  <2>2. CASE p \notin call[c].todo \cap Members
    BY <2>2 DEF Restart, Spared
  <2> QED BY <2>1, <2>2
<1> QED BY <1>1, <1>2, <1>3

\* What stopping does to the tasks of one participant
Stopped(p) ==
  /\ \A m \in Modules(p) :
       task'[p][m].status = IF task[p][m].status \in {"PENDING", "IN_PROGRESS"} THEN "CANCELLED"
                            ELSE task[p][m].status
  /\ \A sa \in Attempts(p) :
       /\ step'[p][sa].status = IF step[p][sa].status \in {"PENDING", "IN_PROGRESS"}
                                THEN "CANCELLED" ELSE step[p][sa].status
       /\ step'[p][sa].approved = step[p][sa].approved
       /\ step'[p][sa].rejected = step[p][sa].rejected

LEMMA StopTasksDoes ==
  ASSUME PerformanceInv, NEW ps \in SUBSET Participants, StopTasks(ps), NEW p \in Participants
  PROVE  /\ p \in ps => Stopped(p)
         /\ p \notin ps => task'[p] = task[p] /\ step'[p] = step[p]
<1>1. p \notin ps => task'[p] = task[p] /\ step'[p] = step[p]
  BY DEF StopTasks
<1>2. ASSUME p \in ps PROVE Stopped(p)
  <2>1. task[p] \in [Modules(p) -> TaskRow] /\ step[p] \in [Attempts(p) -> StepRow]
    BY DEF PerformanceInv, TasksOK, StepsOK
  <2>2. /\ task'[p] = [m \in Modules(p) |-> Stop(task[p][m])]
        /\ step'[p] = [sa \in Attempts(p) |-> Stop(step[p][sa])]
    BY <1>2 DEF StopTasks
  <2>3. ASSUME NEW m \in Modules(p)
        PROVE  task'[p][m].status = IF task[p][m].status \in {"PENDING", "IN_PROGRESS"}
                                    THEN "CANCELLED" ELSE task[p][m].status
    <3>1. PICK row \in TaskRow : row = task[p][m]
      BY <2>1
    <3>2. task'[p][m] = Stop(row)
      BY <2>2, <3>1
    <3>3. Stop(row).status = IF row.status \in {"PENDING", "IN_PROGRESS"}
                             THEN "CANCELLED" ELSE row.status
      BY DEF Stop, TaskRow
    <3> QED BY <3>1, <3>2, <3>3
  <2>4. ASSUME NEW sa \in Attempts(p)
        PROVE  /\ step'[p][sa].status = IF step[p][sa].status \in {"PENDING", "IN_PROGRESS"}
                                        THEN "CANCELLED" ELSE step[p][sa].status
               /\ step'[p][sa].approved = step[p][sa].approved
               /\ step'[p][sa].rejected = step[p][sa].rejected
    <3>1. PICK row \in StepRow : row = step[p][sa]
      BY <2>1
    <3>2. step'[p][sa] = Stop(row)
      BY <2>2, <3>1
    <3>3. /\ Stop(row).status = IF row.status \in {"PENDING", "IN_PROGRESS"}
                                THEN "CANCELLED" ELSE row.status
          /\ Stop(row).approved = row.approved /\ Stop(row).rejected = row.rejected
      BY DEF Stop, StepRow
    <3> QED BY <3>1, <3>2, <3>3
  <2> QED BY <2>3, <2>4 DEF Stopped
<1> QED BY <1>1, <1>2

\* Closed together with its tasks, and otherwise as it was
Closed(p) ==
  /\ Stopped(p)
  /\ instance'[p].status = "CANCELLED"
  /\ instance'[p].assessment = instance[p].assessment /\ instance'[p].step = instance[p].step

LEMMA CloseDoes ==
  ASSUME PerformanceInv, NEW ps \in SUBSET Participants, Close(ps)
  PROVE  /\ UNCHANGED <<call, disturbed>>
         /\ cycle' = cycle \/ /\ cycle'.status = "CANCELLED"
                              /\ \A p \in Members \ ps : instance[p].status = "CANCELLED"
         /\ \A p \in Participants : IF p \in ps THEN Member(p) /\ Closed(p) ELSE Spared(p)
<1>1. UNCHANGED <<call, disturbed>>
  BY DEF Close
<1>2. cycle' = cycle \/ /\ cycle'.status = "CANCELLED"
                        /\ \A p \in Members \ ps : instance[p].status = "CANCELLED"
  BY DEF Close, PerformanceInv, RowsOK
<1>3. ASSUME NEW p \in Participants
      PROVE  IF p \in ps THEN Member(p) /\ Closed(p) ELSE Spared(p)
  <2>1. StopTasks(ps)
    BY DEF Close
  <2>2. CASE p \in ps
    <3>1. instance'[p] = [instance[p] EXCEPT !.status = "CANCELLED"]
      BY <2>2 DEF Close
    <3>2. instance[p] \in InstanceRow
      BY DEF PerformanceInv, RowsOK
    <3>3. /\ instance'[p].status = "CANCELLED" /\ instance'[p].step = instance[p].step
          /\ instance'[p].assessment = instance[p].assessment
      BY <3>1, <3>2 DEF InstanceRow
    <3>4. Member(p)
      BY <2>2 DEF Close, Members
    <3> QED BY <2>1, <2>2, <3>3, <3>4, StopTasksDoes DEF Closed
  <2>3. CASE p \notin ps
    <3>1. instance'[p] = instance[p]
      BY <2>3 DEF Close
    <3> QED BY <2>1, <2>3, <3>1, StopTasksDoes DEF Spared
  <2> QED BY <2>2, <2>3
<1> QED BY <1>1, <1>2, <1>3

LEMMA ArchiveDoes ==
  ASSUME PerformanceInv, NEW c \in Calls, Archive(c)
  PROVE  /\ call'[c] = Idle /\ UNCHANGED disturbed
         /\ \/ /\ call[c].read # "IN_PROGRESS"
               /\ cycle'.status = call[c].read /\ UNCHANGED <<instance, task, step>>
            \/ /\ call[c].read = "IN_PROGRESS" /\ cycle'.status = "CANCELLED"
               /\ \A p \in Participants :
                    IF Member(p)
                    THEN /\ Stopped(p)
                         /\ IF instance[p].status = "IN_PROGRESS" THEN Closed(p)
                            ELSE instance'[p] = instance[p]
                    ELSE Spared(p)
<1>1. call'[c] = Idle /\ UNCHANGED disturbed
  BY CallEnds DEF Archive, PerformanceInv
<1>2. CASE call[c].read # "IN_PROGRESS"
  BY <1>1, <1>2 DEF Archive
<1>3. CASE call[c].read = "IN_PROGRESS"
  <2>1. /\ cycle' = [status |-> "CANCELLED", archived |-> TRUE]
        /\ instance' = [p \in Participants |->
             IF Member(p) /\ instance[p].status = "IN_PROGRESS"
             THEN [instance[p] EXCEPT !.status = "CANCELLED"] ELSE instance[p]]
        /\ StopTasks(Members)
    BY <1>3 DEF Archive, Members
  <2>2. Members \in SUBSET Participants /\ \A p \in Participants : p \in Members <=> Member(p)
    BY DEF Members
  <2>3. ASSUME NEW p \in Participants
        PROVE  IF Member(p)
               THEN /\ Stopped(p)
                    /\ IF instance[p].status = "IN_PROGRESS" THEN Closed(p)
                       ELSE instance'[p] = instance[p]
               ELSE Spared(p)
    <3>1. /\ Member(p) => Stopped(p)
          /\ ~Member(p) => task'[p] = task[p] /\ step'[p] = step[p]
      BY <2>1, <2>2, StopTasksDoes
    <3>2. CASE Member(p) /\ instance[p].status = "IN_PROGRESS"
      <4>1. instance'[p] = [instance[p] EXCEPT !.status = "CANCELLED"]
        BY <2>1, <3>2
      <4>2. instance[p] \in InstanceRow
        BY DEF PerformanceInv, RowsOK
      <4>3. /\ instance'[p].status = "CANCELLED" /\ instance'[p].step = instance[p].step
            /\ instance'[p].assessment = instance[p].assessment
        BY <4>1, <4>2 DEF InstanceRow
      <4> QED BY <3>1, <3>2, <4>3 DEF Closed
    <3>3. CASE ~(Member(p) /\ instance[p].status = "IN_PROGRESS")
      <4>1. instance'[p] = instance[p]
        BY <2>1, <3>3
      <4> QED BY <3>1, <3>3, <4>1 DEF Spared
    <3> QED BY <3>2, <3>3
  <2>4. cycle'.status = "CANCELLED"
    BY <2>1
  <2> QED BY <1>1, <1>3, <2>3, <2>4
<1> QED BY <1>2, <1>3

LEMMA RemoveDoes ==
  ASSUME PerformanceInv, NEW p \in Participants, Remove(p)
  PROVE  /\ Touches(p) /\ UNCHANGED <<cycle, task, step, call>>
         /\ Turns(p, "REMOVED", instance[p].assessment, 0, 0)
<1>1. /\ instance' = [instance EXCEPT ![p].status = "REMOVED", ![p].module = 0, ![p].step = 0]
      /\ UNCHANGED <<cycle, task, step, call, disturbed>>
  BY DEF Remove
<1>2. instance'[p] = [instance[p] EXCEPT !.status = "REMOVED", !.module = 0, !.step = 0]
  BY <1>1 DEF PerformanceInv, RowsOK
<1>3. instance[p] \in InstanceRow
  BY DEF PerformanceInv, RowsOK
<1>4. Turns(p, "REMOVED", instance[p].assessment, 0, 0)
  BY <1>2, <1>3 DEF Turns, InstanceRow
<1>5. \E row : instance' = [instance EXCEPT ![p] = row]
  BY <1>1
<1> QED BY <1>1, <1>4, <1>5, TouchesOne

-----------------------------------------------------------------------------
(***************************************************************************)
(* One call at a time                                                      *)
(*                                                                         *)
(* While no two calls were ever in flight together, what a call relies on  *)
(* can only have been written by itself: every step belongs to the one     *)
(* call in flight, or begins or manages when there is none.                *)
(***************************************************************************)
Quiet == \A c \in Calls : call[c].at = "idle"
Alone(c) == \A d \in Calls \ {c} : call[d].at = "idle"
AloneInv ==
  ~overlapped => \A c, d \in Calls : call[c].at # "idle" /\ call[d].at # "idle" => c = d

\* A step of one call leaves the others where they are.
LEMMA ProceedIsOwn ==
  ASSUME PerformanceInv, NEW c \in Calls, Proceed(c) \/ Interrupt(c)
  PROVE  /\ call[c].at # "idle" /\ UNCHANGED overlapped
         /\ \A d \in Calls \ {c} : call'[d] = call[d]
<1>1. CASE \/ CommitScore(c) \/ CollectScores(c) \/ SkipModule(c)
           \/ Advance(c) \/ OpenModule(c) \/ ResolveAssignees(c) \/ FinishAssessment(c)
  <2>1. call[c].at # "idle" /\ \E k : Continue(c, k)
    BY <1>1 DEF CommitScore, CollectScores, SkipModule, CompleteTask, Advance, OpenModule,
       ResolveAssignees, FinishAssessment, Throw
  <2> QED BY <2>1 DEF Continue, PerformanceInv, CallsOK
<1>2. CASE ReadStep(c) \/ CreateStep(c) \/ CommitAction(c) \/ CollectApprovals(c) \/ RejectStep(c)
  <2>1. call[c].at # "idle" /\ \E k : Continue(c, k)
    BY <1>2 DEF ReadStep, CreateStep, CommitAction, CollectApprovals, CompleteStep, RejectStep, Throw
  <2> QED BY <2>1 DEF Continue, PerformanceInv, CallsOK
<1>3. CASE Start(c) \/ Measure(c) \/ Add(c) \/ Archive(c)
  <2>1. call[c].at # "idle" /\ \E k : Continue(c, k)
    BY <1>3 DEF Start, Measure, Add, Archive, Throw
  <2> QED BY <2>1 DEF Continue, PerformanceInv, CallsOK
<1>4. CASE UpdateTemplate(c) \/ Restart(c) \/ Interrupt(c)
  <2>1. /\ call[c].at # "idle" /\ UNCHANGED overlapped
        /\ call' = [call EXCEPT ![c] = Idle]
    BY <1>4 DEF UpdateTemplate, Restart, Interrupt
  <2> QED BY <2>1 DEF PerformanceInv, CallsOK
<1> QED BY <1>1, <1>2, <1>3, <1>4 DEF Proceed

LEMMA OneCallSteps ==
  ASSUME PerformanceInv, AloneInv, Next, ~overlapped'
  PROVE  /\ ~overlapped
         /\ \/ \E c \in Calls :
                 /\ Alone(c) /\ Alone(c)'
                 /\ \/ Quiet /\ Request(c)
                    \/ call[c].at # "idle" /\ (Proceed(c) \/ Interrupt(c))
            \/ /\ Quiet /\ UNCHANGED call
               /\ (\E p \in Participants : Remove(p)) \/ \E ps \in SUBSET Participants : Close(ps)
<1>1. ASSUME NEW c \in Calls, Request(c)
      PROVE  ~overlapped /\ Alone(c) /\ Alone(c)' /\ Quiet
  <2>1. Asks(c)
    BY <1>1, RequestDoes
  <2>2. ~overlapped /\ Alone(c)
    BY <2>1 DEF Asks, Overlap, Alone
  <2> QED BY <2>1, <2>2 DEF Asks, Alone, Quiet
<1>2. ASSUME NEW c \in Calls, Proceed(c) \/ Interrupt(c)
      PROVE  ~overlapped /\ Alone(c) /\ Alone(c)' /\ call[c].at # "idle"
  <2>1. /\ call[c].at # "idle" /\ ~overlapped
        /\ \A d \in Calls \ {c} : call'[d] = call[d]
    BY <1>2, ProceedIsOwn
  <2>2. Alone(c)
    BY <2>1 DEF Alone, AloneInv
  <2> QED BY <2>1, <2>2 DEF Alone
<1>3. ASSUME \/ \E p \in Participants : Remove(p)
             \/ \E ps \in SUBSET Participants : Close(ps)
      PROVE  ~overlapped /\ Quiet /\ UNCHANGED call
  BY <1>3 DEF Remove, Close, Quiet
<1> QED BY <1>1, <1>2, <1>3 DEF Next

LEMMA AloneHolds == Spec => []AloneInv
<1>1. Init => AloneInv
  BY IdleType DEF Init, AloneInv
<1>2. PerformanceInv /\ AloneInv /\ [Next]_vars => AloneInv'
  <2>1. CASE UNCHANGED vars
    BY <2>1 DEF vars, AloneInv
  <2>2. ASSUME PerformanceInv, AloneInv, Next, ~overlapped' PROVE AloneInv'
    <3>1. (\E c \in Calls : Alone(c)') \/ (Quiet /\ UNCHANGED call)
      BY <2>2, OneCallSteps
    <3> QED BY <3>1 DEF Alone, Quiet, AloneInv
  <2> QED BY <2>1, <2>2 DEF AloneInv
<1> QED BY <1>1, <1>2, PerformanceInvariance, PTL DEF Spec

\* What has come in between is never forgotten.
LEMMA ProceedKeepsDisturbance ==
  ASSUME NEW c \in Calls, Proceed(c) \/ Interrupt(c)
  PROVE  disturbed \subseteq disturbed'
<1>1. CASE \/ CommitScore(c) \/ CollectScores(c) \/ SkipModule(c)
           \/ Advance(c) \/ OpenModule(c) \/ ResolveAssignees(c) \/ FinishAssessment(c)
  BY <1>1 DEF CommitScore, CollectScores, SkipModule, CompleteTask, Advance, OpenModule,
     ResolveAssignees, FinishAssessment, Throw, Continue
<1>2. CASE ReadStep(c) \/ CreateStep(c) \/ CommitAction(c) \/ CollectApprovals(c) \/ RejectStep(c)
  BY <1>2 DEF ReadStep, CreateStep, CommitAction, CollectApprovals, CompleteStep, RejectStep,
     Throw, Continue
<1>3. CASE Start(c) \/ Measure(c) \/ Add(c) \/ Archive(c)
  BY <1>3 DEF Start, Measure, Add, Archive, Throw, Continue
<1>4. CASE UpdateTemplate(c) \/ Restart(c) \/ Interrupt(c)
  BY <1>4 DEF UpdateTemplate, Restart, Interrupt
<1> QED BY <1>1, <1>2, <1>3, <1>4 DEF Proceed

-----------------------------------------------------------------------------
(***************************************************************************)
(* The reviewers of a step                                                 *)
(*                                                                         *)
(* A rejection is recorded in one transaction and takes effect in the      *)
(* next.  In between the step is open and rejected, and it is the call in  *)
(* flight that is about to cancel it.                                      *)
(***************************************************************************)
\* The step a call acts on is open, and it is the current one.
Reviewing(r) ==
  r.at \in {"acting", "acted"} =>
    /\ Member(r.p) /\ instance[r.p].step = r.n
    /\ <<r.n, r.next>> \in Attempts(r.p)
    /\ step[r.p][<<r.n, r.next>>].status = "IN_PROGRESS"

\* The call has recorded a rejection of the step and will cancel it next.
Overruling(r, p, sa) ==
  r.at = "acted" /\ ~r.approve /\ r.p = p /\ <<r.n, r.next>> = sa

Heard(r, p, sa) ==
  /\ step[p][sa].status = "COMPLETED" =>
       step[p][sa].approved = Reviewers(p, sa[1]) /\ step[p][sa].rejected = {}
  /\ step[p][sa].status \in {"ABSENT", "PENDING", "IN_PROGRESS"} /\ step[p][sa].rejected # {} =>
       Overruling(r, p, sa)
AllHeard(r) == disturbed = {} => \A p \in Participants : \A sa \in Attempts(p) : Heard(r, p, sa)

ReviewOK(r) == Reviewing(r) /\ AllHeard(r)
ReviewInv ==
  ~overlapped => /\ \A c \in Calls : call[c].at # "idle" => ReviewOK(call[c])
                 /\ Quiet => ReviewOK(Idle)

\* What happens to a step that no reviewer acts on
Unreviewed(p, sa) ==
  /\ step'[p][sa].approved = step[p][sa].approved /\ step'[p][sa].rejected = step[p][sa].rejected
  /\ \/ step'[p][sa].status = step[p][sa].status
     \/ step'[p][sa].status = "CANCELLED"
     \/ step[p][sa].status = "ABSENT" /\ step'[p][sa].status = "IN_PROGRESS"

LEMMA NothingOverruled ==
  ASSUME NEW c \in Calls, AllHeard(call[c]), call[c].at # "acted" \/ call[c].approve
  PROVE  AllHeard(Idle)
  BY DEF AllHeard, Heard, Overruling

LEMMA IdleReviews == Reviewing(Idle) /\ \A p, sa : ~Overruling(Idle, p, sa)
  BY IdleType DEF Reviewing, Overruling

LEMMA HeardKept ==
  ASSUME AllHeard(Idle), NEW c \in Calls, disturbed \subseteq disturbed',
         \A p \in Participants : \A sa \in Attempts(p) : Unreviewed(p, sa)
  PROVE  AllHeard(call[c])' /\ AllHeard(Idle)'
<1> SUFFICES ASSUME disturbed = {}, NEW p \in Participants, NEW sa \in Attempts(p)
             PROVE  Heard(call[c], p, sa)' /\ Heard(Idle, p, sa)'
  BY DEF AllHeard
<1>1. Heard(Idle, p, sa) /\ ~Overruling(Idle, p, sa) /\ Unreviewed(p, sa)
  BY IdleReviews DEF AllHeard
<1> QED BY <1>1 DEF Heard, Unreviewed

\* A step of a call that no reviewer made
LEMMA ReviewKept ==
  ASSUME NEW c \in Calls, AllHeard(call[c]), call[c].at # "acted", disturbed \subseteq disturbed',
         \A p \in Participants : \A sa \in Attempts(p) : Unreviewed(p, sa),
         call'[c].at \notin {"acting", "acted"}
  PROVE  ReviewOK(call[c])'
<1>1. AllHeard(call[c])'
  BY NothingOverruled, HeardKept
<1>2. Reviewing(call[c])'
  BY DEF Reviewing
<1> QED BY <1>1, <1>2 DEF ReviewOK

LEMMA SameSteps ==
  ASSUME UNCHANGED step
  PROVE  \A p \in Participants : \A sa \in Attempts(p) : Unreviewed(p, sa)
  BY DEF Unreviewed

LEMMA FailedReviewKept ==
  ASSUME NEW c \in Calls, AllHeard(call[c]), call[c].at # "acted" \/ call[c].approve, Fails(c)
  PROVE  ReviewOK(call[c])'
<1>1. UNCHANGED step /\ disturbed \subseteq disturbed' /\ call'[c].at = "idle"
  BY IdleType DEF Fails, LeavesRows
<1>2. AllHeard(call[c])'
  BY <1>1, NothingOverruled, SameSteps, HeardKept
<1>3. Reviewing(call[c])'
  BY <1>1 DEF Reviewing
<1> QED BY <1>2, <1>3 DEF ReviewOK

LEMMA RequestReviews ==
  ASSUME PerformanceInv, NEW c \in Calls, ReviewOK(Idle), Request(c)
  PROVE  ReviewOK(call[c])'
<1>1. Asks(c) /\ (AsksToScore(c) \/ AsksToReview(c) \/ AsksToManage(c))
  BY RequestDoes
<1>2. AllHeard(call[c])'
  BY <1>1, SameSteps, HeardKept DEF Asks, ReviewOK
<1>3. Reviewing(call[c])'
  <2>1. CASE AsksToScore(c) \/ AsksToManage(c)
    BY <2>1 DEF AsksToScore, AsksToManage, Names, Reviewing
  <2>2. CASE AsksToReview(c)
    <3>1. PICK p \in Participants : \E sa \in Attempts(p) :
            /\ call'[c].p = p /\ call'[c].n = sa[1] /\ call'[c].next = sa[2]
            /\ Member(p) /\ step[p][sa].status = "IN_PROGRESS" /\ instance[p].step = sa[1]
      BY <2>2 DEF AsksToReview, Names
    <3>2. PICK sa \in Attempts(p) :
            /\ call'[c].p = p /\ call'[c].n = sa[1] /\ call'[c].next = sa[2]
            /\ Member(p) /\ step[p][sa].status = "IN_PROGRESS" /\ instance[p].step = sa[1]
      BY <3>1
    <3>3. sa = <<sa[1], sa[2]>>
      BY DEF Attempts
    <3>4. UNCHANGED <<instance, step>>
      BY <1>1 DEF Asks
    <3>5. Member(p)'
      BY <3>2, <3>4 DEF Member
    <3> QED BY <3>2, <3>3, <3>4, <3>5 DEF Reviewing
  <2> QED BY <1>1, <2>1, <2>2
<1> QED BY <1>2, <1>3 DEF ReviewOK

LEMMA AssessmentReviews ==
  ASSUME PerformanceInv, NEW c \in Calls, ReviewOK(call[c]),
         \/ CommitScore(c) \/ CollectScores(c) \/ SkipModule(c)
         \/ Advance(c) \/ OpenModule(c) \/ ResolveAssignees(c) \/ FinishAssessment(c)
  PROVE  ReviewOK(call[c])'
<1>1. call[c].at # "acted" /\ AllHeard(call[c])
  BY DEF CommitScore, CollectScores, SkipModule, Advance, OpenModule, ResolveAssignees,
     FinishAssessment, ReviewOK
<1>2. \/ Fails(c)
      \/ UNCHANGED <<step, disturbed>> /\ call'[c].at \notin {"acting", "acted"}
  <2>1. CASE CommitScore(c)
    BY <2>1, CommitScoreDoes DEF Touches, Goes
  <2>2. CASE CollectScores(c) \/ SkipModule(c)
    <3>1. Fails(c) \/ (call[c].at \in {"scored", "skipping"} /\ CompleteTask(c))
      BY <2>2, CollectScoresDoes DEF SkipModule
    <3> QED BY <3>1, CompleteTaskDoes DEF Touches, Goes
  <2>3. CASE Advance(c)
    <3>1. UNCHANGED <<step, disturbed>>
      BY <2>3, AdvanceDoes DEF LeavesRows
    <3>2. call'[c].at \notin {"acting", "acted"}
      BY <2>3, AdvanceDoes, IdleType DEF GoesOnTo, Goes, Picks
    <3> QED BY <3>1, <3>2
  <2>4. CASE OpenModule(c)
    BY <2>4, OpenModuleDoes DEF Touches, Goes
  <2>5. CASE ResolveAssignees(c)
    BY <2>5, ResolveAssigneesDoes, IdleType DEF Touches, GoesOnTo, Goes
  <2>6. CASE FinishAssessment(c)
    BY <2>6, FinishAssessmentDoes, IdleType DEF Touches, GoesOnTo, Goes
  <2> QED BY <2>1, <2>2, <2>3, <2>4, <2>5, <2>6
<1> QED BY <1>1, <1>2, SameSteps, ReviewKept, FailedReviewKept

LEMMA WorkflowReviews ==
  ASSUME PerformanceInv, NEW c \in Calls, ReviewOK(call[c]), ReadStep(c) \/ CreateStep(c)
  PROVE  ReviewOK(call[c])'
<1>1. call[c].at # "acted" /\ AllHeard(call[c])
  BY DEF ReadStep, CreateStep, ReviewOK
<1>2. CASE ReadStep(c)
  <2>1. UNCHANGED <<step, disturbed>>
    BY <1>2, ReadStepDoes DEF LeavesRows
  <2>2. call'[c].at \notin {"acting", "acted"}
    BY <1>2, ReadStepDoes, IdleType DEF GoesOnTo, Goes
  <2> QED BY <1>1, <2>1, <2>2, SameSteps, ReviewKept
<1>3. CASE CreateStep(c)
  <2>1. PICK p, sa : p = call[c].p /\ sa = <<call[c].n, call[c].next>>
    OBVIOUS
  <2>2. CASE Fails(c)
    BY <1>1, <2>2, FailedReviewKept
  <2>3. CASE ~Fails(c)
    <3>1. /\ step[p][sa].status = "ABSENT" /\ Touches(p) /\ Writes(p, sa, "IN_PROGRESS")
          /\ GoesOnTo(c)
      BY <1>3, <2>1, <2>3, CreateStepDoes
    <3>2. ASSUME NEW q \in Participants, NEW ta \in Attempts(q)
          PROVE  Unreviewed(q, ta)
      BY <3>1 DEF Touches, Spared, Writes, Unreviewed
    <3>3. call'[c].at \notin {"acting", "acted"} /\ UNCHANGED disturbed
      BY <3>1, IdleType DEF GoesOnTo, Goes, Touches
    <3> QED BY <1>1, <3>2, <3>3, ReviewKept
  <2> QED BY <2>2, <2>3
<1> QED BY <1>2, <1>3

LEMMA CommitActionReviews ==
  ASSUME PerformanceInv, NEW c \in Calls, ReviewOK(call[c]), CommitAction(c)
  PROVE  ReviewOK(call[c])'
<1>1. PICK p, sa, approve :
        p = call[c].p /\ sa = <<call[c].n, call[c].next>> /\ approve = call[c].approve
  OBVIOUS
<1>2. call[c].at = "acting" /\ Reviewing(call[c]) /\ AllHeard(call[c])
  BY DEF CommitAction, ReviewOK
<1>3. CASE Fails(c)
  BY <1>2, <1>3, FailedReviewKept
<1>4. CASE ~Fails(c)
  <2>1. /\ Member(p) /\ Touches(p) /\ UNCHANGED instance
        /\ Goes(c, "acted", call[c].n, call[c].next)
        /\ \A ta \in Attempts(p) \ {sa} : step'[p][ta] = step[p][ta]
        /\ sa \in Attempts(p) => /\ step'[p][sa].status = step[p][sa].status
                                 /\ approve => step'[p][sa].rejected = step[p][sa].rejected
    BY <1>1, <1>4, CommitActionDoes
  <2>2. sa \in Attempts(p) /\ step[p][sa].status = "IN_PROGRESS" /\ instance[p].step = call[c].n
    BY <1>1, <1>2 DEF Reviewing
  <2>3. /\ call'[c].at = "acted" /\ call'[c].p = p /\ call'[c].n = call[c].n
        /\ call'[c].next = call[c].next /\ call'[c].approve = approve
        /\ UNCHANGED disturbed
    BY <1>1, <2>1 DEF Goes, Touches
  <2>4. Reviewing(call[c])'
    BY <1>1, <2>1, <2>2, <2>3 DEF Reviewing, Member
  <2>5. ASSUME disturbed = {}, NEW q \in Participants, NEW ta \in Attempts(q)
        PROVE  Heard(call[c], q, ta)'
    <3>1. Heard(call[c], q, ta) /\ ~Overruling(call[c], q, ta)
      BY <1>2, <2>5 DEF AllHeard, Overruling
    <3>2. CASE q = p /\ ta = sa
      BY <1>1, <2>1, <2>2, <2>3, <3>1, <3>2 DEF Heard, Overruling
    <3>3. CASE ~(q = p /\ ta = sa)
      <4>1. step'[q][ta] = step[q][ta]
        BY <2>1, <3>3 DEF Touches, Spared
      <4> QED BY <3>1, <4>1 DEF Heard
    <3> QED BY <3>2, <3>3
  <2>6. AllHeard(call[c])'
    BY <2>3, <2>5 DEF AllHeard
  <2> QED BY <2>4, <2>6 DEF ReviewOK
<1> QED BY <1>3, <1>4

\* The last approval: nobody has rejected the step, or the call in flight would be about to
\* cancel it.
LEMMA CollectApprovalsReviews ==
  ASSUME PerformanceInv, NEW c \in Calls, ReviewOK(call[c]), CollectApprovals(c)
  PROVE  ReviewOK(call[c])'
<1>1. PICK p, sa : p = call[c].p /\ sa = <<call[c].n, call[c].next>>
  OBVIOUS
<1>2. /\ call[c].at = "acted" /\ call[c].approve
      /\ \/ Fails(c)
         \/ Handled(step[p][sa]) = Reviewers(p, call[c].n) /\ CompleteStep(c)
  BY <1>1, CollectApprovalsDoes
<1>3. Reviewing(call[c]) /\ AllHeard(call[c])
  BY DEF ReviewOK
<1>4. CASE Fails(c)
  BY <1>2, <1>3, <1>4, FailedReviewKept
<1>5. CASE ~Fails(c)
  <2>1. /\ Touches(p) /\ Writes(p, sa, "COMPLETED")
        /\ call'[c] = Idle \/ call'[c].at = "stepping"
    BY <1>1, <1>2, <1>5, CompleteStepDoes DEF Goes
  <2>2. /\ sa \in Attempts(p) /\ step[p][sa].status = "IN_PROGRESS"
        /\ Handled(step[p][sa]) = Reviewers(p, sa[1])
    BY <1>1, <1>2, <1>3, <1>5 DEF Reviewing
  <2>3. UNCHANGED disturbed /\ call'[c].at \notin {"acting", "acted"}
    BY <2>1, IdleType DEF Touches
  <2>4. ASSUME disturbed = {}, NEW q \in Participants, NEW ta \in Attempts(q)
        PROVE  Heard(call[c], q, ta)'
    <3>1. Heard(call[c], q, ta) /\ ~Overruling(call[c], q, ta)
      BY <1>2, <1>3, <2>4 DEF AllHeard, Overruling
    <3>2. CASE q = p /\ ta = sa
      <4>1. step[p][sa].rejected = {}
        BY <2>2, <3>1, <3>2 DEF Heard
      <4>2. step[p][sa].approved = Reviewers(p, sa[1])
        BY <2>2, <4>1 DEF Handled
      <4> QED BY <2>1, <2>2, <3>2, <4>1, <4>2 DEF Heard, Writes
    <3>3. CASE ~(q = p /\ ta = sa)
      <4>1. step'[q][ta] = step[q][ta]
        BY <2>1, <3>3 DEF Touches, Spared, Writes
      <4> QED BY <3>1, <4>1 DEF Heard
    <3> QED BY <3>2, <3>3
  <2>5. AllHeard(call[c])' /\ Reviewing(call[c])'
    BY <2>3, <2>4 DEF AllHeard, Reviewing
  <2> QED BY <2>5 DEF ReviewOK
<1> QED BY <1>4, <1>5

LEMMA RejectStepReviews ==
  ASSUME PerformanceInv, NEW c \in Calls, ReviewOK(call[c]), RejectStep(c)
  PROVE  ReviewOK(call[c])'
<1>1. PICK p, sa : p = call[c].p /\ sa = <<call[c].n, call[c].next>>
  OBVIOUS
<1>2. call[c].at = "acted" /\ ~call[c].approve /\ Reviewing(call[c]) /\ AllHeard(call[c])
  BY DEF RejectStep, ReviewOK
<1>3. /\ Touches(p) /\ Writes(p, sa, "CANCELLED")
      /\ call'[c] = Idle \/ call'[c].at = "stepping"
  <2>1. Member(p) /\ instance[p].step = call[c].n
    BY <1>1, <1>2 DEF Reviewing
  <2> QED BY <1>1, <2>1, RejectStepDoes DEF Goes
<1>4. UNCHANGED disturbed /\ call'[c].at \notin {"acting", "acted"}
  BY <1>3, IdleType DEF Touches
<1>5. ASSUME disturbed = {}, NEW q \in Participants, NEW ta \in Attempts(q)
      PROVE  Heard(call[c], q, ta)'
  <2>1. CASE q = p /\ ta = sa
    BY <1>3, <2>1 DEF Heard, Writes
  <2>2. CASE ~(q = p /\ ta = sa)
    <3>1. step'[q][ta] = step[q][ta]
      BY <1>3, <2>2 DEF Touches, Spared, Writes
    <3>2. Heard(call[c], q, ta) /\ ~Overruling(call[c], q, ta)
      BY <1>1, <1>2, <1>5, <2>2 DEF AllHeard, Overruling
    <3> QED BY <3>1, <3>2 DEF Heard
  <2> QED BY <2>1, <2>2
<1>6. AllHeard(call[c])' /\ Reviewing(call[c])'
  BY <1>4, <1>5 DEF AllHeard, Reviewing
<1> QED BY <1>6 DEF ReviewOK

LEMMA ManagementReviews ==
  ASSUME PerformanceInv, NEW c \in Calls, ReviewOK(call[c]),
         \/ Start(c) \/ Measure(c) \/ Add(c) \/ UpdateTemplate(c) \/ Restart(c) \/ Archive(c)
  PROVE  ReviewOK(call[c])'
<1>1. call[c].at # "acted" /\ AllHeard(call[c])
  BY DEF Start, Measure, Add, UpdateTemplate, Restart, Archive, ReviewOK
<1>2. CASE Fails(c)
  BY <1>1, <1>2, FailedReviewKept
<1>3. CASE Start(c) /\ ~Fails(c)
  <2>1. UNCHANGED <<step, disturbed>> /\ call'[c].at = "measuring"
    BY <1>3, StartDoes DEF Goes
  <2> QED BY <1>1, <2>1, SameSteps, ReviewKept
<1>4. CASE Measure(c) /\ ~Fails(c)
  <2>1. UNCHANGED <<step, disturbed>> /\ call'[c].at = "advancing"
    BY <1>4, MeasureDoes DEF Touches, Names
  <2> QED BY <1>1, <2>1, SameSteps, ReviewKept
<1>5. CASE Add(c) /\ ~Fails(c)
  <2>1. UNCHANGED <<step, disturbed>> /\ call'[c].at \notin {"acting", "acted"}
    BY <1>5, AddDoes, IdleType DEF Touches
  <2> QED BY <1>1, <2>1, SameSteps, ReviewKept
<1>6. CASE UpdateTemplate(c)
  <2>1. UNCHANGED step /\ disturbed \subseteq disturbed' /\ call'[c].at \notin {"acting", "acted"}
    BY <1>6, UpdateTemplateDoes, IdleType DEF LeavesRows
  <2> QED BY <1>1, <2>1, SameSteps, ReviewKept
<1>7. CASE Restart(c)
  <2>1. disturbed' # {} /\ call'[c].at = "idle"
    BY <1>7, RestartDoes, IdleType
  <2> QED BY <2>1 DEF ReviewOK, Reviewing, AllHeard
<1>8. CASE Archive(c)
  <2>1. UNCHANGED disturbed /\ call'[c].at \notin {"acting", "acted"}
    BY <1>8, ArchiveDoes, IdleType
  <2>2. ASSUME NEW p \in Participants, NEW sa \in Attempts(p)
        PROVE  Unreviewed(p, sa)
    BY <1>8, ArchiveDoes DEF Spared, Stopped, Unreviewed
  <2> QED BY <1>1, <2>1, <2>2, ReviewKept
<1> QED BY <1>2, <1>3, <1>4, <1>5, <1>6, <1>7, <1>8

LEMMA NextReviews ==
  ASSUME PerformanceInv, AloneInv, ReviewInv, Next
  PROVE  ReviewInv'
<1> SUFFICES ASSUME ~overlapped' PROVE ReviewInv'
  BY DEF ReviewInv
<1>1. ~overlapped
  BY OneCallSteps
<1>2. ASSUME NEW c \in Calls, Alone(c)', ReviewOK(call[c])'
      PROVE  ReviewInv'
  <2>1. ASSUME call'[c].at = "idle" PROVE ReviewOK(Idle)'
    <3>1. (call[c].at # "acted" \/ call[c].approve)' /\ AllHeard(call[c])'
      BY <1>2, <2>1 DEF ReviewOK
    <3>2. AllHeard(Idle)'
      BY <3>1 DEF AllHeard, Heard, Overruling
    <3>3. Reviewing(Idle)'
      BY IdleType DEF Reviewing
    <3> QED BY <3>2, <3>3 DEF ReviewOK
  <2>2. \A d \in Calls : call'[d].at # "idle" => d = c
    BY <1>2 DEF Alone
  <2>3. Quiet' => call'[c].at = "idle"
    BY DEF Quiet
  <2> QED BY <1>2, <2>1, <2>2, <2>3 DEF ReviewInv
<1>3. ASSUME NEW c \in Calls, Quiet, Request(c)
      PROVE  ReviewOK(call[c])'
  BY <1>1, <1>3, RequestReviews DEF ReviewInv
<1>4. ASSUME NEW c \in Calls, call[c].at # "idle", Proceed(c)
      PROVE  ReviewOK(call[c])'
  <2>1. ReviewOK(call[c])
    BY <1>1, <1>4 DEF ReviewInv
  <2> QED BY <1>4, <2>1, AssessmentReviews, WorkflowReviews, CommitActionReviews,
             CollectApprovalsReviews, RejectStepReviews, ManagementReviews DEF Proceed
<1>5. ASSUME NEW c \in Calls, Interrupt(c)
      PROVE  ReviewOK(call[c])'
  <2>1. disturbed' # {} /\ call'[c].at = "idle"
    BY <1>5, IdleType DEF Interrupt, PerformanceInv, CallsOK
  <2> QED BY <2>1 DEF ReviewOK, Reviewing, AllHeard
<1>6. ASSUME Quiet, UNCHANGED call, NEW p \in Participants, Remove(p)
      PROVE  ReviewInv'
  <2>1. UNCHANGED <<step, disturbed>>
    BY <1>6, RemoveDoes DEF Touches
  <2>2. ReviewOK(Idle)
    BY <1>1, <1>6 DEF ReviewInv
  <2>3. ReviewOK(Idle)'
    BY <2>1, <2>2, IdleType DEF ReviewOK, Reviewing, AllHeard, Heard, Overruling
  <2> QED BY <1>6, <2>3 DEF ReviewInv, Quiet
<1>7. ASSUME Quiet, UNCHANGED call, NEW ps \in SUBSET Participants, Close(ps)
      PROVE  ReviewInv'
  <2>1. UNCHANGED disturbed
    BY <1>7, CloseDoes
  <2>2. ASSUME NEW q \in Participants, NEW sa \in Attempts(q) PROVE Unreviewed(q, sa)
    BY <1>7, CloseDoes DEF Closed, Spared, Stopped, Unreviewed
  <2>3. AllHeard(Idle)
    BY <1>1, <1>7 DEF ReviewInv, ReviewOK
  <2>4. AllHeard(Idle)'
    <3> SUFFICES ASSUME disturbed = {}, NEW q \in Participants, NEW sa \in Attempts(q)
                 PROVE  Heard(Idle, q, sa)'
      BY <2>1 DEF AllHeard
    <3>1. Heard(Idle, q, sa) /\ ~Overruling(Idle, q, sa) /\ Unreviewed(q, sa)
      BY <2>2, <2>3, IdleReviews DEF AllHeard
    <3> QED BY <3>1 DEF Heard, Unreviewed
  <2>5. Reviewing(Idle)'
    BY IdleType DEF Reviewing
  <2> QED BY <1>7, <2>4, <2>5 DEF ReviewInv, ReviewOK, Quiet
<1> QED BY <1>2, <1>3, <1>4, <1>5, <1>6, <1>7, OneCallSteps

LEMMA ReviewHolds == Spec => []ReviewInv
<1>1. Init => ReviewInv
  <2> SUFFICES ASSUME Init PROVE ReviewInv
    OBVIOUS
  <2>1. \A c \in Calls : call[c].at = "idle"
    BY IdleType DEF Init
  <2>2. \A p \in Participants : \A sa \in Attempts(p) : Heard(Idle, p, sa)
    BY DEF Init, NoStep, Heard
  <2> QED BY <2>1, <2>2, IdleReviews DEF ReviewInv, ReviewOK, AllHeard
<1>2. PerformanceInv /\ AloneInv /\ ReviewInv /\ [Next]_vars => ReviewInv'
  <2>1. CASE UNCHANGED vars
    BY <2>1 DEF vars, rows, ReviewInv, ReviewOK, Reviewing, AllHeard, Heard, Overruling, Member, Quiet
  <2> QED BY <2>1, NextReviews
<1> QED BY <1>1, <1>2, PerformanceInvariance, AloneHolds, PTL DEF Spec

\* performWorkflowAction, completeWorkflowTask and handleWorkflowRejection: while calls come
\* one at a time, none is cut off and no task is reset, a completed step has the approval of
\* every reviewer and a rejection of none, for any workflow and however often it is returned.
THEOREM StepsAreApprovedByAll == Spec => []NobodyOverruled
<1>1. PerformanceInv /\ AloneInv /\ ReviewInv => NobodyOverruled
  <2> SUFFICES ASSUME AloneInv, ReviewInv, ~overlapped, disturbed = {},
                      NEW p \in Participants, NEW sa \in Attempts(p),
                      step[p][sa].status = "COMPLETED"
               PROVE  step[p][sa].approved = Reviewers(p, sa[1]) /\ step[p][sa].rejected = {}
    BY DEF NobodyOverruled
  <2>1. \E r : AllHeard(r)
    BY DEF ReviewInv, ReviewOK, Quiet
  <2> QED BY <2>1 DEF AllHeard, Heard
<1> QED BY <1>1, PerformanceInvariance, AloneHolds, ReviewHolds, PTL

-----------------------------------------------------------------------------
(***************************************************************************)
(* The status of a cycle and of its instances                              *)
(*                                                                         *)
(* A cycle is completed by the last instance that is.  Nobody opens one    *)
(* again: a call only works for an instance in progress, and what is open  *)
(* for its scorers and reviewers belongs to such an instance.              *)
(***************************************************************************)
OnTrack(p) ==
  /\ instance[p].status = "IN_PROGRESS" => cycle.status = "IN_PROGRESS"
  /\ cycle.status = "COMPLETED" /\ Member(p) => instance[p].status \in {"COMPLETED", "CANCELLED"}
  /\ cycle.status = "DRAFT" /\ Member(p) => instance[p].status \in {"DRAFT", "CANCELLED"}
  /\ instance[p].status \notin {"IN_PROGRESS", "REMOVED"} =>
       /\ \A m \in Modules(p) : task[p][m].status # "IN_PROGRESS"
       /\ \A sa \in Attempts(p) : step[p][sa].status = "IN_PROGRESS" => sa[1] # instance[p].step
  /\ instance[p].step # 0 =>
       instance[p].assessment = "COMPLETED" /\ instance[p].status \notin {"ABSENT", "DRAFT"}

\* The stages that work for participant r.p, and the participants a call works for
Working ==
  {"scoring", "skipping", "scored", "advancing", "opening", "resolving", "finishing",
   "stepping", "creating", "acting", "acted"}
InHands(r) ==
  (IF r.at \in Working THEN {r.p} ELSE {})
    \cup (IF r.at \in Working \cup {"measuring"} THEN r.todo ELSE {})

\* What the call in flight relies on
Steady(r) ==
  /\ \A p \in InHands(r) : instance[p].status = "IN_PROGRESS"
  /\ r.at \in Working => r.p \notin r.todo
  /\ r.at = "opening" => r.n \in Modules(r.p)
  /\ r.at = "creating" => instance[r.p].assessment = "COMPLETED"
  /\ r.at \in {"adding", "archiving"} => cycle.status = r.read
  /\ r.at = "adding" => r.read # "COMPLETED"
  /\ r.at = "starting" =>
       cycle.status = "DRAFT" /\ r.todo = {p \in Members : instance[p].status # "CANCELLED"}

AllOnTrack == \A p \in Participants : OnTrack(p)
TrackOK(r) == "late card" \notin disturbed => AllOnTrack /\ Steady(r)
TrackInv ==
  ~overlapped => /\ \A c \in Calls : call[c].at # "idle" => TrackOK(call[c])
                 /\ Quiet => TrackOK(Idle)

LEMMA IdleIsSteady == Steady(Idle)
  BY IdleType DEF Steady, InHands, Working

LEMMA EndIsSteady ==
  ASSUME NEW c \in Calls, call'[c].at = "idle" \/ call'[c] = Idle
  PROVE  Steady(call[c])'
<1>1. call'[c].at = "idle"
  BY IdleType
<1> QED BY <1>1 DEF Steady, InHands, Working

LEMMA StepsAndModules ==
  ASSUME NEW p \in Participants
  PROVE  0 \notin Steps(p) /\ Modules(p) # {} /\ \A sa \in Attempts(p) : sa[1] # 0
<1>1. /\ Template[p].modules \in Seq(ModuleDefinition) /\ Template[p].modules # <<>>
      /\ Template[p].steps \in Seq(StepDefinition)
  BY PerformanceAssumption
<1>2. 0 \notin Steps(p) /\ Modules(p) # {}
  <2>1. \A S : \A s \in Seq(S) : DOMAIN s = 1 .. Len(s) /\ Len(s) \in Nat /\ (Len(s) = 0 => s = <<>>)
    OBVIOUS
  <2>2. DOMAIN Template[p].steps = 1 .. Len(Template[p].steps)
    BY <1>1
  <2>3. 1 \in DOMAIN Template[p].modules
    <3>1. PICK s \in Seq(ModuleDefinition) : s = Template[p].modules
      BY <1>1
    <3>2. DOMAIN s = 1 .. Len(s) /\ Len(s) \in Nat /\ Len(s) # 0
      BY <1>1, <2>1, <3>1
    <3> QED BY <3>1, <3>2
  <2>4. 0 \notin DOMAIN Template[p].steps
    BY <1>1, <2>2
  <2> QED BY <2>3, <2>4 DEF Steps, Modules
<1>3. \A sa \in Attempts(p) : sa[1] # 0
  BY <1>2 DEF Attempts
<1> QED BY <1>2, <1>3

\* A cycle that another participant may leave behind
CycleFits(q) ==
  \/ cycle'.status \in {cycle.status, "IN_PROGRESS"}
  \/ /\ cycle'.status # "DRAFT"
     /\ instance[q].status \in {"COMPLETED", "CANCELLED", "ABSENT", "REMOVED"}

LEMMA TrackKept ==
  ASSUME NEW q \in Participants, OnTrack(q), Spared(q), CycleFits(q)
  PROVE  OnTrack(q)'
  BY DEF OnTrack, Spared, CycleFits, Member

LEMMA AllTracksKept ==
  ASSUME AllOnTrack, UNCHANGED <<cycle, instance, task, step>>
  PROVE  AllOnTrack'
  BY DEF AllOnTrack, OnTrack, Member

\* A step for one participant that leaves the cycle alone
LEMMA OneTrackKept ==
  ASSUME AllOnTrack, NEW p \in Participants, Touches(p), UNCHANGED cycle, OnTrack(p)'
  PROVE  AllOnTrack'
<1>1. ASSUME NEW q \in Participants, q # p PROVE OnTrack(q)'
  BY <1>1, TrackKept DEF AllOnTrack, Touches, CycleFits
<1> QED BY <1>1 DEF AllOnTrack

LEMMA InProgressKept ==
  ASSUME NEW p \in Participants, OnTrack(p), UNCHANGED cycle,
         instance[p].status = "IN_PROGRESS",
         NEW module, NEW assessment, NEW s,
         Turns(p, "IN_PROGRESS", assessment, module, s), s = 0 \/ assessment = "COMPLETED"
  PROVE  OnTrack(p)'
  BY DEF OnTrack, Turns, Member

LEMMA CloseCycleFits ==
  ASSUME PerformanceInv, NEW p \in Participants, cycle' = CloseCycleAfter(p)
  PROVE  /\ cycle'.status \in {cycle.status, "COMPLETED"}
         /\ \A q \in Participants \ {p} : CycleFits(q)
<1>1. cycle \in [status : ProcessStatus, archived : BOOLEAN]
  BY DEF PerformanceInv, RowsOK
<1>2. CASE \A q \in Members \ {p} : instance[q].status \in {"COMPLETED", "CANCELLED"}
  <2>1. cycle'.status = "COMPLETED"
    BY <1>1, <1>2 DEF CloseCycleAfter
  <2>2. \A q \in Participants \ {p} :
          instance[q].status \in {"COMPLETED", "CANCELLED", "ABSENT", "REMOVED"}
    BY <1>2 DEF Members, Member
  <2> QED BY <2>1, <2>2 DEF CycleFits
<1>3. CASE ~ \A q \in Members \ {p} : instance[q].status \in {"COMPLETED", "CANCELLED"}
  BY <1>3 DEF CloseCycleAfter, CycleFits
<1> QED BY <1>2, <1>3

\* A participant whose last task is done
LEMMA LastTrackKept ==
  ASSUME PerformanceInv, AllOnTrack, NEW p \in Participants, Touches(p), AllDone(p),
         UNCHANGED task, instance[p].status = "IN_PROGRESS",
         cycle' = cycle \/ (cycle' = CloseCycleAfter(p) /\ instance'[p].status = "COMPLETED"),
         instance'[p].status \in {"COMPLETED", "REJECTED"},
         instance'[p].step # 0 => instance'[p].assessment = "COMPLETED",
         \A sa \in Attempts(p) : sa[1] # instance'[p].step
  PROVE  AllOnTrack'
<1>1. \A q \in Participants \ {p} : CycleFits(q)
  BY CloseCycleFits DEF CycleFits
<1>2. ASSUME NEW q \in Participants, q # p PROVE OnTrack(q)'
  BY <1>1, <1>2, TrackKept DEF AllOnTrack, Touches
<1>3. cycle.status = "IN_PROGRESS"
  BY DEF AllOnTrack, OnTrack
<1>4. cycle'.status \in {"IN_PROGRESS", "COMPLETED"}
  BY <1>3, CloseCycleFits
<1>5. cycle'.status = "COMPLETED" => instance'[p].status = "COMPLETED"
  BY <1>3
<1>6. OnTrack(p)'
  BY <1>4, <1>5 DEF OnTrack, AllDone, Member
<1> QED BY <1>2, <1>6 DEF AllOnTrack

\* The call goes on with the other participants of a start.
LEMMA GoesOnSteadily ==
  ASSUME NEW c \in Calls, Steady(call[c]), call[c].at \in Working, GoesOnTo(c),
         \A q \in call[c].todo : instance'[q].status = instance[q].status
  PROVE  Steady(call[c])'
<1>1. CASE call[c].todo = {}
  BY <1>1, EndIsSteady DEF GoesOnTo
<1>2. CASE call[c].todo # {}
  <2>1. call'[c].at = "measuring" /\ call'[c].todo = call[c].todo
    BY <1>2 DEF GoesOnTo, Goes
  <2>2. InHands(call[c])' = call[c].todo
    BY <2>1 DEF InHands, Working
  <2>3. call[c].todo \subseteq InHands(call[c])
    BY DEF InHands
  <2> QED BY <2>1, <2>2, <2>3 DEF Steady, Working
<1> QED BY <1>1, <1>2

\* The call goes on with the same participant.
LEMMA WorksOnSteadily ==
  ASSUME NEW c \in Calls, Steady(call[c]), call[c].at \in Working, NEW p, p = call[c].p,
         call'[c].at \in Working, call'[c].p = p, call'[c].todo = call[c].todo,
         instance'[p].status = "IN_PROGRESS",
         \A q \in call[c].todo : instance'[q].status = instance[q].status,
         call'[c].at = "opening" => call'[c].n \in Modules(p),
         call'[c].at = "creating" => instance'[p].assessment = "COMPLETED"
  PROVE  Steady(call[c])'
<1>1. InHands(call[c])' = InHands(call[c]) /\ InHands(call[c]) = {p} \cup call[c].todo
  BY DEF InHands
<1> QED BY <1>1 DEF Steady, Working

LEMMA TodoSpared ==
  ASSUME CallsOK, NEW c \in Calls, Steady(call[c]), call[c].at \in Working, Touches(call[c].p)
  PROVE  \A q \in call[c].todo : instance'[q].status = instance[q].status
<1>1. call[c].todo \subseteq Participants
  BY DEF CallsOK, CallRecord
<1> QED BY <1>1 DEF Steady, Touches, Spared

LEMMA RequestTracks ==
  ASSUME PerformanceInv, NEW c \in Calls, "late card" \notin disturbed', AllOnTrack, Request(c)
  PROVE  AllOnTrack' /\ Steady(call[c])'
<1>1. Asks(c) /\ (AsksToScore(c) \/ AsksToReview(c) \/ AsksToManage(c))
  BY RequestDoes
<1>2. AllOnTrack' /\ UNCHANGED <<cycle, instance>>
  BY <1>1, AllTracksKept DEF Asks
<1>3. ASSUME NEW p \in Participants, NEW at \in {"scoring", "skipping", "acting"},
             Names(c, at, p, {}), instance[p].status = "IN_PROGRESS"
      PROVE  Steady(call[c])'
  <2>1. call'[c].at = at /\ call'[c].p = p /\ call'[c].todo = {}
    BY <1>3 DEF Names
  <2>2. InHands(call[c])' = {p}
    BY <2>1 DEF InHands, Working
  <2> QED BY <1>2, <1>3, <2>1, <2>2 DEF Steady, Working
<1>4. CASE AsksToScore(c)
  <2>1. PICK p \in Participants, at \in {"scoring", "skipping"} :
          \E m \in Modules(p) : Names(c, at, p, {}) /\ Member(p) /\ task[p][m].status = "IN_PROGRESS"
    BY <1>4 DEF AsksToScore
  <2>2. instance[p].status = "IN_PROGRESS"
    BY <2>1 DEF AllOnTrack, OnTrack, Member
  <2> QED BY <1>2, <1>3, <2>1, <2>2
<1>5. CASE AsksToReview(c)
  <2>1. PICK p \in Participants :
          \E sa \in Attempts(p) : /\ Names(c, "acting", p, {})
                                  /\ Member(p) /\ step[p][sa].status = "IN_PROGRESS"
                                  /\ instance[p].step = sa[1]
    BY <1>5 DEF AsksToReview
  <2>2. instance[p].status = "IN_PROGRESS"
    BY <2>1 DEF AllOnTrack, OnTrack, Member
  <2> QED BY <1>2, <1>3, <2>1, <2>2
<1>6. CASE AsksToManage(c)
  <2>1. /\ call'[c].at \in {"starting", "archiving", "adding", "templating", "restarting"}
        /\ call'[c].at \in {"archiving", "adding"} => call'[c].read = cycle.status
        /\ call'[c].at = "adding" => cycle.status # "COMPLETED"
    BY <1>6 DEF AsksToManage, Names
  <2>2. call'[c].at = "starting" =>
          /\ cycle.status = "DRAFT"
          /\ call'[c].todo = {p \in Members : instance[p].status # "CANCELLED"}
    BY <1>6 DEF AsksToManage, Names
  <2>3. InHands(call[c])' = {}
    BY <2>1 DEF InHands, Working
  <2> QED BY <1>2, <2>1, <2>2, <2>3 DEF Steady, Working, Members, Member
<1> QED BY <1>1, <1>2, <1>4, <1>5, <1>6

LEMMA FailureTracks ==
  ASSUME NEW c \in Calls, AllOnTrack, Fails(c)
  PROVE  AllOnTrack' /\ Steady(call[c])'
  BY AllTracksKept, EndIsSteady DEF Fails, LeavesRows

LEMMA WorksFor ==
  ASSUME PerformanceInv, NEW c \in Calls, AllOnTrack, Steady(call[c]), call[c].at \in Working
  PROVE  /\ call[c].p \in Participants /\ OnTrack(call[c].p)
         /\ instance[call[c].p].status = "IN_PROGRESS"
<1>1. call[c].p \in Participants
  BY ActsOn DEF Working, Roaming
<1>2. call[c].p \in InHands(call[c])
  BY DEF InHands
<1> QED BY <1>1, <1>2 DEF Steady, AllOnTrack

\* A stage of the assessment that leaves the status of the participant alone
LEMMA AssessmentTracks ==
  ASSUME PerformanceInv, SeriesInv, NEW c \in Calls, AllOnTrack, Steady(call[c]),
         \/ CommitScore(c) \/ CollectScores(c) \/ SkipModule(c)
         \/ Advance(c) \/ OpenModule(c) \/ ResolveAssignees(c)
  PROVE  AllOnTrack' /\ Steady(call[c])'
<1>1. call[c].at \in Working
  BY DEF CommitScore, CollectScores, SkipModule, Advance, OpenModule, ResolveAssignees, Working
<1>2. PICK p : p = call[c].p
  OBVIOUS
<1>3. p \in Participants /\ OnTrack(p) /\ instance[p].status = "IN_PROGRESS" /\ CallsOK
  BY <1>1, <1>2, WorksFor DEF PerformanceInv
<1>4. CASE Fails(c)
  BY <1>4, FailureTracks
<1>5. ASSUME Touches(p), UNCHANGED cycle, NEW assessment, NEW module,
             Turns(p, "IN_PROGRESS", assessment, module, instance[p].step),
             assessment = instance[p].assessment \/ instance[p].step = 0,
             NEW at \in Working \ {"opening", "creating"}, NEW n, NEW next,
             GoesOnTo(c) \/ Goes(c, at, n, next)
      PROVE  AllOnTrack' /\ Steady(call[c])'
  <2>1. OnTrack(p)'
    <3>1. instance[p].step = 0 \/ assessment = "COMPLETED"
      BY <1>3, <1>5 DEF OnTrack
    <3> QED BY <1>3, <1>5, <3>1, InProgressKept
  <2>2. AllOnTrack'
    BY <1>3, <1>5, <2>1, OneTrackKept
  <2>3. \A q \in call[c].todo : instance'[q].status = instance[q].status
    BY <1>1, <1>2, <1>3, <1>5, TodoSpared
  <2>4. CASE GoesOnTo(c)
    BY <1>1, <2>2, <2>3, <2>4, GoesOnSteadily
  <2>5. CASE Goes(c, at, n, next)
    <3>1. /\ call'[c].at = at /\ call'[c].p = p /\ call'[c].todo = call[c].todo
          /\ instance'[p].status = "IN_PROGRESS"
      BY <1>2, <1>5, <2>5 DEF Goes, Turns
    <3> QED BY <1>1, <1>2, <1>5, <2>2, <2>3, <3>1, WorksOnSteadily
  <2> QED BY <1>5, <2>4, <2>5
<1>6. ASSUME UNCHANGED instance
      PROVE  Turns(p, "IN_PROGRESS", instance[p].assessment, instance[p].module, instance[p].step)
  BY <1>3, <1>6 DEF Turns
<1>7. CASE CommitScore(c) /\ ~Fails(c)
  <2>1. Touches(p) /\ UNCHANGED <<cycle, instance>> /\ Goes(c, "scored", call[c].n, call[c].next)
    BY <1>2, <1>7, CommitScoreDoes
  <2> QED BY <1>5, <1>6, <2>1 DEF Working
<1>8. CASE (CollectScores(c) \/ SkipModule(c)) /\ ~Fails(c)
  <2>1. call[c].at \in {"scored", "skipping"} /\ CompleteTask(c)
    BY <1>8, CollectScoresDoes DEF SkipModule
  <2>2. /\ Touches(p) /\ UNCHANGED cycle /\ Goes(c, "advancing", call[c].n, call[c].next)
        /\ Turns(p, "IN_PROGRESS", instance[p].assessment, call[c].next, instance[p].step)
    BY <1>2, <1>3, <1>8, <2>1, CompleteTaskDoes
  <2> QED BY <1>5, <2>2 DEF Working
<1>9. CASE Advance(c)
  <2>1. LeavesRows
    BY <1>9, AdvanceDoes
  <2>2. AllOnTrack' /\ UNCHANGED instance
    BY <2>1, AllTracksKept DEF LeavesRows
  <2>3. CASE GoesOnTo(c)
    BY <1>1, <2>2, <2>3, GoesOnSteadily
  <2>4. CASE Picks(c, p)
    <3>1. /\ call'[c].at \in {"opening", "resolving"} /\ call'[c].p = p
          /\ call'[c].todo = call[c].todo /\ call'[c].n \in Modules(p)
      BY <1>3, <2>4, DefinitionFacts DEF Picks
    <3> QED BY <1>1, <1>2, <1>3, <2>2, <3>1, WorksOnSteadily DEF Working
  <2>5. CASE Goes(c, "finishing", call[c].n, call[c].next)
    <3>1. call'[c].at = "finishing" /\ call'[c].p = p /\ call'[c].todo = call[c].todo
      BY <1>2, <2>5 DEF Goes
    <3> QED BY <1>1, <1>2, <1>3, <2>2, <3>1, WorksOnSteadily DEF Working
  <2>6. CASE call'[c] = Idle
    BY <2>2, <2>6, EndIsSteady
  <2> QED BY <1>2, <1>9, <2>3, <2>4, <2>5, <2>6, AdvanceDoes
<1>10. CASE OpenModule(c) /\ ~Fails(c)
  <2>1. /\ Touches(p) /\ UNCHANGED cycle /\ Goes(c, "resolving", call[c].n, call[c].next)
        /\ Turns(p, "IN_PROGRESS", "IN_PROGRESS", call[c].n, instance[p].step)
        /\ task[p][call[c].n].status = "PENDING"
    BY <1>2, <1>3, <1>10, OpenModuleDoes
  <2>2. instance[p].step = 0
    <3>1. call[c].n \in Modules(p)
      BY <1>2, <1>10 DEF Steady, OpenModule
    <3>2. ~AllDone(p)
      BY <2>1, <3>1 DEF AllDone
    <3> QED BY <1>3, <3>2 DEF SeriesInv, OnTrack
  <2> QED BY <1>5, <2>1, <2>2 DEF Working
<1>11. CASE ResolveAssignees(c) /\ ~Fails(c)
  <2>1. Touches(p) /\ UNCHANGED <<cycle, instance>> /\ GoesOnTo(c)
    BY <1>2, <1>11, ResolveAssigneesDoes
  <2>2. "resolving" \in Working \ {"opening", "creating"}
    BY DEF Working
  <2> QED BY <1>5, <1>6, <2>1, <2>2
<1> QED BY <1>4, <1>7, <1>8, <1>9, <1>10, <1>11

LEMMA FinishTracks ==
  ASSUME PerformanceInv, SeriesInv, NEW c \in Calls, AllOnTrack, Steady(call[c]),
         FinishAssessment(c)
  PROVE  AllOnTrack' /\ Steady(call[c])'
<1>1. call[c].at = "finishing" /\ call[c].at \in Working
  BY DEF FinishAssessment, Working
<1>2. PICK p : p = call[c].p
  OBVIOUS
<1>3. p \in Participants /\ OnTrack(p) /\ instance[p].status = "IN_PROGRESS" /\ CallsOK
  BY <1>1, <1>2, WorksFor DEF PerformanceInv
<1>4. AllDone(p)
  BY <1>1, <1>2 DEF SeriesInv, Abreast
<1>5. CASE Fails(c)
  BY <1>5, FailureTracks
<1>6. CASE ~Fails(c) /\ Steps(p) = {}
  <2>1. /\ Touches(p) /\ UNCHANGED task /\ cycle' = CloseCycleAfter(p) /\ GoesOnTo(c)
        /\ Turns(p, "COMPLETED", "COMPLETED", 0, instance[p].step)
    BY <1>2, <1>6, FinishAssessmentDoes
  <2>2. \A sa \in Attempts(p) : sa[1] # instance'[p].step
    BY <1>6 DEF Attempts
  <2>3. AllOnTrack'
    BY <1>3, <1>4, <2>1, <2>2, LastTrackKept DEF Turns
  <2>4. \A q \in call[c].todo : instance'[q].status = instance[q].status
    BY <1>1, <1>2, <1>3, <2>1, TodoSpared
  <2> QED BY <1>1, <2>1, <2>3, <2>4, GoesOnSteadily
<1>7. CASE ~Fails(c) /\ Steps(p) # {}
  <2>1. /\ Touches(p) /\ UNCHANGED cycle /\ Goes(c, "stepping", 1, 1)
        /\ Turns(p, "IN_PROGRESS", "COMPLETED", 0, instance[p].step)
    BY <1>2, <1>7, FinishAssessmentDoes
  <2>2. AllOnTrack'
    BY <1>3, <2>1, InProgressKept, OneTrackKept
  <2>3. \A q \in call[c].todo : instance'[q].status = instance[q].status
    BY <1>1, <1>2, <1>3, <2>1, TodoSpared
  <2>4. /\ call'[c].at = "stepping" /\ call'[c].p = p /\ call'[c].todo = call[c].todo
        /\ instance'[p].status = "IN_PROGRESS"
    BY <1>2, <2>1 DEF Goes, Turns
  <2> QED BY <1>1, <1>2, <2>2, <2>3, <2>4, WorksOnSteadily DEF Working
<1> QED BY <1>5, <1>6, <1>7

LEMMA WorkflowTracks ==
  ASSUME PerformanceInv, SeriesInv, NEW c \in Calls, AllOnTrack, Steady(call[c]),
         ReadStep(c) \/ CreateStep(c) \/ CommitAction(c)
  PROVE  AllOnTrack' /\ Steady(call[c])'
<1>1. call[c].at \in Working
  BY DEF ReadStep, CreateStep, CommitAction, Working
<1>2. PICK p : p = call[c].p
  OBVIOUS
<1>3. p \in Participants /\ OnTrack(p) /\ instance[p].status = "IN_PROGRESS" /\ CallsOK
  BY <1>1, <1>2, WorksFor DEF PerformanceInv
<1>4. CASE Fails(c)
  BY <1>4, FailureTracks
<1>5. CASE ReadStep(c)
  <2>1. LeavesRows
    BY <1>5, ReadStepDoes
  <2>2. AllOnTrack' /\ UNCHANGED instance
    BY <2>1, AllTracksKept DEF LeavesRows
  <2>3. CASE GoesOnTo(c)
    BY <1>1, <2>2, <2>3, GoesOnSteadily
  <2>4. CASE ~GoesOnTo(c)
    <3>1. PICK a : /\ Goes(c, "creating", call[c].n, a) /\ instance[p].assessment = "COMPLETED"
      BY <1>2, <1>5, <2>4, ReadStepDoes
    <3>2. call'[c].at = "creating" /\ call'[c].p = p /\ call'[c].todo = call[c].todo
      BY <1>2, <3>1 DEF Goes
    <3> QED BY <1>1, <1>2, <1>3, <2>2, <3>1, <3>2, WorksOnSteadily DEF Working
  <2> QED BY <2>3, <2>4
<1>6. CASE CreateStep(c) /\ ~Fails(c)
  <2>1. /\ Touches(p) /\ UNCHANGED cycle /\ GoesOnTo(c)
        /\ Turns(p, "IN_PROGRESS", instance[p].assessment, instance[p].module, call[c].n)
    BY <1>2, <1>6, CreateStepDoes
  <2>2. instance[p].assessment = "COMPLETED"
    BY <1>2, <1>6 DEF Steady, CreateStep
  <2>3. AllOnTrack'
    BY <1>3, <2>1, <2>2, InProgressKept, OneTrackKept
  <2>4. \A q \in call[c].todo : instance'[q].status = instance[q].status
    BY <1>1, <1>2, <1>3, <2>1, TodoSpared
  <2> QED BY <1>1, <2>1, <2>3, <2>4, GoesOnSteadily
<1>7. CASE CommitAction(c) /\ ~Fails(c)
  <2>1. Touches(p) /\ UNCHANGED <<cycle, instance>> /\ Goes(c, "acted", call[c].n, call[c].next)
    BY <1>2, <1>7, CommitActionDoes
  <2>2. OnTrack(p)'
    BY <1>3, <2>1, InProgressKept DEF Turns, OnTrack
  <2>3. AllOnTrack'
    BY <1>3, <2>1, <2>2, OneTrackKept
  <2>4. call'[c].at = "acted" /\ call'[c].p = p /\ call'[c].todo = call[c].todo
    BY <1>2, <2>1 DEF Goes
  <2> QED BY <1>1, <1>2, <1>3, <2>1, <2>3, <2>4, WorksOnSteadily DEF Working
<1> QED BY <1>4, <1>5, <1>6, <1>7

\* A decision on a step comes after the assessment, so no module of the participant is left.
LEMMA DecisionTracks ==
  ASSUME PerformanceInv, SeriesInv, NEW c \in Calls, AllOnTrack, Steady(call[c]),
         CollectApprovals(c) \/ RejectStep(c)
  PROVE  AllOnTrack' /\ Steady(call[c])'
<1>1. call[c].at = "acted" /\ call[c].at \in Working
  BY DEF CollectApprovals, RejectStep, Working
<1>2. PICK p, s : p = call[c].p /\ s = call[c].n
  OBVIOUS
<1>3. p \in Participants /\ OnTrack(p) /\ instance[p].status = "IN_PROGRESS" /\ CallsOK
  BY <1>1, <1>2, WorksFor DEF PerformanceInv
<1>4. s \in Steps(p) /\ s # 0
  BY <1>1, <1>2, <1>3, StepsAndModules DEF CallsOK, Grounded
<1>5. CASE Fails(c)
  BY <1>5, FailureTracks
<1>6. CASE ~Fails(c)
  <2>1. PICK status, n : Touches(p) /\ UNCHANGED task
          /\ Turns(p, status, instance[p].assessment, instance[p].module, n)
          /\ \/ /\ status = "COMPLETED" /\ n = 0
                /\ cycle' = CloseCycleAfter(p) /\ call'[c] = Idle
             \/ status = "REJECTED" /\ n = 0 /\ UNCHANGED cycle /\ call'[c] = Idle
             \/ /\ status = "IN_PROGRESS" /\ UNCHANGED cycle
                /\ call'[c].at = "stepping" /\ call'[c].p = p /\ call'[c].todo = call[c].todo
    <3>1. CASE CollectApprovals(c)
      <4>1. CompleteStep(c)
        BY <1>6, <3>1, CollectApprovalsDoes
      <4>2. CASE s = Len(Template[p].steps)
        BY <1>1, <1>2, <1>6, <4>1, <4>2, CompleteStepDoes
      <4>3. CASE s # Len(Template[p].steps)
        BY <1>1, <1>2, <1>6, <4>1, <4>3, CompleteStepDoes DEF Goes
      <4> QED BY <4>2, <4>3
    <3>2. CASE RejectStep(c)
      <4>1. CASE Template[p].steps[s].target = 0
        BY <1>2, <1>6, <3>2, <4>1, RejectStepDoes
      <4>2. CASE Template[p].steps[s].target # 0
        BY <1>2, <1>6, <3>2, <4>2, RejectStepDoes DEF Goes
      <4> QED BY <4>1, <4>2
    <3> QED BY <3>1, <3>2
  <2>2. instance[p].step = s
    <3>1. CASE CollectApprovals(c)
      <4>1. CompleteStep(c)
        BY <1>6, <3>1, CollectApprovalsDoes
      <4> QED BY <1>1, <1>2, <1>6, <4>1, ThrowFails DEF CompleteStep, PerformanceInv
    <3>2. CASE RejectStep(c)
      BY <1>2, <1>3, <1>6, <3>2, ThrowFails DEF RejectStep
    <3> QED BY <3>1, <3>2
  <2>3. instance[p].assessment = "COMPLETED" /\ AllDone(p)
    BY <1>3, <1>4, <2>2 DEF OnTrack, SeriesInv
  <2>4. CASE status # "IN_PROGRESS"
    <3>1. \A sa \in Attempts(p) : sa[1] # instance'[p].step
      BY <1>3, <2>1, <2>4, StepsAndModules DEF Turns
    <3>2. AllOnTrack'
      BY <1>3, <2>1, <2>3, <2>4, <3>1, LastTrackKept DEF Turns
    <3> QED BY <2>1, <2>4, <3>2, EndIsSteady
  <2>5. CASE status = "IN_PROGRESS"
    <3>1. AllOnTrack'
      BY <1>3, <2>1, <2>3, <2>5, InProgressKept, OneTrackKept
    <3>2. \A q \in call[c].todo : instance'[q].status = instance[q].status
      BY <1>1, <1>2, <1>3, <2>1, TodoSpared
    <3>3. instance'[p].status = "IN_PROGRESS"
      BY <2>1, <2>5 DEF Turns
    <3> QED BY <1>1, <1>2, <2>1, <2>5, <3>1, <3>2, <3>3, WorksOnSteadily DEF Working
  <2> QED BY <2>4, <2>5
<1> QED BY <1>5, <1>6

LEMMA StartTracks ==
  ASSUME PerformanceInv, NEW c \in Calls, AllOnTrack, Steady(call[c]), Start(c)
  PROVE  AllOnTrack' /\ Steady(call[c])'
<1>1. PICK todo : todo = call[c].todo
  OBVIOUS
<1>2. CASE Fails(c)
  BY <1>2, FailureTracks
<1>3. CASE ~Fails(c)
  <2>1. /\ cycle'.status = "IN_PROGRESS" /\ UNCHANGED <<step, disturbed>>
        /\ Goes(c, "measuring", call[c].n, call[c].next)
        /\ \A p \in Participants \ todo : Spared(p)
        /\ \A p \in todo :
             Turns(p, "IN_PROGRESS", "IN_PROGRESS", FirstOrNull(Manual(p)), instance[p].step)
    BY <1>1, <1>3, StartDoes
  <2>2. cycle.status = "DRAFT" /\ todo = {p \in Members : instance[p].status # "CANCELLED"}
    BY <1>1 DEF Steady, Start
  <2>3. ASSUME NEW p \in Participants PROVE OnTrack(p)'
    <3>1. CASE p \in todo
      <4>1. instance[p].step = 0
        BY <2>2, <3>1 DEF AllOnTrack, OnTrack, Members
      <4> QED BY <2>1, <3>1, <4>1 DEF OnTrack, Turns
    <3>2. CASE p \notin todo
      BY <2>1, <3>2, TrackKept DEF AllOnTrack, CycleFits
    <3> QED BY <3>1, <3>2
  <2>4. call'[c].at = "measuring" /\ call'[c].todo = todo
    BY <1>1, <2>1 DEF Goes
  <2>5. InHands(call[c])' = todo
    BY <2>4 DEF InHands, Working
  <2>6. \A p \in todo : instance'[p].status = "IN_PROGRESS"
    BY <2>1 DEF Turns
  <2>7. Steady(call[c])'
    BY <2>4, <2>5, <2>6 DEF Steady, Working
  <2> QED BY <2>3, <2>7 DEF AllOnTrack
<1> QED BY <1>2, <1>3

LEMMA MeasureTracks ==
  ASSUME PerformanceInv, NEW c \in Calls, AllOnTrack, Steady(call[c]), Measure(c)
  PROVE  AllOnTrack' /\ Steady(call[c])'
<1>1. CASE Fails(c)
  BY <1>1, FailureTracks
<1>2. CASE ~Fails(c)
  <2>1. PICK p \in call[c].todo :
          /\ Touches(p) /\ UNCHANGED <<cycle, instance, step>>
          /\ Names(c, "advancing", p, call[c].todo \ {p})
    BY <1>2, MeasureDoes
  <2>2. call[c].at = "measuring" /\ p \in Participants
    BY DEF Measure, PerformanceInv, CallsOK, CallRecord
  <2>3. InHands(call[c]) = call[c].todo /\ InHands(call[c])' = call[c].todo
    BY <2>1, <2>2 DEF InHands, Names, Working
  <2>4. instance[p].status = "IN_PROGRESS"
    BY <2>3 DEF Steady
  <2>5. OnTrack(p)'
    BY <2>1, <2>2, <2>4, InProgressKept DEF AllOnTrack, OnTrack, Turns
  <2>6. AllOnTrack'
    BY <2>1, <2>2, <2>5, OneTrackKept
  <2>7. Steady(call[c])'
    BY <2>1, <2>3 DEF Steady, Names, Working
  <2> QED BY <2>6, <2>7
<1> QED BY <1>1, <1>2

LEMMA AddTracks ==
  ASSUME PerformanceInv, NEW c \in Calls, AllOnTrack, Steady(call[c]), Add(c)
  PROVE  AllOnTrack' /\ Steady(call[c])'
<1>1. CASE Fails(c)
  BY <1>1, FailureTracks
<1>2. CASE ~Fails(c)
  <2>1. PICK p : p = call[c].p
    OBVIOUS
  <2>2. /\ p \in Participants /\ cycle.status = call[c].read /\ call[c].read # "COMPLETED"
    BY <2>1, ActsOn DEF Steady, Add, Roaming
  <2>3. /\ instance[p].status = "ABSENT"
        /\ Touches(p) /\ UNCHANGED <<cycle, task, step>>
        /\ IF call[c].read = "IN_PROGRESS"
           THEN /\ Turns(p, "IN_PROGRESS", "IN_PROGRESS", FirstOrNull(Manual(p)), instance[p].step)
                /\ call'[c].at = "measuring" /\ call'[c].todo = {p}
           ELSE /\ Turns(p, "DRAFT", instance[p].assessment, instance[p].module, instance[p].step)
                /\ call'[c] = Idle
    BY <1>2, <2>1, AddDoes
  <2>4. OnTrack(p) /\ instance[p].step = 0
    BY <2>2, <2>3 DEF AllOnTrack, OnTrack
  <2>5. CASE call[c].read = "IN_PROGRESS"
    <3>1. OnTrack(p)'
      BY <2>2, <2>3, <2>4, <2>5 DEF OnTrack, Turns
    <3>2. InHands(call[c])' = {p}
      BY <2>3, <2>5 DEF InHands, Working
    <3>3. Steady(call[c])'
      BY <2>3, <2>5, <3>2 DEF Steady, Working, Turns
    <3> QED BY <2>2, <2>3, <3>1, <3>3, OneTrackKept
  <2>6. CASE call[c].read # "IN_PROGRESS"
    <3>1. OnTrack(p)'
      BY <2>2, <2>3, <2>4, <2>6 DEF OnTrack, Turns, Member
    <3> QED BY <2>2, <2>3, <2>6, <3>1, OneTrackKept, EndIsSteady
  <2> QED BY <2>5, <2>6
<1> QED BY <1>1, <1>2

LEMMA UpdateTemplateTracks ==
  ASSUME PerformanceInv, SeriesInv, NEW c \in Calls, AllOnTrack, Steady(call[c]), UpdateTemplate(c)
  PROVE  AllOnTrack' /\ Steady(call[c])'
<1>1. Steady(call[c])'
  BY UpdateTemplateDoes, EndIsSteady
<1>2. CASE LeavesRows
  BY <1>1, <1>2, AllTracksKept DEF LeavesRows
<1>3. CASE ~LeavesRows
  <2>1. PICK p : p = call[c].p
    OBVIOUS
  <2>2. p \in Participants
    BY <2>1, ActsOn DEF UpdateTemplate, Roaming
  <2>3. /\ \A m \in Modules(p) : task[p][m].status # "COMPLETED"
        /\ UNCHANGED <<cycle, step>> /\ \A q \in Participants \ {p} : Spared(q)
        /\ task'[p] = NewTasks(p)
        /\ instance'[p].status = instance[p].status /\ instance'[p].step = instance[p].step
    BY <1>3, <2>1, UpdateTemplateDoes
  <2>4. OnTrack(p) /\ instance[p].step = 0
    <3>1. ~AllDone(p)
      BY <2>2, <2>3, StepsAndModules DEF AllDone
    <3> QED BY <2>2, <3>1 DEF AllOnTrack, OnTrack, SeriesInv
  <2>5. \A m \in Modules(p) : task'[p][m].status = "PENDING"
    BY <2>3 DEF NewTasks, NewTask
  <2>6. OnTrack(p)'
    BY <2>3, <2>4, <2>5 DEF OnTrack, Member
  <2>7. ASSUME NEW q \in Participants, q # p PROVE OnTrack(q)'
    BY <2>3, <2>7, TrackKept DEF AllOnTrack, CycleFits
  <2> QED BY <1>1, <2>6, <2>7 DEF AllOnTrack
<1> QED BY <1>2, <1>3

LEMMA RestartTracks ==
  ASSUME PerformanceInv, NEW c \in Calls, AllOnTrack, Restart(c)
  PROVE  AllOnTrack' /\ Steady(call[c])'
<1>1. /\ call'[c] = Idle /\ cycle'.status = "IN_PROGRESS"
      /\ \A p \in Participants :
           \/ instance'[p].status = "IN_PROGRESS" /\ instance'[p].step = 0
           \/ Spared(p)
  BY RestartDoes
<1>2. ASSUME NEW p \in Participants PROVE OnTrack(p)'
  <2>1. CASE Spared(p)
    BY <1>1, <2>1, TrackKept DEF AllOnTrack, CycleFits
  <2>2. CASE ~Spared(p)
    BY <1>1, <2>2 DEF OnTrack
  <2> QED BY <2>1, <2>2
<1> QED BY <1>1, <1>2, EndIsSteady DEF AllOnTrack

\* A participant whose instance is closed, or not open
LEMMA ClosedTrackKept ==
  ASSUME NEW p \in Participants, OnTrack(p), Stopped(p),
         cycle'.status = cycle.status \/ cycle'.status = "CANCELLED",
         Closed(p) \/ (instance'[p] = instance[p] /\ instance[p].status # "IN_PROGRESS"),
         Member(p)
  PROVE  OnTrack(p)'
<1>1. /\ \A m \in Modules(p) : task'[p][m].status # "IN_PROGRESS"
      /\ \A sa \in Attempts(p) : step'[p][sa].status # "IN_PROGRESS"
  BY DEF Stopped
<1>2. CASE Closed(p)
  BY <1>1, <1>2 DEF OnTrack, Closed
<1>3. CASE instance'[p] = instance[p] /\ instance[p].status # "IN_PROGRESS"
  BY <1>1, <1>3 DEF OnTrack, Member
<1> QED BY <1>2, <1>3

LEMMA ArchiveTracks ==
  ASSUME PerformanceInv, NEW c \in Calls, AllOnTrack, Steady(call[c]), Archive(c)
  PROVE  AllOnTrack' /\ Steady(call[c])'
<1>1. Steady(call[c])'
  BY ArchiveDoes, EndIsSteady
<1>2. CASE call[c].read # "IN_PROGRESS"
  <2>1. cycle'.status = call[c].read /\ UNCHANGED <<instance, task, step>>
    BY <1>2, ArchiveDoes
  <2>2. cycle'.status = cycle.status
    BY <2>1 DEF Steady, Archive
  <2>3. \A p \in Participants : OnTrack(p)'
    BY <2>1, <2>2 DEF AllOnTrack, OnTrack, Member
  <2> QED BY <1>1, <2>3 DEF AllOnTrack
<1>3. CASE call[c].read = "IN_PROGRESS"
  <2>1. /\ cycle'.status = "CANCELLED"
        /\ \A p \in Participants :
             IF Member(p)
             THEN /\ Stopped(p)
                  /\ IF instance[p].status = "IN_PROGRESS" THEN Closed(p)
                     ELSE instance'[p] = instance[p]
             ELSE Spared(p)
    BY <1>3, ArchiveDoes
  <2>2. ASSUME NEW p \in Participants PROVE OnTrack(p)'
    <3>1. CASE Member(p)
      BY <2>1, <3>1, ClosedTrackKept DEF AllOnTrack
    <3>2. CASE ~Member(p)
      <4>1. CycleFits(p)
        BY <2>1, <3>2 DEF CycleFits, Member
      <4> QED BY <2>1, <3>2, <4>1, TrackKept DEF AllOnTrack
    <3> QED BY <3>1, <3>2
  <2> QED BY <1>1, <2>2 DEF AllOnTrack
<1> QED BY <1>2, <1>3

LEMMA CloseTracks ==
  ASSUME PerformanceInv, AllOnTrack, NEW ps \in SUBSET Participants, Close(ps)
  PROVE  AllOnTrack'
<1>1. /\ cycle' = cycle \/ /\ cycle'.status = "CANCELLED"
                           /\ \A p \in Members \ ps : instance[p].status = "CANCELLED"
      /\ \A p \in Participants : IF p \in ps THEN Member(p) /\ Closed(p) ELSE Spared(p)
  BY CloseDoes
<1>2. ASSUME NEW p \in Participants PROVE OnTrack(p)'
  <2>1. CASE p \in ps
    BY <1>1, <2>1, ClosedTrackKept DEF AllOnTrack, Closed
  <2>2. CASE p \notin ps
    <3>1. CycleFits(p)
      BY <1>1, <2>2 DEF CycleFits, Members, Member
    <3> QED BY <1>1, <2>2, <3>1, TrackKept DEF AllOnTrack
  <2> QED BY <2>1, <2>2
<1> QED BY <1>2 DEF AllOnTrack

LEMMA RemoveTracks ==
  ASSUME PerformanceInv, AllOnTrack, NEW p \in Participants, Remove(p)
  PROVE  AllOnTrack'
<1>1. /\ Touches(p) /\ UNCHANGED <<cycle, task, step>>
      /\ Turns(p, "REMOVED", instance[p].assessment, 0, 0)
  BY RemoveDoes
<1>2. OnTrack(p)'
  BY <1>1 DEF OnTrack, Turns, Member
<1> QED BY <1>1, <1>2, OneTrackKept

LEMMA NextTracks ==
  ASSUME PerformanceInv, SeriesInv, AloneInv, TrackInv, Next
  PROVE  TrackInv'
<1> SUFFICES ASSUME ~overlapped', "late card" \notin disturbed' PROVE TrackInv'
  BY DEF TrackInv, TrackOK
<1>1. ~overlapped
  BY OneCallSteps
<1>2. ASSUME NEW c \in Calls, Alone(c)', AllOnTrack', Steady(call[c])'
      PROVE  TrackInv'
  <2>1. Steady(Idle)'
    BY IdleType DEF Steady, InHands, Working
  <2>2. \A d \in Calls : call'[d].at # "idle" => d = c
    BY <1>2 DEF Alone
  <2> QED BY <1>2, <2>1, <2>2 DEF TrackInv, TrackOK
<1>3. ASSUME NEW c \in Calls, Quiet, Request(c)
      PROVE  AllOnTrack' /\ Steady(call[c])'
  <2>1. "late card" \notin disturbed
    BY <1>3, RequestDoes DEF Asks
  <2> QED BY <1>1, <1>3, <2>1, RequestTracks DEF TrackInv, TrackOK
<1>4. ASSUME NEW c \in Calls, call[c].at # "idle", Proceed(c) \/ Interrupt(c)
      PROVE  AllOnTrack' /\ Steady(call[c])'
  <2>1. "late card" \notin disturbed
    <3>1. disturbed \subseteq disturbed'
      BY <1>4, ProceedKeepsDisturbance
    <3> QED BY <3>1
  <2>2. AllOnTrack /\ Steady(call[c])
    BY <1>1, <1>4, <2>1 DEF TrackInv, TrackOK
  <2>3. CASE Interrupt(c)
    <3>1. call'[c] = Idle /\ UNCHANGED <<cycle, instance, task, step>>
      BY <2>3 DEF Interrupt, rows, PerformanceInv, CallsOK
    <3> QED BY <2>2, <3>1, AllTracksKept, EndIsSteady
  <2>4. CASE Proceed(c)
    BY <2>2, <2>4, AssessmentTracks, FinishTracks, WorkflowTracks, DecisionTracks, StartTracks,
       MeasureTracks, AddTracks, UpdateTemplateTracks, RestartTracks, ArchiveTracks DEF Proceed
  <2> QED BY <1>4, <2>3, <2>4
<1>5. ASSUME Quiet, UNCHANGED call,
             \/ \E p \in Participants : Remove(p)
             \/ \E ps \in SUBSET Participants : Close(ps)
      PROVE  TrackInv'
  <2>1. UNCHANGED disturbed
    BY <1>5 DEF Remove, Close
  <2>2. AllOnTrack
    BY <1>1, <1>5, <2>1 DEF TrackInv, TrackOK
  <2>3. AllOnTrack'
    BY <1>5, <2>2, RemoveTracks, CloseTracks
  <2>4. Steady(Idle)'
    BY IdleType DEF Steady, InHands, Working
  <2>5. \A c \in Calls : call'[c].at = "idle"
    BY <1>5 DEF Quiet
  <2> QED BY <2>3, <2>4, <2>5 DEF TrackInv, TrackOK
<1> QED BY <1>2, <1>3, <1>4, <1>5, OneCallSteps

LEMMA TrackHolds == Spec => []TrackInv
<1>1. Init => TrackInv
  <2> SUFFICES ASSUME Init PROVE TrackInv
    OBVIOUS
  <2>1. ASSUME NEW p \in Participants PROVE OnTrack(p)
    <3>1. /\ cycle.status = "DRAFT" /\ instance[p].status \in {"DRAFT", "ABSENT"}
          /\ instance[p].step = 0
      BY DEF Init
    <3>2. /\ \A m \in Modules(p) : task[p][m].status = "PENDING"
          /\ \A sa \in Attempts(p) : step[p][sa].status = "ABSENT"
      BY DEF Init, NewTasks, NewTask, NoStep
    <3> QED BY <3>1, <3>2 DEF OnTrack, Member
  <2>2. \A c \in Calls : call[c].at = "idle"
    BY IdleType DEF Init
  <2> QED BY <2>1, <2>2, IdleIsSteady DEF TrackInv, TrackOK, AllOnTrack
<1>2. PerformanceInv /\ SeriesInv /\ AloneInv /\ TrackInv /\ [Next]_vars => TrackInv'
  <2>1. CASE UNCHANGED vars
    BY <2>1 DEF vars, rows, TrackInv, TrackOK, AllOnTrack, OnTrack, Steady, InHands, Member,
       Members, Quiet
  <2> QED BY <2>1, NextTracks
<1> QED BY <1>1, <1>2, PerformanceInvariance, SeriesHolds, AloneHolds, PTL DEF Spec

\* completeWorkflowTask, finishAssessment and the management of the cycle: while calls come one
\* at a time and no card scores a module that is not open, a completed cycle has only completed
\* and cancelled instances, also when calls are cut off or the cycle is restarted.
THEOREM CompletedCyclesAreDone == Spec => []CompletedCycleIsDone
<1>1. AloneInv /\ TrackInv => CompletedCycleIsDone
  <2> SUFFICES ASSUME AloneInv, TrackInv, ~overlapped, "late card" \notin disturbed
               PROVE  AllOnTrack
    BY DEF AllOnTrack, OnTrack, CompletedCycleIsDone, Members
  <2> QED BY DEF TrackInv, TrackOK, Quiet
<1> QED BY <1>1, AloneHolds, TrackHolds, PTL

-----------------------------------------------------------------------------
(***************************************************************************)
(* Nobody is lost between two transactions                                 *)
(*                                                                         *)
(* A participant in progress waits for its scorers or reviewers, or is     *)
(* pending: the call in flight has still to open what it will wait for.    *)
(* So the call must not fail on the way, which takes knowing where each    *)
(* stage finds its participant.                                            *)
(***************************************************************************)
NoStepYet(p) == \A sa \in Attempts(p) : step[p][sa].status = "ABSENT"
Fresh(p) == NoStepYet(p) /\ \A m \in Modules(p) : task[p][m] = NewTask
InAssessment(p) == NoStepYet(p) /\ instance[p].assessment # "COMPLETED"
Measured(p) == \A m \in Metric(p) : task[p][m].status = "COMPLETED"

\* The manual modules before m are completed, and those after it untouched.
AtModule(p, m) ==
  /\ m \in Manual(p)
  /\ \A k \in Manual(p) : k < m => task[p][k].status = "COMPLETED"
  /\ \A k \in Manual(p) : m < k => task[p][k] = NewTask
IsOpen(p, m) ==
  AtModule(p, m) /\ task[p][m].status = "IN_PROGRESS" /\ instance[p].module = m
IsNext(p, m) ==
  AtModule(p, m) /\ (task[p][m] = NewTask \/ (IsOpen(p, m) /\ task[p][m].scored = {}))

\* What advanceAssessment finds
Ahead(p) ==
  (\A m \in Manual(p) : task[p][m].status = "COMPLETED") \/ \E m \in Manual(p) : IsNext(p, m)
GoesOnWith(p, m, next) ==
  IF next = 0 THEN \A k \in Manual(p) : k <= m
  ELSE next \in Manual(p) /\ m < next /\ \A k \in Manual(p) : k < next => k <= m

Scoreable(p) ==
  /\ InAssessment(p) /\ Measured(p)
  /\ IsOpen(p, instance[p].module) /\ task[p][instance[p].module].assigned
NoneFrom(p, s) == \A sa \in Attempts(p) : s <= sa[1] => step[p][sa].status = "ABSENT"
Waits(p) ==
  IF instance[p].assessment = "COMPLETED"
  THEN Returned(p) \/ /\ instance[p].step \in Steps(p)
                      /\ step[p][<<instance[p].step, 1>>].status = "IN_PROGRESS"
                      /\ NoneFrom(p, instance[p].step + 1)
  ELSE Scoreable(p) /\ task[p][instance[p].module].scored # Scorers(p, instance[p].module)

\* What a stage relies on of the participant it works for; todo are those that come after it.
Job(at, p, n, next, todo) ==
  /\ at \in {"scoring", "skipping", "scored"} =>
       Scoreable(p) /\ n = instance[p].module /\ GoesOnWith(p, n, next)
  /\ at = "advancing" => InAssessment(p) /\ Measured(p) /\ Ahead(p)
  /\ at \in {"opening", "resolving"} =>
       /\ InAssessment(p) /\ Measured(p) /\ AtModule(p, n)
       /\ at = "opening" => task[p][n] = NewTask
       /\ at = "resolving" => IsOpen(p, n) /\ task[p][n].scored = {}
  /\ at = "finishing" => InAssessment(p)
  /\ at \in {"stepping", "creating"} =>
       /\ instance[p].assessment = "COMPLETED"
       /\ \/ Returned(p) /\ todo = {}
          \/ n \in Steps(p) /\ next = 1 /\ NoneFrom(p, n)
  /\ at \in Busy => todo = {}

\* The participants the call in flight has still to open something for
Undecided == {"scored", "advancing", "opening", "resolving", "finishing", "stepping", "creating"}
Pending(r) ==
  (IF r.at \in Undecided THEN {r.p} ELSE {})
    \cup (IF r.at \in Undecided \cup {"measuring"} THEN r.todo ELSE {})
TodoReady(r) ==
  r.at \in Undecided \cup {"measuring"} => \A p \in r.todo : InAssessment(p) /\ Ahead(p)
UpToDate(r) ==
  /\ r.at # "idle" => \A p \in Participants : r.seen[p] = instance[p].edition
  /\ r.at \in {"adding", "templating"} => r.read = cycle.status
  /\ r.at = "adding" => r.read \in {"DRAFT", "IN_PROGRESS"}
Carried(r) == Job(r.at, r.p, r.n, r.next, r.todo) /\ TodoReady(r) /\ UpToDate(r)

Attended(r, p) ==
  /\ instance[p].status \in {"ABSENT", "DRAFT"} => Fresh(p)
  /\ instance[p].status = "DRAFT" => cycle.status = "DRAFT"
  /\ instance[p].status = "IN_PROGRESS" /\ p \notin Pending(r) => Waits(p)
WaitOK(r) == disturbed = {} => Carried(r) /\ \A p \in Participants : Attended(r, p)
WaitInv ==
  ~overlapped => /\ \A c \in Calls : call[c].at # "idle" => WaitOK(call[c])
                 /\ Quiet => WaitOK(Idle)

LEMMA Sparing ==
  ASSUME NEW q \in Participants, Spared(q)
  PROVE  /\ Fresh(q) => Fresh(q)'
         /\ InAssessment(q) => InAssessment(q)'
         /\ Ahead(q) => Ahead(q)'
         /\ Waits(q) => Waits(q)'
<1>1. (Fresh(q) => Fresh(q)') /\ (InAssessment(q) => InAssessment(q)')
  BY DEF Spared, Fresh, InAssessment, NoStepYet
<1>2. Ahead(q) => Ahead(q)'
  BY DEF Spared, Ahead, IsNext, IsOpen, AtModule
<1>3. Waits(q) => Waits(q)'
  <2>1. Scoreable(q) => Scoreable(q)'
    BY <1>1 DEF Spared, Scoreable, Measured, IsOpen, AtModule
  <2>2. Returned(q) => Returned(q)'
    BY DEF Spared, Returned
  <2>3. NoneFrom(q, instance[q].step + 1) => NoneFrom(q, instance[q].step + 1)'
    BY DEF Spared, NoneFrom
  <2> QED BY <2>1, <2>2, <2>3 DEF Spared, Waits
<1> QED BY <1>1, <1>2, <1>3

\* The call works for p, and all is well.
Serves(c, p) ==
  /\ p \in Participants /\ p = call[c].p /\ call[c].at \in Working
  /\ instance[p].status = "IN_PROGRESS" /\ cycle.status = "IN_PROGRESS"
  /\ Carried(call[c]) /\ \A q \in Participants : Attended(call[c], q)
  /\ \A q \in call[c].todo : q \in Participants \ {p} /\ InAssessment(q) /\ Ahead(q)

LEMMA Serving ==
  ASSUME PerformanceInv, AllOnTrack, NEW c \in Calls, Steady(call[c]), call[c].at \in Working,
         Carried(call[c]), \A q \in Participants : Attended(call[c], q)
  PROVE  Serves(c, call[c].p)
<1>1. /\ call[c].p \in Participants /\ instance[call[c].p].status = "IN_PROGRESS"
      /\ cycle.status = "IN_PROGRESS"
  BY WorksFor DEF OnTrack
<1>2. call[c].todo \subseteq Participants /\ call[c].p \notin call[c].todo
  BY DEF PerformanceInv, CallsOK, CallRecord, Steady
<1>3. ASSUME NEW q \in call[c].todo PROVE InAssessment(q) /\ Ahead(q)
  <2>1. call[c].at \notin Busy
    BY <1>3 DEF Carried, Job
  <2>2. call[c].at \in Undecided
    BY <2>1 DEF Busy, Working, Undecided
  <2> QED BY <1>3, <2>2 DEF Carried, TodoReady
<1> QED BY <1>1, <1>2, <1>3 DEF Serves

\* A participant nobody works for, while the cycle runs
LEMMA OtherAttended ==
  ASSUME NEW c \in Calls, NEW q \in Participants, Attended(call[c], q), Spared(q),
         cycle' = cycle \/ cycle.status = "IN_PROGRESS",
         q \notin Pending(call[c])' => q \notin Pending(call[c])
  PROVE  Attended(call[c], q)'
<1>1. instance'[q] = instance[q]
  BY DEF Spared
<1> QED BY <1>1, Sparing DEF Attended

Hands(c, at, p, n, next, todo) ==
  /\ call'[c].at = at /\ call'[c].p = p /\ call'[c].n = n /\ call'[c].next = next
  /\ call'[c].todo = todo
  /\ \A q \in Participants :
       call'[c].seen[q] = call[c].seen[q] \/ call'[c].seen[q] = instance[q].edition

LEMMA GoesHands ==
  ASSUME NEW c, NEW p, p = call[c].p, NEW todo, todo = call[c].todo,
         NEW at, NEW n, NEW next, Goes(c, at, n, next)
  PROVE  Hands(c, at, p, n, next, todo)
  BY DEF Goes, Hands

LEMMA EditionsSeen ==
  ASSUME NEW c \in Calls, NEW p, Serves(c, p), Touches(p),
         instance'[p].edition = instance[p].edition,
         NEW q \in Participants
  PROVE  instance'[q].edition = instance[q].edition /\ call[c].seen[q] = instance[q].edition
<1>1. instance'[q].edition = instance[q].edition
  BY DEF Touches, Spared
<1>2. call[c].at # "idle"
  BY DEF Serves, Working
<1> QED BY <1>1, <1>2 DEF Serves, Carried, UpToDate

\* The call goes on with the same participant.
LEMMA JobGoesOn ==
  ASSUME NEW c \in Calls, NEW p, Serves(c, p), Touches(p),
         instance'[p].status = "IN_PROGRESS", instance'[p].edition = instance[p].edition,
         NEW at \in Working, NEW n, NEW next, NEW todo, todo = call[c].todo,
         Hands(c, at, p, n, next, todo), Job(at, p, n, next, todo)',
         at \notin Undecided => Waits(p)'
  PROVE  WaitOK(call[c])'
<1>1. Job(call[c].at, call[c].p, call[c].n, call[c].next, call[c].todo)'
  BY DEF Hands
<1>2. TodoReady(call[c])'
  <2> SUFFICES ASSUME NEW q \in todo PROVE InAssessment(q)' /\ Ahead(q)'
    BY DEF TodoReady, Hands
  <2> QED BY Sparing DEF Serves, Touches
<1>3. UpToDate(call[c])'
  <2>1. \A q \in Participants : call'[c].seen[q] = instance'[q].edition
    BY EditionsSeen DEF Hands
  <2> QED BY <2>1 DEF UpToDate, Hands, Working
<1>4. ASSUME NEW q \in Participants, q # p PROVE Attended(call[c], q)'
  <2>1. q \notin Pending(call[c])' => q \notin Pending(call[c])
    <3> SUFFICES ASSUME q \notin Pending(call[c])' PROVE q \notin Pending(call[c])
      OBVIOUS
    <3>1. CASE at \in Undecided
      <4>1. q \notin todo
        BY <3>1 DEF Pending, Hands
      <4> QED BY <1>4, <4>1 DEF Pending, Serves
    <3>2. CASE at \notin Undecided
      <4>1. todo = {}
        BY <1>1, <3>2 DEF Job, Busy, Working, Undecided, Hands
      <4> QED BY <1>4, <4>1 DEF Pending, Serves
    <3> QED BY <3>1, <3>2
  <2> QED BY <1>4, <2>1, OtherAttended DEF Serves, Touches
<1>5. Attended(call[c], p)'
  <2>1. at \in Undecided => p \in Pending(call[c])'
    BY DEF Pending, Hands
  <2> QED BY <2>1 DEF Attended
<1> QED BY <1>1, <1>2, <1>3, <1>4, <1>5 DEF WaitOK, Carried, Serves

LEMMA IdleCarries ==
  ASSUME NEW c \in Calls, call'[c] = Idle
  PROVE  Carried(call[c])' /\ Pending(call[c])' = {}
<1>1. call'[c].at = "idle"
  BY IdleType
<1>2. Job(call[c].at, call[c].p, call[c].n, call[c].next, call[c].todo)'
  BY <1>1 DEF Job, Busy
<1>3. TodoReady(call[c])' /\ UpToDate(call[c])' /\ Pending(call[c])' = {}
  BY <1>1 DEF TodoReady, UpToDate, Pending, Undecided
<1> QED BY <1>2, <1>3 DEF Carried

\* The call is done with its participant.
LEMMA JobEnds ==
  ASSUME NEW c \in Calls, NEW p, Serves(c, p), Touches(p),
         instance'[p].status \notin {"ABSENT", "DRAFT"},
         instance'[p].edition = instance[p].edition,
         instance'[p].status = "IN_PROGRESS" => Waits(p)',
         GoesOnTo(c) \/ (call'[c] = Idle /\ call[c].todo = {})
  PROVE  WaitOK(call[c])'
<1>1. PICK todo : todo = call[c].todo
  OBVIOUS
<1>2. ASSUME Carried(call[c])', todo \subseteq Pending(call[c])'
      PROVE  WaitOK(call[c])'
  <2>1. ASSUME NEW q \in Participants, q # p PROVE Attended(call[c], q)'
    <3>1. q \notin Pending(call[c])' => q \notin Pending(call[c])
      BY <1>1, <1>2, <2>1 DEF Pending, Serves
    <3> QED BY <2>1, <3>1, OtherAttended DEF Serves, Touches
  <2>2. Attended(call[c], p)'
    BY DEF Attended
  <2> QED BY <1>2, <2>1, <2>2 DEF WaitOK
<1>3. CASE todo = {}
  <2>1. call'[c] = Idle
    BY <1>1, <1>3 DEF GoesOnTo
  <2> QED BY <1>2, <1>3, <2>1, IdleCarries
<1>4. CASE todo # {}
  <2>1. Goes(c, "measuring", call[c].n, call[c].next)
    BY <1>1, <1>4 DEF GoesOnTo
  <2>2. call'[c].at = "measuring" /\ call'[c].todo = todo /\ call'[c].seen = call[c].seen
    BY <1>1, <2>1 DEF Goes
  <2>3. Job(call[c].at, call[c].p, call[c].n, call[c].next, call[c].todo)'
    BY <2>2 DEF Job, Busy
  <2>4. TodoReady(call[c])'
    <3> SUFFICES ASSUME NEW q \in todo PROVE InAssessment(q)' /\ Ahead(q)'
      BY <2>2 DEF TodoReady
    <3> QED BY <1>1, Sparing DEF Serves, Touches
  <2>5. UpToDate(call[c])'
    <3>1. \A q \in Participants : call'[c].seen[q] = instance'[q].edition
      BY <2>2, EditionsSeen
    <3> QED BY <2>2, <3>1 DEF UpToDate
  <2>6. todo \subseteq Pending(call[c])'
    BY <2>2 DEF Pending
  <2> QED BY <1>2, <2>3, <2>4, <2>5, <2>6 DEF Carried
<1> QED BY <1>3, <1>4

LEMMA FailureWaits ==
  ASSUME NEW c \in Calls, NEW p, Serves(c, p), Fails(c), call[c].todo = {}, Waits(p)
  PROVE  WaitOK(call[c])'
<1>1. Touches(p) /\ Spared(p) /\ instance'[p] = instance[p]
  BY DEF Fails, LeavesRows, Touches, Spared
<1>2. Waits(p)'
  BY <1>1, Sparing DEF Serves
<1> QED BY <1>1, <1>2, JobEnds DEF Serves, Fails

LEMMA ManualHasScorers ==
  ASSUME NEW p \in Participants, NEW m \in Manual(p)
  PROVE  Scorers(p, m) # {}
  BY PerformanceAssumption DEF Manual, Modules, Scorers

LEMMA ServedIsMember ==
  ASSUME NEW c, NEW p, Serves(c, p)
  PROVE  Member(p) /\ Known(c, p)
<1>1. Member(p) /\ call[c].at # "idle"
  BY DEF Serves, Member, Working
<1> QED BY <1>1 DEF Serves, Carried, UpToDate, Known

\* What a call that scores relies on
LEMMA ScoringServes ==
  ASSUME NEW c, NEW p, Serves(c, p), call[c].at \in {"scoring", "skipping", "scored"}
  PROVE  /\ Scoreable(p) /\ call[c].n = instance[p].module /\ IsOpen(p, call[c].n)
         /\ GoesOnWith(p, call[c].n, call[c].next) /\ call[c].todo = {}
         /\ call[c].at # "scored" => Waits(p)
<1>1. /\ Scoreable(p) /\ call[c].n = instance[p].module
      /\ GoesOnWith(p, call[c].n, call[c].next) /\ call[c].todo = {}
  BY DEF Serves, Carried, Job, Busy
<1>2. ASSUME call[c].at # "scored" PROVE Waits(p)
  <2>1. Pending(call[c]) = {}
    BY <1>1, <1>2 DEF Pending, Undecided
  <2> QED BY <2>1 DEF Serves, Attended
<1> QED BY <1>1, <1>2 DEF Scoreable

LEMMA CommitScoreWaits ==
  ASSUME PerformanceInv, NEW c \in Calls, NEW p, Serves(c, p), CommitScore(c)
  PROVE  WaitOK(call[c])'
<1>1. PICK m, next : m = call[c].n /\ next = call[c].next
  OBVIOUS
<1>2. /\ Scoreable(p) /\ m = instance[p].module /\ IsOpen(p, m) /\ GoesOnWith(p, m, next)
      /\ call[c].todo = {} /\ Waits(p)
  BY <1>1, ScoringServes DEF CommitScore
<1>3. CASE Fails(c)
  BY <1>2, <1>3, FailureWaits
<1>4. CASE ~Fails(c)
  <2>1. /\ Touches(p) /\ UNCHANGED <<cycle, instance, step>> /\ Goes(c, "scored", m, next)
        /\ \A n \in Modules(p) \ {m} : task'[p][n] = task[p][n]
        /\ task'[p][m].status = task[p][m].status
        /\ task'[p][m].assigned = task[p][m].assigned
    BY <1>1, <1>4, CommitScoreDoes DEF Serves
  <2>2. Manual(p) \subseteq Modules(p) /\ Modules(p) \subseteq Nat /\ Metric(p) \subseteq Modules(p)
    BY DefinitionFacts DEF Serves, Metric
  <2>3. InAssessment(p)' /\ Measured(p)'
    BY <1>2, <2>1, <2>2 DEF Scoreable, InAssessment, NoStepYet, Measured
  <2>4. IsOpen(p, m)'
    BY <1>2, <2>1, <2>2 DEF IsOpen, AtModule
  <2>5. Scoreable(p)' /\ GoesOnWith(p, m, next)'
    BY <1>2, <2>1, <2>3, <2>4 DEF Scoreable, GoesOnWith
  <2>6. Job("scored", p, m, next, {})'
    BY <1>2, <2>1, <2>5 DEF Job
  <2>7. Hands(c, "scored", p, m, next, {})
    BY <1>2, <2>1, GoesHands DEF Serves
  <2> QED BY <1>2, <2>1, <2>6, <2>7, JobGoesOn DEF Serves, Undecided, Working
<1> QED BY <1>3, <1>4

\* Nothing keeps the last scorer, or a skip, from completing the module and opening the next.
LEMMA CompleteTaskWaits ==
  ASSUME PerformanceInv, NEW c \in Calls, NEW p, Serves(c, p), call[c].at \in {"scored", "skipping"},
         CompleteTask(c)
  PROVE  WaitOK(call[c])'
<1>1. PICK m, next : m = call[c].n /\ next = call[c].next
  OBVIOUS
<1>2. /\ Scoreable(p) /\ m = instance[p].module /\ IsOpen(p, m) /\ GoesOnWith(p, m, next)
      /\ call[c].todo = {}
  BY <1>1, ScoringServes
<1>3. Manual(p) \subseteq Modules(p) /\ Modules(p) \subseteq Nat \ {0} /\ m \in Manual(p)
  BY <1>2, DefinitionFacts DEF Serves, IsOpen, AtModule
<1>4. next # 0 => next \in Manual(p) /\ m < next /\ task[p][next] = NewTask
  BY <1>2 DEF GoesOnWith, IsOpen, AtModule
<1>5. CanComplete(c, p, m, next)
  BY <1>2, <1>4, ServedIsMember DEF CanComplete, NewTask
<1>6. /\ Touches(p) /\ UNCHANGED <<cycle, step>> /\ Goes(c, "advancing", m, next)
      /\ Turns(p, "IN_PROGRESS", instance[p].assessment, next, instance[p].step)
      /\ \A n \in Modules(p) \ {m, next} : task'[p][n] = task[p][n]
      /\ task'[p][m].status = "COMPLETED"
      /\ next \in Modules(p) =>
           task'[p][next].status = "IN_PROGRESS" /\ task'[p][next].scored = task[p][next].scored
  BY <1>1, <1>5, CompleteTaskDoes DEF Serves
<1>7. InAssessment(p)'
  BY <1>2, <1>6 DEF Scoreable, InAssessment, NoStepYet, Turns
<1>8. Measured(p)'
  <2> SUFFICES ASSUME NEW k \in Metric(p) PROVE task'[p][k].status = "COMPLETED"
    BY DEF Measured
  <2>1. k \in Modules(p) \ {m, next}
    BY <1>3, <1>4 DEF Metric
  <2> QED BY <1>2, <1>6, <2>1 DEF Scoreable, Measured
<1>9. Ahead(p)'
  <2>1. \A k \in Manual(p) : k < m => task[p][k].status = "COMPLETED"
    BY <1>2 DEF IsOpen, AtModule
  <2>2. CASE next = 0
    <3>1. ASSUME NEW k \in Manual(p) PROVE task'[p][k].status = "COMPLETED"
      <4>1. k = m \/ (k < m /\ k \in Modules(p) \ {m, next})
        BY <1>2, <1>3, <2>2 DEF GoesOnWith
      <4> QED BY <1>6, <2>1, <4>1
    <3> QED BY <3>1 DEF Ahead
  <2>3. CASE next # 0
    <3>1. ASSUME NEW k \in Manual(p), k < next PROVE task'[p][k].status = "COMPLETED"
      <4>1. k = m \/ (k < m /\ k \in Modules(p) \ {m, next})
        BY <1>2, <1>3, <2>3, <3>1 DEF GoesOnWith
      <4> QED BY <1>6, <2>1, <4>1
    <3>2. ASSUME NEW k \in Manual(p), next < k PROVE task'[p][k] = NewTask
      <4>1. m < k /\ k \in Modules(p) \ {m, next}
        BY <1>3, <1>4, <2>3, <3>2
      <4> QED BY <1>2, <1>6, <4>1 DEF IsOpen, AtModule
    <3>3. IsOpen(p, next)'
      BY <1>3, <1>4, <1>6, <2>3, <3>1, <3>2 DEF IsOpen, AtModule, Turns
    <3>4. task'[p][next].scored = {}
      BY <1>3, <1>4, <1>6, <2>3 DEF NewTask
    <3> QED BY <1>4, <2>3, <3>3, <3>4 DEF Ahead, IsNext, IsOpen
  <2> QED BY <2>2, <2>3
<1>10. Job("advancing", p, m, next, {})'
  BY <1>7, <1>8, <1>9 DEF Job
<1>11. Hands(c, "advancing", p, m, next, {})
  BY <1>2, <1>6, GoesHands DEF Serves
<1> QED BY <1>2, <1>6, <1>10, <1>11, JobGoesOn DEF Serves, Undecided, Working, Turns

LEMMA CollectScoresWaits ==
  ASSUME PerformanceInv, NEW c \in Calls, NEW p, Serves(c, p), CollectScores(c) \/ SkipModule(c)
  PROVE  WaitOK(call[c])'
<1>1. CASE call[c].at \in {"scored", "skipping"} /\ CompleteTask(c)
  BY <1>1, CompleteTaskWaits
<1>2. CASE ~(call[c].at \in {"scored", "skipping"} /\ CompleteTask(c))
  <2>1. CollectScores(c)
    BY <1>2 DEF SkipModule
  <2>2. Fails(c) /\ ~(Known(c, p) /\ task[p][call[c].n].scored = Scorers(p, call[c].n))
    BY <1>2, <2>1, CollectScoresDoes DEF Serves
  <2>3. Scoreable(p) /\ call[c].n = instance[p].module /\ call[c].todo = {}
    BY <2>1, ScoringServes DEF CollectScores
  <2>4. Waits(p)
    BY <2>2, <2>3, ServedIsMember DEF Waits, Scoreable, InAssessment
  <2> QED BY <2>2, <2>3, <2>4, FailureWaits
<1> QED BY <1>1, <1>2

LEMMA AdvanceWaits ==
  ASSUME PerformanceInv, NEW c \in Calls, NEW p, Serves(c, p), Advance(c)
  PROVE  WaitOK(call[c])'
<1>1. PICK todo : todo = call[c].todo
  OBVIOUS
<1>2. InAssessment(p) /\ Measured(p) /\ Ahead(p) /\ p = call[c].p /\ p \in Participants
  BY DEF Serves, Carried, Job, Advance
<1>3. LeavesRows /\ Touches(p)
  BY AdvanceDoes DEF LeavesRows, Touches, Spared
<1>4. InAssessment(p)' /\ Measured(p)'
  BY <1>2, <1>3 DEF LeavesRows, InAssessment, NoStepYet, Measured
<1>5. CASE Picks(c, p)
  <2>1. PICK m \in Manual(p) :
          /\ ~Done(p, m) /\ \A k \in Manual(p) : k < m => Done(p, k)
          /\ call'[c].at = IF task[p][m].status = "PENDING" THEN "opening" ELSE "resolving"
          /\ call'[c].n = m /\ call'[c].p = p /\ call'[c].todo = todo
          /\ call'[c].seen[p] = instance[p].edition
          /\ \A q \in Participants \ {p} : call'[c].seen[q] = call[c].seen[q]
    BY <1>1, <1>5 DEF Picks
  <2>2. IsNext(p, m)
    <3>1. PICK n \in Manual(p) : IsNext(p, n)
      BY <1>2, <2>1 DEF Ahead, Done
    <3>2. ~Done(p, n) /\ \A k \in Manual(p) : k < n => Done(p, k)
      BY <3>1 DEF IsNext, IsOpen, AtModule, Done, NewTask
    <3>3. m \in Nat /\ n \in Nat
      BY <1>2, DefinitionFacts
    <3>4. ~(m < n) /\ ~(n < m)
      BY <2>1, <3>2
    <3>5. m = n
      BY <3>3, <3>4
    <3> QED BY <3>1, <3>5
  <2>3. IsNext(p, m)' /\ AtModule(p, m)'
    BY <1>3, <2>2 DEF LeavesRows, IsNext, IsOpen, AtModule
  <2>4. PICK at : at = call'[c].at
    OBVIOUS
  <2>5. CASE task[p][m].status = "PENDING"
    <3>1. at = "opening" /\ task'[p][m] = NewTask
      BY <1>3, <2>1, <2>2, <2>4, <2>5 DEF IsNext, IsOpen, LeavesRows
    <3>2. \A next : Job("opening", p, m, next, todo)'
      BY <1>4, <2>3, <3>1 DEF Job, Busy
    <3>3. Hands(c, "opening", p, m, call'[c].next, todo)
      BY <2>1, <2>4, <3>1 DEF Hands
    <3>4. PICK next : next = call'[c].next
      OBVIOUS
    <3> QED BY <1>1, <1>3, <3>2, <3>3, <3>4, JobGoesOn DEF Serves, LeavesRows, Undecided, Working
  <2>6. CASE task[p][m].status # "PENDING"
    <3>1. at = "resolving" /\ IsOpen(p, m)' /\ task'[p][m].scored = {}
      BY <1>3, <2>1, <2>2, <2>3, <2>4, <2>6 DEF IsNext, NewTask, LeavesRows
    <3>2. \A next : Job("resolving", p, m, next, todo)'
      BY <1>4, <2>3, <3>1 DEF Job, Busy
    <3>3. Hands(c, "resolving", p, m, call'[c].next, todo)
      BY <2>1, <2>4, <3>1 DEF Hands
    <3>4. PICK next : next = call'[c].next
      OBVIOUS
    <3> QED BY <1>1, <1>3, <3>2, <3>3, <3>4, JobGoesOn DEF Serves, LeavesRows, Undecided, Working
  <2> QED BY <2>5, <2>6
<1>6. CASE Goes(c, "finishing", call[c].n, call[c].next)
  <2>1. PICK n, next : n = call[c].n /\ next = call[c].next
    OBVIOUS
  <2>2. Job("finishing", p, n, next, todo)'
    BY <1>4 DEF Job, Busy
  <2>3. Hands(c, "finishing", p, n, next, todo)
    BY <1>1, <1>2, <1>6, <2>1, GoesHands
  <2> QED BY <1>1, <1>3, <2>2, <2>3, JobGoesOn DEF Serves, LeavesRows, Undecided, Working
<1>7. Member(p) /\ instance[p].assessment # "COMPLETED"
  BY <1>2, ServedIsMember DEF InAssessment
<1>8. ~(~AllDone(p) /\ \A k \in Manual(p) : Done(p, k))
  <2> SUFFICES ASSUME \A k \in Manual(p) : Done(p, k) PROVE AllDone(p)
    OBVIOUS
  <2>1. \A k \in Manual(p) : task[p][k].status = "COMPLETED"
    BY <1>2 DEF Ahead, IsNext, IsOpen, AtModule, Done, NewTask
  <2> QED BY <1>2, <2>1 DEF AllDone, Measured, Metric
<1> QED BY <1>2, <1>5, <1>6, <1>7, <1>8, AdvanceDoes

LEMMA OpenModuleWaits ==
  ASSUME PerformanceInv, NEW c \in Calls, NEW p, Serves(c, p), OpenModule(c)
  PROVE  WaitOK(call[c])'
<1>1. PICK m, next, todo : m = call[c].n /\ next = call[c].next /\ todo = call[c].todo
  OBVIOUS
<1>2. /\ InAssessment(p) /\ Measured(p) /\ AtModule(p, m) /\ task[p][m] = NewTask
      /\ p = call[c].p /\ p \in Participants
  BY <1>1 DEF Serves, Carried, Job, OpenModule
<1>3. /\ Touches(p) /\ UNCHANGED <<cycle, step>> /\ Goes(c, "resolving", m, next)
      /\ Turns(p, "IN_PROGRESS", "IN_PROGRESS", m, instance[p].step)
      /\ \A n \in Modules(p) \ {m} : task'[p][n] = task[p][n]
      /\ m \in Modules(p) =>
           task'[p][m].status = "IN_PROGRESS" /\ task'[p][m].scored = task[p][m].scored
  BY <1>1, <1>2, ServedIsMember, OpenModuleDoes DEF NewTask, Serves
<1>4. Manual(p) \subseteq Modules(p) /\ Modules(p) \subseteq Nat /\ m \in Manual(p)
  BY <1>2, DefinitionFacts DEF AtModule
<1>5. InAssessment(p)'
  BY <1>2, <1>3 DEF InAssessment, NoStepYet, Turns
<1>6. Measured(p)'
  BY <1>2, <1>3, <1>4 DEF Measured, Metric
<1>7. IsOpen(p, m)' /\ AtModule(p, m)' /\ task'[p][m].scored = {}
  BY <1>2, <1>3, <1>4 DEF IsOpen, AtModule, NewTask, Turns
<1>8. Job("resolving", p, m, next, todo)'
  BY <1>5, <1>6, <1>7 DEF Job, Busy
<1>9. Hands(c, "resolving", p, m, next, todo)
  BY <1>1, <1>2, <1>3, GoesHands
<1> QED BY <1>1, <1>3, <1>8, <1>9, JobGoesOn DEF Undecided, Working, Turns

LEMMA ResolveAssigneesWaits ==
  ASSUME PerformanceInv, NEW c \in Calls, NEW p, Serves(c, p), ResolveAssignees(c)
  PROVE  WaitOK(call[c])'
<1>1. PICK m : m = call[c].n
  OBVIOUS
<1>2. /\ InAssessment(p) /\ Measured(p) /\ AtModule(p, m) /\ IsOpen(p, m)
      /\ task[p][m].scored = {} /\ p = call[c].p /\ p \in Participants
  BY <1>1 DEF Serves, Carried, Job, ResolveAssignees
<1>3. /\ Touches(p) /\ UNCHANGED <<cycle, instance, step>> /\ GoesOnTo(c)
      /\ \A n \in Modules(p) \ {m} : task'[p][n] = task[p][n]
      /\ m \in Modules(p) => /\ task'[p][m].status = task[p][m].status
                             /\ task'[p][m].scored = task[p][m].scored
                             /\ task'[p][m].assigned
  BY <1>1, <1>2, ServedIsMember, ResolveAssigneesDoes
<1>4. Manual(p) \subseteq Modules(p) /\ Modules(p) \subseteq Nat /\ m \in Manual(p)
  BY <1>2, DefinitionFacts DEF AtModule
<1>5. InAssessment(p)' /\ Measured(p)'
  BY <1>2, <1>3, <1>4 DEF InAssessment, NoStepYet, Measured, Metric
<1>6. IsOpen(p, m)' /\ instance[p].module = m
  BY <1>2, <1>3, <1>4 DEF IsOpen, AtModule
<1>7. Scoreable(p)'
  BY <1>3, <1>4, <1>5, <1>6 DEF Scoreable
<1>8. Scorers(p, m) # {}
  BY <1>2, <1>4, ManualHasScorers
<1>9. Waits(p)'
  BY <1>2, <1>3, <1>4, <1>6, <1>7, <1>8 DEF Waits, InAssessment
<1> QED BY <1>3, <1>9, JobEnds DEF Serves

LEMMA FinishAssessmentWaits ==
  ASSUME PerformanceInv, NEW c \in Calls, NEW p, Serves(c, p), FinishAssessment(c)
  PROVE  WaitOK(call[c])'
<1>1. PICK todo : todo = call[c].todo
  OBVIOUS
<1>2. InAssessment(p) /\ p = call[c].p /\ p \in Participants
  BY DEF Serves, Carried, Job, FinishAssessment
<1>3. /\ Touches(p) /\ UNCHANGED <<task, step>>
      /\ IF Steps(p) = {}
         THEN Turns(p, "COMPLETED", "COMPLETED", 0, instance[p].step) /\ GoesOnTo(c)
         ELSE /\ Turns(p, "IN_PROGRESS", "COMPLETED", 0, instance[p].step)
              /\ Goes(c, "stepping", 1, 1)
  BY <1>2, ServedIsMember, FinishAssessmentDoes
<1>4. CASE Steps(p) = {}
  BY <1>3, <1>4, JobEnds DEF Turns
<1>5. CASE Steps(p) # {}
  <2>1. 1 \in Steps(p)
    <3>1. PICK s \in Seq(StepDefinition) : s = Template[p].steps
      BY <1>2, PerformanceAssumption
    <3>2. DOMAIN s = 1 .. Len(s) /\ Len(s) \in Nat
      BY <3>1
    <3> QED BY <1>5, <3>1, <3>2 DEF Steps
  <2>2. NoneFrom(p, 1)' /\ instance'[p].assessment = "COMPLETED"
    BY <1>2, <1>3, <1>5 DEF InAssessment, NoStepYet, NoneFrom, Turns
  <2>3. Job("stepping", p, 1, 1, todo)'
    BY <2>1, <2>2 DEF Job, Busy
  <2>4. Hands(c, "stepping", p, 1, 1, todo)
    BY <1>1, <1>2, <1>3, <1>5, GoesHands
  <2> QED BY <1>1, <1>3, <1>5, <2>3, <2>4, JobGoesOn DEF Undecided, Working, Turns
<1> QED BY <1>4, <1>5

LEMMA FirstAttempt ==
  ASSUME NEW p \in Participants, NEW s \in Steps(p)
  PROVE  <<s, 1>> \in Attempts(p)
<1>1. 1 \in 1 .. MaxAttempts
  BY PerformanceAssumption
<1> QED BY <1>1 DEF Attempts

\* Opening a step fails, or finds it open, only after a return.
LEMMA ReadStepWaits ==
  ASSUME PerformanceInv, NEW c \in Calls, NEW p, Serves(c, p), ReadStep(c)
  PROVE  WaitOK(call[c])'
<1>1. PICK s, next, todo : s = call[c].n /\ next = call[c].next /\ todo = call[c].todo
  OBVIOUS
<1>2. /\ instance[p].assessment = "COMPLETED" /\ p = call[c].p /\ p \in Participants
      /\ \/ Returned(p) /\ todo = {}
         \/ s \in Steps(p) /\ next = 1 /\ NoneFrom(p, s)
  BY <1>1 DEF Serves, Carried, Job, ReadStep
<1>3. LeavesRows /\ Touches(p) /\ Spared(p)
  BY ReadStepDoes DEF LeavesRows, Touches, Spared
<1>4. CASE GoesOnTo(c) /\ (next # 0 => step[p][<<s, next>>].status = "IN_PROGRESS")
  <2>1. Returned(p) /\ todo = {}
    <3> SUFFICES ASSUME s \in Steps(p), next = 1, NoneFrom(p, s) PROVE FALSE
      BY <1>2
    <3>1. <<s, 1>> \in Attempts(p) /\ s \in Nat
      BY <1>2, FirstAttempt, DefinitionFacts
    <3>2. step[p][<<s, 1>>].status = "ABSENT"
      BY <3>1 DEF NoneFrom
    <3> QED BY <1>4, <3>2
  <2>2. Waits(p)'
    BY <1>2, <1>3, <2>1, Sparing DEF Waits
  <2> QED BY <1>3, <1>4, <2>2, JobEnds DEF Serves, Spared
<1>5. ASSUME NEW a \in Nat, next # 0 => a = next, Goes(c, "creating", s, a)
      PROVE  WaitOK(call[c])'
  <2>1. Job("creating", p, s, a, todo)'
    BY <1>2, <1>3, <1>5 DEF Job, Busy, Spared, Returned, NoneFrom
  <2>2. Hands(c, "creating", p, s, a, todo)
    BY <1>1, <1>2, <1>5, GoesHands
  <2> QED BY <1>1, <1>3, <2>1, <2>2, JobGoesOn DEF Serves, Spared, Undecided, Working
<1> QED BY <1>1, <1>2, <1>4, <1>5, ReadStepDoes, ServedIsMember

LEMMA CreateStepWaits ==
  ASSUME PerformanceInv, NEW c \in Calls, NEW p, Serves(c, p), CreateStep(c)
  PROVE  WaitOK(call[c])'
<1>1. PICK s, a, todo : s = call[c].n /\ a = call[c].next /\ todo = call[c].todo
  OBVIOUS
<1>2. /\ instance[p].assessment = "COMPLETED" /\ p = call[c].p /\ p \in Participants
      /\ \/ Returned(p) /\ todo = {}
         \/ s \in Steps(p) /\ a = 1 /\ NoneFrom(p, s)
  BY <1>1 DEF Serves, Carried, Job, CreateStep
<1>3. s \in Steps(p) => s \in Nat /\ <<s, 1>> \in Attempts(p)
  BY <1>2, FirstAttempt, DefinitionFacts
<1>4. CASE Fails(c) /\ step[p][<<s, a>>].status # "ABSENT"
  <2>1. Returned(p) /\ todo = {}
    BY <1>2, <1>3, <1>4 DEF NoneFrom
  <2>2. Waits(p)
    BY <1>2, <2>1 DEF Waits
  <2> QED BY <1>1, <1>4, <2>1, <2>2, FailureWaits
<1>5. CASE ~(Fails(c) /\ step[p][<<s, a>>].status # "ABSENT")
  <2>1. /\ step[p][<<s, a>>].status = "ABSENT"
        /\ Touches(p) /\ UNCHANGED <<cycle, task>> /\ Writes(p, <<s, a>>, "IN_PROGRESS")
        /\ Turns(p, "IN_PROGRESS", "COMPLETED", instance[p].module, s) /\ GoesOnTo(c)
    BY <1>1, <1>2, <1>5, CreateStepDoes, ServedIsMember
  <2>2. Returned(p) => Returned(p)'
    BY <2>1 DEF Returned, Writes
  <2>3. ASSUME s \in Steps(p), a = 1, NoneFrom(p, s)
        PROVE  step'[p][<<s, 1>>].status = "IN_PROGRESS" /\ NoneFrom(p, s + 1)'
    <3>1. step'[p][<<s, 1>>].status = "IN_PROGRESS"
      BY <1>3, <2>1, <2>3 DEF Writes
    <3>2. ASSUME NEW sa \in Attempts(p), s + 1 <= sa[1]
          PROVE  step'[p][sa].status = "ABSENT"
      <4>1. sa[1] \in Nat
        BY <1>2, DefinitionFacts DEF Attempts
      <4>2. s <= sa[1] /\ sa # <<s, a>>
        BY <1>3, <2>3, <3>2, <4>1
      <4> QED BY <2>1, <2>3, <4>2 DEF NoneFrom, Writes
    <3> QED BY <3>1, <3>2 DEF NoneFrom
  <2>4. Waits(p)'
    BY <1>2, <2>1, <2>2, <2>3 DEF Waits, Turns
  <2> QED BY <2>1, <2>4, JobEnds DEF Turns
<1> QED BY <1>4, <1>5

\* What a call of a reviewer relies on
LEMMA ReviewingServes ==
  ASSUME PerformanceInv, NEW c \in Calls, NEW p, Serves(c, p), OnTrack(p), Reviewing(call[c]),
         call[c].at \in {"acting", "acted"}
  PROVE  /\ p = call[c].p /\ p \in Participants /\ call[c].todo = {}
         /\ call[c].n \in Steps(p) /\ <<call[c].n, call[c].next>> \in Attempts(p)
         /\ Member(p) /\ instance[p].step = call[c].n /\ instance[p].assessment = "COMPLETED"
         /\ step[p][<<call[c].n, call[c].next>>].status = "IN_PROGRESS"
         /\ Waits(p)
<1>1. p = call[c].p /\ p \in Participants /\ call[c].todo = {}
  BY DEF Serves, Carried, Job, Busy
<1>2. /\ call[c].n \in Steps(p) /\ <<call[c].n, call[c].next>> \in Attempts(p)
      /\ Member(p) /\ instance[p].step = call[c].n
      /\ step[p][<<call[c].n, call[c].next>>].status = "IN_PROGRESS"
  BY <1>1 DEF Reviewing, PerformanceInv, CallsOK, Grounded
<1>3. instance[p].assessment = "COMPLETED"
  BY <1>1, <1>2, StepsAndModules DEF OnTrack
<1>4. Pending(call[c]) = {}
  BY DEF Pending, Undecided
<1> QED BY <1>1, <1>2, <1>3, <1>4 DEF Serves, Attended

LEMMA CommitActionWaits ==
  ASSUME PerformanceInv, NEW c \in Calls, NEW p, Serves(c, p), OnTrack(p), Reviewing(call[c]),
         CommitAction(c)
  PROVE  WaitOK(call[c])'
<1>1. PICK s, next, sa : s = call[c].n /\ next = call[c].next /\ sa = <<s, next>>
  OBVIOUS
<1>2. /\ p = call[c].p /\ p \in Participants /\ call[c].todo = {} /\ sa \in Attempts(p)
      /\ s \in Steps(p) /\ instance[p].assessment = "COMPLETED" /\ Waits(p)
  BY <1>1, ReviewingServes DEF CommitAction
<1>3. CASE Fails(c)
  BY <1>2, <1>3, FailureWaits
<1>4. CASE ~Fails(c)
  <2>1. /\ Touches(p) /\ UNCHANGED <<cycle, instance, task>> /\ Goes(c, "acted", s, next)
        /\ \A ta \in Attempts(p) \ {sa} : step'[p][ta] = step[p][ta]
        /\ step'[p][sa].status = step[p][sa].status
    BY <1>1, <1>2, <1>4, CommitActionDoes
  <2>2. \A ta \in Attempts(p) : step'[p][ta].status = step[p][ta].status
    BY <2>1
  <2>3. Waits(p)'
    <3>1. Returned(p) => Returned(p)'
      BY <2>2 DEF Returned
    <3>2. CASE ~Returned(p)
      <4>1. instance[p].step \in Steps(p) /\ <<instance[p].step, 1>> \in Attempts(p)
        BY <1>2, <3>2, FirstAttempt DEF Waits
      <4>2. NoneFrom(p, instance[p].step + 1)'
        BY <1>2, <2>1, <2>2, <3>2 DEF Waits, NoneFrom
      <4> QED BY <1>2, <2>1, <2>2, <3>2, <4>1, <4>2 DEF Waits
    <3> QED BY <1>2, <2>1, <3>1, <3>2 DEF Waits
  <2>4. Job("acted", p, s, next, {})'
    BY DEF Job
  <2>5. Hands(c, "acted", p, s, next, {})
    BY <1>2, <2>1, GoesHands
  <2> QED BY <1>2, <2>1, <2>3, <2>4, <2>5, JobGoesOn DEF Serves, Working
<1> QED BY <1>3, <1>4

LEMMA CollectApprovalsWaits ==
  ASSUME PerformanceInv, NEW c \in Calls, NEW p, Serves(c, p), OnTrack(p), Reviewing(call[c]),
         CollectApprovals(c)
  PROVE  WaitOK(call[c])'
<1>1. PICK s, next, sa : s = call[c].n /\ next = call[c].next /\ sa = <<s, next>>
  OBVIOUS
<1>2. call[c].at = "acted" /\ (Fails(c) \/ CompleteStep(c))
  BY CollectApprovalsDoes
<1>3. /\ p = call[c].p /\ p \in Participants /\ call[c].todo = {} /\ sa \in Attempts(p)
      /\ s \in Steps(p) /\ Member(p) /\ instance[p].step = s
      /\ step[p][sa].status = "IN_PROGRESS"
      /\ instance[p].assessment = "COMPLETED" /\ Waits(p)
  BY <1>1, <1>2, ReviewingServes
<1>4. CASE Fails(c)
  BY <1>3, <1>4, FailureWaits
<1>5. CASE ~Fails(c)
  <2>1. /\ Touches(p) /\ UNCHANGED task /\ Writes(p, sa, "COMPLETED")
        /\ IF s = Len(Template[p].steps)
           THEN /\ Turns(p, "COMPLETED", "COMPLETED", instance[p].module, 0)
                /\ call'[c] = Idle
           ELSE /\ Turns(p, "IN_PROGRESS", "COMPLETED", instance[p].module, s + 1)
                /\ Goes(c, "stepping", s + 1, 1)
    BY <1>1, <1>2, <1>3, <1>5, CompleteStepDoes
  <2>2. CASE s = Len(Template[p].steps)
    BY <1>3, <2>1, <2>2, JobEnds DEF Turns
  <2>3. CASE s # Len(Template[p].steps)
    <3>1. s + 1 \in Steps(p)
      <4>1. PICK t \in Seq(StepDefinition) : t = Template[p].steps
        BY <1>3, PerformanceAssumption
      <4>2. DOMAIN t = 1 .. Len(t) /\ Len(t) \in Nat
        BY <4>1
      <4> QED BY <1>3, <2>3, <4>1, <4>2 DEF Steps
    <3>2. Returned(p) => Returned(p)'
      BY <1>3, <2>1 DEF Returned, Writes
    <3>3. ASSUME ~Returned(p) PROVE NoneFrom(p, s + 1)'
      <4>1. NoneFrom(p, s + 1)
        BY <1>3, <3>3 DEF Waits
      <4>2. ASSUME NEW ta \in Attempts(p), s + 1 <= ta[1] PROVE ta # sa
        <5>1. s \in Nat
          BY <1>3, DefinitionFacts
        <5> QED BY <1>1, <4>2, <5>1
      <4> QED BY <2>1, <4>1, <4>2 DEF NoneFrom, Writes
    <3>4. Job("stepping", p, s + 1, 1, {})'
      BY <2>1, <2>3, <3>1, <3>2, <3>3 DEF Job, Turns
    <3>5. Hands(c, "stepping", p, s + 1, 1, {})
      BY <1>3, <2>1, <2>3, GoesHands
    <3> QED BY <1>3, <2>1, <2>3, <3>4, <3>5, JobGoesOn DEF Undecided, Working, Turns
  <2> QED BY <2>2, <2>3
<1> QED BY <1>4, <1>5

LEMMA RejectStepWaits ==
  ASSUME PerformanceInv, NEW c \in Calls, NEW p, Serves(c, p), OnTrack(p), Reviewing(call[c]),
         RejectStep(c)
  PROVE  WaitOK(call[c])'
<1>1. PICK s, next, sa, target :
        /\ s = call[c].n /\ next = call[c].next /\ sa = <<s, next>>
        /\ target = Template[p].steps[s].target
  OBVIOUS
<1>2. call[c].at = "acted"
  BY DEF RejectStep
<1>3. /\ p = call[c].p /\ p \in Participants /\ call[c].todo = {} /\ sa \in Attempts(p)
      /\ s \in Steps(p) /\ Member(p) /\ instance[p].step = s
      /\ instance[p].assessment = "COMPLETED"
  BY <1>1, <1>2, ReviewingServes
<1>4. /\ Touches(p) /\ UNCHANGED <<cycle, task>> /\ Writes(p, sa, "CANCELLED")
      /\ IF target = 0
         THEN /\ Turns(p, "REJECTED", "COMPLETED", instance[p].module, 0)
              /\ call'[c] = Idle
         ELSE /\ Turns(p, "IN_PROGRESS", "COMPLETED", instance[p].module, target)
              /\ Goes(c, "stepping", target, 0)
  BY <1>1, <1>3, RejectStepDoes
<1>5. CASE target = 0
  BY <1>3, <1>4, <1>5, JobEnds DEF Turns
<1>6. CASE target # 0
  <2>1. Returned(p)'
    BY <1>3, <1>4 DEF Returned, Writes
  <2>2. Job("stepping", p, target, 0, {})'
    BY <1>4, <1>6, <2>1 DEF Job, Turns
  <2>3. Hands(c, "stepping", p, target, 0, {})
    BY <1>3, <1>4, <1>6, GoesHands
  <2> QED BY <1>3, <1>4, <1>6, <2>2, <2>3, JobGoesOn DEF Undecided, Working, Turns
<1> QED BY <1>5, <1>6

\* The participants of a call that has not begun to work for one, and of no call
LEMMA NothingPending ==
  ASSUME NEW c \in Calls, call[c].at \notin Working \cup {"measuring"}
  PROVE  Pending(call[c]) = {}
  BY DEF Pending, Working, Undecided

LEMMA IdleWaits ==
  /\ Carried(Idle) /\ Pending(Idle) = {}
<1>1. Idle.at = "idle"
  BY IdleType
<1>2. Job(Idle.at, Idle.p, Idle.n, Idle.next, Idle.todo)
  BY <1>1 DEF Job, Busy
<1>3. TodoReady(Idle) /\ UpToDate(Idle) /\ Pending(Idle) = {}
  BY <1>1 DEF TodoReady, UpToDate, Pending, Undecided
<1> QED BY <1>2, <1>3 DEF Carried

LEMMA EndWaits ==
  ASSUME NEW c \in Calls, call'[c] = Idle, \A q \in Participants : Attended(call[c], q)'
  PROVE  WaitOK(call[c])'
  BY IdleCarries DEF WaitOK

LEMMA FailedRequestWaits ==
  ASSUME NEW c \in Calls, Fails(c), Pending(call[c]) = {},
         \A q \in Participants : Attended(call[c], q)
  PROVE  WaitOK(call[c])'
<1>1. ASSUME NEW q \in Participants PROVE Attended(call[c], q)'
  <2>1. Spared(q) /\ cycle' = cycle
    BY DEF Fails, LeavesRows, Spared
  <2> QED BY <2>1, OtherAttended
<1> QED BY <1>1, EndWaits DEF Fails

LEMMA StartWaits ==
  ASSUME PerformanceInv, NEW c \in Calls, AllOnTrack, Steady(call[c]), UpToDate(call[c]),
         \A q \in Participants : Attended(call[c], q), Start(c)
  PROVE  WaitOK(call[c])'
<1>1. PICK todo : todo = call[c].todo
  OBVIOUS
<1>2. /\ call[c].at = "starting" /\ cycle.status = "DRAFT"
      /\ todo = {p \in Members : instance[p].status # "CANCELLED"}
  BY <1>1 DEF Start, Steady
<1>3. CASE Fails(c)
  BY <1>2, <1>3, NothingPending, FailedRequestWaits DEF Working
<1>4. CASE ~Fails(c)
  <2>1. /\ UNCHANGED <<step, disturbed>> /\ Goes(c, "measuring", call[c].n, call[c].next)
        /\ \A p \in Participants \ todo : Spared(p)
        /\ \A p \in todo :
             /\ Turns(p, "IN_PROGRESS", "IN_PROGRESS", FirstOrNull(Manual(p)), instance[p].step)
             /\ IF Manual(p) = {} THEN task'[p] = task[p]
                ELSE /\ \A m \in Modules(p) \ {First(Manual(p))} : task'[p][m] = task[p][m]
                     /\ LET m == First(Manual(p))
                        IN  /\ task'[p][m].status = "IN_PROGRESS"
                            /\ task'[p][m].scored = task[p][m].scored
    BY <1>1, <1>4, StartDoes
  <2>2. call'[c].at = "measuring" /\ call'[c].todo = todo /\ call'[c].seen = call[c].seen
    BY <1>1, <2>1 DEF Goes
  <2>3. ASSUME NEW p \in todo PROVE InAssessment(p)' /\ Ahead(p)'
    <3>1. p \in Participants /\ Fresh(p)
      BY <1>2 DEF AllOnTrack, OnTrack, Members, Attended
    <3>2. InAssessment(p)'
      BY <2>1, <3>1 DEF InAssessment, NoStepYet, Fresh, Turns
    <3>3. Ahead(p)'
      <4>1. CASE Manual(p) = {}
        BY <4>1 DEF Ahead
      <4>2. CASE Manual(p) # {}
        <5>1. PICK m : m = First(Manual(p))
          OBVIOUS
        <5>2. Manual(p) \subseteq Modules(p) /\ Modules(p) \subseteq Nat
          BY <3>1, DefinitionFacts
        <5>3. m \in Manual(p) /\ \A k \in Manual(p) : m <= k
          BY <4>2, <5>1, <5>2, FirstIsIn
        <5>4. /\ \A k \in Modules(p) \ {m} : task'[p][k] = task[p][k]
              /\ task'[p][m].status = "IN_PROGRESS" /\ task'[p][m].scored = task[p][m].scored
              /\ instance'[p].module = m
          BY <2>1, <4>2, <5>1 DEF Turns, FirstOrNull
        <5>5. AtModule(p, m)'
          BY <3>1, <5>2, <5>3, <5>4 DEF AtModule, Fresh
        <5>6. task'[p][m].scored = {}
          BY <3>1, <5>2, <5>3, <5>4 DEF Fresh, NewTask
        <5> QED BY <5>3, <5>4, <5>5, <5>6 DEF Ahead, IsNext, IsOpen
      <4> QED BY <4>1, <4>2
    <3> QED BY <3>2, <3>3
  <2>4. TodoReady(call[c])'
    BY <2>2, <2>3 DEF TodoReady
  <2>5. UpToDate(call[c])'
    <3>1. ASSUME NEW p \in Participants PROVE call'[c].seen[p] = instance'[p].edition
      <4>1. instance'[p].edition = instance[p].edition
        BY <2>1 DEF Turns, Spared
      <4> QED BY <1>2, <2>2, <4>1 DEF UpToDate
    <3> QED BY <2>2, <3>1 DEF UpToDate
  <2>6. Job(call[c].at, call[c].p, call[c].n, call[c].next, call[c].todo)'
    BY <2>2 DEF Job, Busy
  <2>7. ASSUME NEW p \in Participants PROVE Attended(call[c], p)'
    <3>1. CASE p \in todo
      BY <2>1, <2>2, <3>1 DEF Attended, Pending, Turns
    <3>2. CASE p \notin todo
      <4>1. instance[p].status \in {"ABSENT", "REMOVED", "CANCELLED"}
        BY <1>2, <3>2 DEF Members, Member
      <4>2. Spared(p) /\ instance'[p] = instance[p]
        BY <2>1, <3>2 DEF Spared
      <4> QED BY <4>1, <4>2, Sparing DEF Attended
    <3> QED BY <3>1, <3>2
  <2> QED BY <2>4, <2>5, <2>6, <2>7 DEF WaitOK, Carried
<1> QED BY <1>3, <1>4

LEMMA MeasureWaits ==
  ASSUME PerformanceInv, NEW c \in Calls, AllOnTrack, Steady(call[c]), Carried(call[c]),
         \A q \in Participants : Attended(call[c], q), Measure(c)
  PROVE  WaitOK(call[c])'
<1>1. PICK todo : todo = call[c].todo
  OBVIOUS
<1>2. call[c].at = "measuring" /\ todo \subseteq Participants /\ Pending(call[c]) = todo
  BY <1>1 DEF Measure, PerformanceInv, CallsOK, CallRecord, Pending, Undecided
<1>3. \A p \in todo : Known(c, p) /\ instance[p].status = "IN_PROGRESS"
  <2>1. \A p \in todo : instance[p].status = "IN_PROGRESS"
    BY <1>1, <1>2 DEF Steady, InHands
  <2>2. \A p \in todo : call[c].seen[p] = instance[p].edition
    BY <1>2 DEF Carried, UpToDate
  <2> QED BY <2>1, <2>2 DEF Known, Member
<1>4. \A p \in todo : InAssessment(p) /\ Ahead(p)
  BY <1>1, <1>2 DEF Carried, TodoReady
<1>5. PICK p \in todo :
        /\ Touches(p) /\ UNCHANGED <<cycle, instance, step>>
        /\ \A m \in Manual(p) : task'[p][m] = task[p][m]
        /\ \A m \in Metric(p) : task'[p][m].status = "COMPLETED"
        /\ Names(c, "advancing", p, todo \ {p}) /\ call'[c].seen = call[c].seen
  BY <1>1, <1>3, MeasureDoes
<1>6. call'[c].at = "advancing" /\ call'[c].p = p /\ call'[c].todo = todo \ {p}
  BY <1>5 DEF Names
<1>7. InAssessment(p)' /\ Measured(p)' /\ Ahead(p)'
  <2>1. InAssessment(p)' /\ Measured(p)'
    BY <1>4, <1>5 DEF InAssessment, NoStepYet, Measured
  <2>2. Ahead(p)'
    BY <1>4, <1>5 DEF Ahead, IsNext, IsOpen, AtModule
  <2> QED BY <2>1, <2>2
<1>8. Job(call[c].at, call[c].p, call[c].n, call[c].next, call[c].todo)'
  BY <1>6, <1>7 DEF Job, Busy
<1>9. TodoReady(call[c])'
  <2>1. ASSUME NEW q \in todo \ {p} PROVE InAssessment(q)' /\ Ahead(q)'
    BY <1>2, <1>4, <1>5, Sparing DEF Touches
  <2> QED BY <1>6, <2>1 DEF TodoReady
<1>10. UpToDate(call[c])'
  BY <1>2, <1>5, <1>6 DEF UpToDate, Carried
<1>11. ASSUME NEW q \in Participants PROVE Attended(call[c], q)'
  <2>1. Pending(call[c])' = todo
    BY <1>6 DEF Pending, Undecided
  <2>2. CASE q = p
    BY <1>3, <1>5, <2>1, <2>2 DEF Attended
  <2>3. CASE q # p
    BY <1>2, <1>5, <2>1, <2>3, OtherAttended DEF Touches
  <2> QED BY <2>2, <2>3
<1> QED BY <1>8, <1>9, <1>10, <1>11 DEF WaitOK, Carried

LEMMA AddWaits ==
  ASSUME PerformanceInv, NEW c \in Calls, AllOnTrack, Steady(call[c]), UpToDate(call[c]),
         \A q \in Participants : Attended(call[c], q), Add(c)
  PROVE  WaitOK(call[c])'
<1>1. PICK p : p = call[c].p
  OBVIOUS
<1>2. /\ p \in Participants /\ call[c].at = "adding" /\ Pending(call[c]) = {}
      /\ call[c].read = cycle.status /\ call[c].read \in {"DRAFT", "IN_PROGRESS"}
  BY <1>1, ActsOn, NothingPending DEF Add, Roaming, Working, UpToDate
<1>3. CASE Fails(c)
  BY <1>2, <1>3, FailedRequestWaits
<1>4. CASE ~Fails(c)
  <2>1. /\ instance[p].status = "ABSENT"
        /\ Touches(p) /\ UNCHANGED <<cycle, task, step>>
        /\ IF call[c].read = "IN_PROGRESS"
           THEN /\ Turns(p, "IN_PROGRESS", "IN_PROGRESS", FirstOrNull(Manual(p)), instance[p].step)
                /\ call'[c].at = "measuring" /\ call'[c].todo = {p}
                /\ call'[c].seen = call[c].seen
           ELSE /\ Turns(p, "DRAFT", instance[p].assessment, instance[p].module, instance[p].step)
                /\ call'[c] = Idle
    BY <1>1, <1>4, AddDoes
  <2>2. ASSUME NEW q \in Participants, q # p PROVE Attended(call[c], q)'
    BY <1>2, <2>1, <2>2, OtherAttended DEF Touches
  <2>3. Fresh(p) /\ Fresh(p)'
    BY <1>2, <2>1 DEF Attended, Fresh, NoStepYet
  <2>4. CASE call[c].read # "IN_PROGRESS"
    <3>1. Attended(call[c], p)'
      BY <1>2, <2>1, <2>3, <2>4 DEF Attended, Turns
    <3> QED BY <2>1, <2>2, <2>4, <3>1, EndWaits
  <2>5. CASE call[c].read = "IN_PROGRESS"
    <3>1. InAssessment(p)'
      BY <2>1, <2>3, <2>5 DEF InAssessment, Fresh, Turns
    <3>2. Ahead(p)'
      <4>1. CASE Manual(p) = {}
        BY <4>1 DEF Ahead
      <4>2. CASE Manual(p) # {}
        <5>1. Manual(p) \subseteq Modules(p) /\ Modules(p) \subseteq Nat
          BY <1>2, DefinitionFacts
        <5>2. PICK m \in Manual(p) : \A k \in Manual(p) : m <= k
          BY <4>2, <5>1, FirstIsIn
        <5>3. AtModule(p, m)' /\ task'[p][m] = NewTask
          BY <2>3, <5>1, <5>2 DEF AtModule, Fresh
        <5> QED BY <5>2, <5>3 DEF Ahead, IsNext
      <4> QED BY <4>1, <4>2
    <3>3. TodoReady(call[c])'
      BY <2>1, <2>5, <3>1, <3>2 DEF TodoReady
    <3>4. UpToDate(call[c])'
      <4>1. \A q \in Participants : instance'[q].edition = instance[q].edition
        BY <2>1, <2>5 DEF Touches, Spared, Turns
      <4> QED BY <1>2, <2>1, <2>5, <4>1 DEF UpToDate
    <3>5. Job(call[c].at, call[c].p, call[c].n, call[c].next, call[c].todo)'
      BY <2>1, <2>5 DEF Job, Busy
    <3>6. Attended(call[c], p)'
      BY <2>1, <2>5 DEF Attended, Pending, Turns
    <3> QED BY <2>2, <3>3, <3>4, <3>5, <3>6 DEF WaitOK, Carried
  <2> QED BY <2>4, <2>5
<1> QED BY <1>3, <1>4

LEMMA UpdateTemplateWaits ==
  ASSUME PerformanceInv, NEW c \in Calls, AllOnTrack, UpToDate(call[c]),
         \A q \in Participants : Attended(call[c], q), UpdateTemplate(c), disturbed' = {}
  PROVE  WaitOK(call[c])'
<1>1. PICK p : p = call[c].p
  OBVIOUS
<1>2. /\ p \in Participants /\ call[c].at = "templating" /\ Pending(call[c]) = {}
      /\ call[c].read = cycle.status
  BY <1>1, ActsOn, NothingPending DEF UpdateTemplate, Roaming, Working, UpToDate
<1>3. call'[c] = Idle
  BY UpdateTemplateDoes
<1>4. CASE LeavesRows
  BY <1>2, <1>3, <1>4, FailedRequestWaits DEF Fails
<1>5. CASE ~LeavesRows
  <2>1. /\ UNCHANGED <<cycle, step>> /\ \A q \in Participants \ {p} : Spared(q)
        /\ task'[p] = NewTasks(p) /\ instance'[p].status = instance[p].status
        /\ call[c].read # "IN_PROGRESS"
    BY <1>1, <1>5, UpdateTemplateDoes
  <2>2. instance[p].status # "IN_PROGRESS"
    BY <1>2, <2>1 DEF AllOnTrack, OnTrack
  <2>3. NoStepYet(p) => Fresh(p)'
    BY <2>1 DEF Fresh, NoStepYet, NewTasks
  <2>4. Attended(call[c], p)'
    BY <1>2, <2>1, <2>2, <2>3 DEF Attended, Fresh
  <2>5. ASSUME NEW q \in Participants, q # p PROVE Attended(call[c], q)'
    BY <1>2, <2>1, <2>5, OtherAttended
  <2> QED BY <1>3, <2>4, <2>5, EndWaits
<1> QED BY <1>4, <1>5

LEMMA ArchiveWaits ==
  ASSUME PerformanceInv, NEW c \in Calls, AllOnTrack, Steady(call[c]),
         \A q \in Participants : Attended(call[c], q), Archive(c)
  PROVE  WaitOK(call[c])'
<1>1. call[c].at = "archiving" /\ cycle.status = call[c].read /\ Pending(call[c]) = {}
  BY NothingPending DEF Archive, Steady, Working
<1>2. CASE call[c].read # "IN_PROGRESS"
  <2>1. cycle'.status = cycle.status /\ UNCHANGED <<instance, task, step>>
    BY <1>1, <1>2, ArchiveDoes
  <2>2. ASSUME NEW q \in Participants PROVE Attended(call[c], q)'
    <3>1. Spared(q)
      BY <2>1 DEF Spared
    <3> QED BY <1>1, <2>1, <3>1, Sparing DEF Attended
  <2> QED BY <2>2, ArchiveDoes, EndWaits
<1>3. CASE call[c].read = "IN_PROGRESS"
  <2>1. ASSUME NEW q \in Participants PROVE Attended(call[c], q)'
    <3>1. IF Member(q)
          THEN IF instance[q].status = "IN_PROGRESS" THEN Closed(q)
               ELSE instance'[q] = instance[q]
          ELSE Spared(q)
      BY <1>3, ArchiveDoes
    <3>2. instance[q].status # "DRAFT"
      BY <1>1, <1>3 DEF Attended
    <3>3. CASE ~Member(q)
      <4>1. Spared(q) /\ instance'[q] = instance[q]
        BY <3>1, <3>3 DEF Spared
      <4> QED BY <3>3, <4>1, Sparing DEF Attended, Member
    <3>4. CASE Member(q)
      BY <3>1, <3>2, <3>4 DEF Attended, Closed, Member
    <3> QED BY <3>3, <3>4
  <2> QED BY <2>1, ArchiveDoes, EndWaits
<1> QED BY <1>2, <1>3

LEMMA RequestWaits ==
  ASSUME PerformanceInv, NEW c \in Calls, disturbed' = {}, AllOnTrack,
         \A q \in Participants : Attended(Idle, q), Request(c)
  PROVE  WaitOK(call[c])'
<1>1. /\ Asks(c) /\ (AsksToScore(c) \/ AsksToReview(c) \/ AsksToManage(c))
      /\ UNCHANGED <<cycle, instance, task, step>>
      /\ \A q \in Participants : call'[c].seen[q] = instance'[q].edition
  BY RequestDoes DEF Asks
<1>2. ASSUME call'[c].at \notin Undecided \cup {"measuring"},
             Job(call[c].at, call[c].p, call[c].n, call[c].next, call[c].todo)',
             call'[c].at \in {"adding", "templating"} => call'[c].read = cycle.status,
             call'[c].at = "adding" => call'[c].read \in {"DRAFT", "IN_PROGRESS"}
      PROVE  WaitOK(call[c])'
  <2>1. Carried(call[c])'
    BY <1>1, <1>2 DEF Carried, TodoReady, UpToDate
  <2>2. ASSUME NEW q \in Participants PROVE Attended(call[c], q)'
    <3>1. Spared(q)
      BY <1>1 DEF Spared
    <3>2. q \notin Pending(Idle)
      BY IdleWaits
    <3> QED BY <1>1, <3>1, <3>2, Sparing DEF Attended
  <2> QED BY <2>1, <2>2 DEF WaitOK
<1>3. CASE AsksToScore(c)
  <2>1. PICK p \in Participants, at \in {"scoring", "skipping"} :
          \E m \in Modules(p) :
            /\ Names(c, at, p, {}) /\ call'[c].n = m /\ call'[c].next = NextTask(p, m)
            /\ Member(p) /\ task[p][m].assigned /\ task[p][m].status = "IN_PROGRESS"
            /\ instance[p].module = m /\ instance[p].assessment # "COMPLETED"
    BY <1>3 DEF AsksToScore
  <2>2. PICK m \in Modules(p) :
          /\ Names(c, at, p, {}) /\ call'[c].n = m /\ call'[c].next = NextTask(p, m)
          /\ Member(p) /\ task[p][m].assigned /\ task[p][m].status = "IN_PROGRESS"
          /\ instance[p].module = m /\ instance[p].assessment # "COMPLETED"
    BY <2>1
  <2>3. instance[p].status = "IN_PROGRESS"
    BY <2>2 DEF AllOnTrack, OnTrack, Member
  <2>4. Scoreable(p) /\ IsOpen(p, m)
    <3>1. Waits(p)
      BY <2>3, IdleWaits DEF Attended
    <3> QED BY <2>2, <3>1 DEF Waits, Scoreable
  <2>5. PICK next : next = NextTask(p, m)
    OBVIOUS
  <2>6. GoesOnWith(p, m, next)
    <3>1. PICK S : S = {k \in Manual(p) : k > m}
      OBVIOUS
    <3>2. Manual(p) \subseteq Nat \ {0} /\ m \in Nat
      BY DefinitionFacts
    <3>3. {k \in Manual(p) : k > m /\ task[p][k].status # "CANCELLED"} = S
      BY <2>4, <3>1, <3>2 DEF IsOpen, AtModule, NewTask
    <3>4. next = FirstOrNull(S)
      BY <2>5, <3>3 DEF NextTask
    <3>5. CASE S = {}
      <4>1. next = 0
        BY <3>4, <3>5 DEF FirstOrNull
      <4>2. \A k \in Manual(p) : k <= m
        BY <3>1, <3>2, <3>5
      <4> QED BY <4>1, <4>2 DEF GoesOnWith
    <3>6. CASE S # {}
      <4>1. next \in S /\ \A k \in S : next <= k
        <5>1. S \in SUBSET Nat
          BY <3>1, <3>2
        <5> QED BY <3>4, <3>6, <5>1, FirstIsIn DEF FirstOrNull
      <4>2. next \in Manual(p) /\ m < next /\ next # 0
        BY <3>1, <3>2, <4>1
      <4>3. \A k \in Manual(p) : k < next => k <= m
        BY <3>1, <3>2, <4>1
      <4> QED BY <4>2, <4>3 DEF GoesOnWith
    <3> QED BY <3>5, <3>6
  <2>7. Scoreable(p)' /\ GoesOnWith(p, m, next)' /\ m = instance'[p].module
    BY <1>1, <2>2, <2>4, <2>6 DEF Scoreable, InAssessment, NoStepYet, Measured, IsOpen, AtModule,
       GoesOnWith
  <2>8. Job(at, p, m, next, {})'
    BY <2>7 DEF Job
  <2>9. /\ call'[c].at = at /\ call'[c].p = p /\ call'[c].n = m /\ call'[c].next = next
        /\ call'[c].todo = {}
    BY <2>2, <2>5 DEF Names
  <2> QED BY <1>2, <2>8, <2>9 DEF Undecided
<1>4. CASE AsksToReview(c)
  <2>1. call'[c].at = "acting" /\ call'[c].todo = {}
    BY <1>4 DEF AsksToReview, Names
  <2>2. Job(call[c].at, call[c].p, call[c].n, call[c].next, call[c].todo)'
    BY <2>1 DEF Job
  <2> QED BY <1>2, <2>1, <2>2 DEF Undecided
<1>5. CASE AsksToManage(c)
  <2>1. /\ call'[c].at \in {"starting", "archiving", "adding", "templating", "restarting"}
        /\ call'[c].at \in {"adding", "templating"} => call'[c].read = cycle.status
        /\ call'[c].at = "adding" => cycle.status \in {"DRAFT", "IN_PROGRESS"}
    BY <1>5 DEF AsksToManage, Names
  <2>2. Job(call[c].at, call[c].p, call[c].n, call[c].next, call[c].todo)'
    BY <2>1 DEF Job, Busy
  <2> QED BY <1>2, <2>1, <2>2 DEF Undecided
<1> QED BY <1>1, <1>3, <1>4, <1>5

LEMMA RemoveWaits ==
  ASSUME PerformanceInv, \A q \in Participants : Attended(Idle, q),
         NEW p \in Participants, Remove(p)
  PROVE  \A q \in Participants : Attended(Idle, q)'
<1>1. Touches(p) /\ UNCHANGED cycle /\ instance'[p].status = "REMOVED"
  BY RemoveDoes DEF Turns
<1>2. ASSUME NEW q \in Participants, q # p PROVE Attended(Idle, q)'
  <2>1. Spared(q) /\ instance'[q] = instance[q]
    BY <1>1, <1>2 DEF Touches, Spared
  <2> QED BY <1>1, <2>1, IdleWaits, Sparing DEF Attended
<1>3. Attended(Idle, p)'
  BY <1>1 DEF Attended
<1> QED BY <1>2, <1>3

LEMMA CloseWaits ==
  ASSUME PerformanceInv, \A q \in Participants : Attended(Idle, q),
         NEW ps \in SUBSET Participants, Close(ps)
  PROVE  \A q \in Participants : Attended(Idle, q)'
<1>1. /\ cycle' = cycle \/ /\ cycle'.status = "CANCELLED"
                           /\ \A p \in Members \ ps : instance[p].status = "CANCELLED"
      /\ \A p \in Participants : IF p \in ps THEN Member(p) /\ Closed(p) ELSE Spared(p)
  BY CloseDoes
<1>2. ASSUME NEW q \in Participants PROVE Attended(Idle, q)'
  <2>1. CASE q \in ps
    BY <1>1, <2>1 DEF Attended, Closed
  <2>2. CASE q \notin ps
    <3>1. Spared(q) /\ instance'[q] = instance[q]
      BY <1>1, <2>2 DEF Spared
    <3>2. cycle' = cycle \/ instance[q].status # "DRAFT"
      BY <1>1, <2>2 DEF Members, Member
    <3> QED BY <3>1, <3>2, IdleWaits, Sparing DEF Attended
  <2> QED BY <2>1, <2>2
<1> QED BY <1>2

LEMMA ProceedWaits ==
  ASSUME PerformanceInv, NEW c \in Calls, disturbed' = {}, AllOnTrack, Steady(call[c]),
         Reviewing(call[c]), Carried(call[c]), \A q \in Participants : Attended(call[c], q),
         Proceed(c)
  PROVE  WaitOK(call[c])'
<1>1. CASE \/ CommitScore(c) \/ CollectScores(c) \/ SkipModule(c)
           \/ Advance(c) \/ OpenModule(c) \/ ResolveAssignees(c) \/ FinishAssessment(c)
           \/ ReadStep(c) \/ CreateStep(c)
           \/ CommitAction(c) \/ CollectApprovals(c) \/ RejectStep(c)
  <2>1. PICK p : p = call[c].p
    OBVIOUS
  <2>2. call[c].at \in Working
    BY <1>1 DEF CommitScore, CollectScores, SkipModule, Advance, OpenModule, ResolveAssignees,
       FinishAssessment, ReadStep, CreateStep, CommitAction, CollectApprovals, RejectStep, Working
  <2>3. Serves(c, p)
    BY <2>1, <2>2, Serving
  <2>4. OnTrack(p)
    BY <2>3 DEF Serves, AllOnTrack
  <2>5. CASE \/ CommitScore(c) \/ CollectScores(c) \/ SkipModule(c)
             \/ Advance(c) \/ OpenModule(c) \/ ResolveAssignees(c) \/ FinishAssessment(c)
    BY <2>3, <2>5, CommitScoreWaits, CollectScoresWaits, AdvanceWaits, OpenModuleWaits,
       ResolveAssigneesWaits, FinishAssessmentWaits
  <2>6. CASE \/ ReadStep(c) \/ CreateStep(c)
             \/ CommitAction(c) \/ CollectApprovals(c) \/ RejectStep(c)
    BY <2>3, <2>4, <2>6, ReadStepWaits, CreateStepWaits, CommitActionWaits,
       CollectApprovalsWaits, RejectStepWaits
  <2> QED BY <1>1, <2>5, <2>6
<1>2. CASE Start(c) \/ Measure(c) \/ Add(c) \/ UpdateTemplate(c) \/ Archive(c)
  BY <1>2, StartWaits, MeasureWaits, AddWaits, UpdateTemplateWaits, ArchiveWaits DEF Carried
<1>3. CASE Restart(c)
  BY <1>3, RestartDoes
<1> QED BY <1>1, <1>2, <1>3 DEF Proceed

LEMMA NextWaits ==
  ASSUME PerformanceInv, AloneInv, ReviewInv, TrackInv, WaitInv, Next
  PROVE  WaitInv'
<1> SUFFICES ASSUME ~overlapped', disturbed' = {} PROVE WaitInv'
  BY DEF WaitInv, WaitOK
<1>1. ~overlapped
  BY OneCallSteps
<1>2. ASSUME NEW c \in Calls, Alone(c)', WaitOK(call[c])'
      PROVE  WaitInv'
  <2>1. ASSUME call'[c].at = "idle" PROVE WaitOK(Idle)'
    <3>1. Pending(call[c])' = {}
      BY <2>1 DEF Pending, Undecided
    <3>2. ASSUME NEW q \in Participants PROVE Attended(Idle, q)'
      BY <1>2, <3>1 DEF WaitOK, Attended
    <3>3. Carried(Idle)'
      BY IdleType DEF Carried, Job, Busy, TodoReady, UpToDate, Undecided
    <3> QED BY <3>2, <3>3 DEF WaitOK
  <2>2. \A d \in Calls : call'[d].at # "idle" => d = c
    BY <1>2 DEF Alone
  <2>3. Quiet' => call'[c].at = "idle"
    BY DEF Quiet
  <2> QED BY <1>2, <2>1, <2>2, <2>3 DEF WaitInv
<1>3. ASSUME NEW c \in Calls, Quiet, Request(c)
      PROVE  WaitOK(call[c])'
  <2>1. disturbed = {}
    BY <1>3, RequestDoes DEF Asks
  <2> QED BY <1>1, <1>3, <2>1, RequestWaits DEF TrackInv, TrackOK, WaitInv, WaitOK
<1>4. ASSUME NEW c \in Calls, call[c].at # "idle", Proceed(c) \/ Interrupt(c)
      PROVE  WaitOK(call[c])'
  <2>1. disturbed = {}
    BY <1>4, ProceedKeepsDisturbance
  <2>2. Proceed(c)
    BY <1>4 DEF Interrupt
  <2>3. /\ AllOnTrack /\ Steady(call[c]) /\ Reviewing(call[c])
        /\ Carried(call[c]) /\ \A q \in Participants : Attended(call[c], q)
    BY <1>1, <1>4, <2>1 DEF TrackInv, TrackOK, ReviewInv, ReviewOK, WaitInv, WaitOK
  <2> QED BY <2>2, <2>3, ProceedWaits
<1>5. ASSUME Quiet, UNCHANGED call,
             \/ \E p \in Participants : Remove(p)
             \/ \E ps \in SUBSET Participants : Close(ps)
      PROVE  WaitInv'
  <2>1. UNCHANGED disturbed
    BY <1>5 DEF Remove, Close
  <2>2. \A q \in Participants : Attended(Idle, q)
    BY <1>1, <1>5, <2>1 DEF WaitInv, WaitOK
  <2>3. \A q \in Participants : Attended(Idle, q)'
    BY <1>5, <2>2, RemoveWaits, CloseWaits
  <2>4. Carried(Idle)'
    BY IdleType DEF Carried, Job, Busy, TodoReady, UpToDate, Undecided
  <2>5. \A c \in Calls : call'[c].at = "idle"
    BY <1>5 DEF Quiet
  <2> QED BY <2>3, <2>4, <2>5 DEF WaitInv, WaitOK
<1> QED BY <1>2, <1>3, <1>4, <1>5, OneCallSteps

LEMMA WaitHolds == Spec => []WaitInv
<1>1. Init => WaitInv
  <2> SUFFICES ASSUME Init PROVE WaitInv
    OBVIOUS
  <2>1. ASSUME NEW p \in Participants PROVE Attended(Idle, p)
    <3>1. cycle.status = "DRAFT" /\ instance[p].status \in {"DRAFT", "ABSENT"}
      BY DEF Init
    <3>2. Fresh(p)
      BY DEF Init, NewTasks, NoStep, Fresh, NoStepYet
    <3> QED BY <3>1, <3>2 DEF Attended
  <2>2. \A c \in Calls : call[c].at = "idle"
    BY IdleType DEF Init
  <2> QED BY <2>1, <2>2, IdleWaits DEF WaitInv, WaitOK
<1>2. PerformanceInv /\ AloneInv /\ ReviewInv /\ TrackInv /\ WaitInv /\ [Next]_vars => WaitInv'
  <2>1. CASE UNCHANGED vars
    <3>1. \A q \in Participants : Spared(q)
      BY <2>1 DEF vars, rows, Spared
    <3>2. UNCHANGED <<cycle, instance, task, step, call, disturbed, overlapped>>
      BY <2>1 DEF vars, rows
    <3>3. ASSUME NEW r, WaitOK(r) PROVE WaitOK(r)'
      <4> SUFFICES ASSUME disturbed = {} PROVE WaitOK(r)'
        BY <3>2 DEF WaitOK
      <4>1. Carried(r) /\ \A q \in Participants : Attended(r, q)
        BY <3>3 DEF WaitOK
      <4>2. \A q \in Participants : Attended(r, q)'
        BY <3>2, <4>1, <3>1, Sparing DEF Attended, Pending
      <4>3. Job(r.at, r.p, r.n, r.next, r.todo)'
        BY <3>2, <4>1 DEF Carried, Job, InAssessment, NoStepYet, Measured, IsOpen, IsNext, AtModule,
           Ahead, GoesOnWith, Scoreable, NoneFrom, Returned
      <4>4. TodoReady(r)' /\ UpToDate(r)'
        BY <3>2, <4>1 DEF Carried, TodoReady, UpToDate, InAssessment, NoStepYet, Ahead, IsNext,
           IsOpen, AtModule
      <4> QED BY <4>2, <4>3, <4>4 DEF WaitOK, Carried
    <3>4. \A c \in Calls : WaitOK(call[c]) => WaitOK(call[c])'
      BY <3>2, <3>3
    <3> QED BY <3>2, <3>3, <3>4 DEF WaitInv, Quiet
  <2> QED BY <2>1, NextWaits
<1> QED BY <1>1, <1>2, PerformanceInvariance, AloneHolds, ReviewHolds, TrackHolds, PTL DEF Spec

\* startCycle, advanceAssessment, completeTask and openWorkflowStep: while calls come one at a
\* time, none is cut off and no task is reset, a chain of transactions is carried to its end.
\* Between two calls every participant in progress whose workflow was never returned has its
\* module open for scorers that have not all answered, or its step open.
THEOREM EveryoneWaits == Spec => []SomebodyIsAsked
<1>1. AloneInv /\ WaitInv => SomebodyIsAsked
  <2> SUFFICES ASSUME WaitInv, ~overlapped, disturbed = {}, Quiet,
                      NEW p \in Members, instance[p].status = "IN_PROGRESS", ~Returned(p)
               PROVE  IF instance[p].assessment = "COMPLETED"
                      THEN /\ instance[p].step \in Steps(p)
                           /\ step[p][<<instance[p].step, 1>>].status = "IN_PROGRESS"
                      ELSE LET m == instance[p].module
                           IN  /\ m \in Manual(p)
                               /\ task[p][m].status = "IN_PROGRESS"
                               /\ task[p][m].assigned
                               /\ task[p][m].scored # Scorers(p, m)
    BY DEF SomebodyIsAsked, Quiet
  <2>1. Attended(Idle, p)
    BY DEF WaitInv, WaitOK, Members
  <2>2. Waits(p)
    BY <2>1, IdleWaits DEF Attended
  <2> QED BY <2>2 DEF Waits, Scoreable, IsOpen, AtModule
<1> QED BY <1>1, AloneHolds, WaitHolds, PTL
=============================================================================
