------------------------ MODULE MCPerformanceWorkflow ------------------------
EXTENDS PerformanceWorkflow, TLC

CONSTANTS p1, p2, ann, bob

Evaluation(scorers) == [kind |-> "EVALUATION", scorers |-> scorers, optional |-> FALSE]
Bonus(scorers) == [kind |-> "ADJUSTMENT", scorers |-> scorers, optional |-> TRUE]
Metrics == [kind |-> "METRIC", scorers |-> {}, optional |-> FALSE]
Approval(reviewers, target) == [reviewers |-> reviewers, rejectable |-> TRUE, target |-> target]
Confirmation(who) == [reviewers |-> {who}, rejectable |-> FALSE, target |-> 0]

\* A long assessment with two reviewers, and the shortest one.
TwoTemplates ==
  (p1 :> [modules |-> <<Metrics, Evaluation({ann, bob}), Bonus({ann})>>,
          steps |-> <<Approval({ann, bob}, 0)>>]) @@
  (p2 :> [modules |-> <<Evaluation({bob})>>, steps |-> <<>>])

\* Two modules scored by two employees each, and no workflow.
OneAssessment ==
  p1 :> [modules |-> <<Evaluation({ann, bob}), Evaluation({ann, bob})>>, steps |-> <<>>]

\* A confirmation, and an approval that returns to it.
ReturningWorkflow ==
  p1 :> [modules |-> <<Evaluation({ann})>>,
         steps |-> <<Confirmation(bob), Approval({ann}, 1)>>]

Symmetry == Permutations(Calls)

=============================================================================
