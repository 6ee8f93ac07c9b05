----------------------------- MODULE FeishuInbox -----------------------------
(***************************************************************************)
(* The summary card that one executor of one performance cycle gets in     *)
(* Feishu (backend/src/performance/performance.service,                    *)
(* updateFeishuTaskInbox, and the messages of backend/src/feishu).         *)
(*                                                                         *)
(* A chain of requests that opens a task for the executor, or a submission *)
(* he makes on the page behind the card, asks for a notification.  While   *)
(* one is under way further requests are merged into it.  A notification   *)
(* reads the tasks that wait for him, finds the card he already has, then  *)
(* sends a card or changes it, by calls that Feishu may refuse or answer   *)
(* in vain.  What a card counts is modelled as the set of tasks counted.   *)
(*                                                                         *)
(* One process serves all requests: the map that merges them is its own.   *)
(***************************************************************************)
EXTENDS Naturals, FiniteSets

CONSTANTS
  ModuleTasks,    \* scores this executor may be asked for, each opened once
  StepTasks,      \* workflow steps he may be asked for, each opened once
  Notifications,  \* notifications that could be under way at the same time
  Messages,       \* bound: cards sent to him
  None            \* no message

Tasks == ModuleTasks \cup StepTasks
Kinds == {"modules", "steps"}
TasksOf(kind) == IF kind = "modules" THEN ModuleTasks ELSE StepTasks

ASSUME InboxAssumption ==
  /\ ModuleTasks \cap StepTasks = {}
  /\ Messages # {} /\ IsFiniteSet(Messages)
  /\ Notifications # {} /\ IsFiniteSet(Notifications)
  /\ None \notin Messages

Stage ==
  {"idle", "reading", "finding", "resolving", "creating", "checking", "sending", "sent",
   "updating", "updated"}
NotificationRecord ==
  [at : Stage, left : SUBSET Kinds, read : SUBSET Tasks, message : Messages \cup {None},
   accepted : BOOLEAN]
DeliveryRow ==
  [status : {"ABSENT", "PENDING", "DELIVERED", "FAILED"}, message : Messages \cup {None}]
Card == [sent : BOOLEAN, tasks : SUBSET Tasks]

VARIABLES
  opened,        \* the tasks that have been opened so far
  pending,       \* those that wait for the executor
  due,           \* tasks whose chain has not yet asked for the notification
  notification,  \* notification[n]: one run of updateFeishuTaskInbox
  delivery,      \* the PerformanceFeishuTaskInboxDelivery row
  card,          \* card[m]: what message m shows in Feishu
  lost,          \* history variable: cards sent that the server does not know of
  disturbed,     \* history variable: Feishu refused, or a notification was cut off
  merged         \* history variable: a request was merged into a notification that had
                 \* already read the tasks

vars == <<opened, pending, due, notification, delivery, card, lost, disturbed, merged>>
history == <<lost, disturbed, merged>>

Idle == [at |-> "idle", left |-> {}, read |-> {}, message |-> None, accepted |-> FALSE]
Begun == [Idle EXCEPT !.at = "reading", !.left = Kinds]
InFlight == {n \in Notifications : notification[n].at # "idle"}
Free == CHOOSE n \in Notifications \ InFlight : TRUE
Sent == {m \in Messages : card[m].sent}
NewMessage == CHOOSE m \in Messages \ Sent : TRUE

Init ==
  /\ opened = {} /\ pending = {} /\ due = {}
  /\ notification = [n \in Notifications |-> Idle]
  /\ delivery = [status |-> "ABSENT", message |-> None]
  /\ card = [m \in Messages |-> [sent |-> FALSE, tasks |-> {}]]
  /\ lost = 0 /\ disturbed = FALSE /\ merged = FALSE

-----------------------------------------------------------------------------
(***************************************************************************)
(* Tasks come and go.                                                      *)
(***************************************************************************)
\* resolveTaskAssignees or openWorkflowStep has committed; the notification is next.
OpenTask(t) ==
  /\ t \notin opened
  /\ opened' = opened \cup {t}
  /\ pending' = pending \cup {t}
  /\ due' = due \cup {t}
  /\ UNCHANGED <<notification, delivery, card, history>>

\* submitFeishuAssessmentTask and submitFeishuWorkflowTask: the submission is committed,
\* the notification is next.
SubmitOnPage(t) ==
  /\ t \in pending
  /\ pending' = pending \ {t}
  /\ due' = due \cup {t}
  /\ UNCHANGED <<opened, notification, delivery, card, history>>

\* Submissions on the web and closing, archiving or rejecting tell nobody.
CloseElsewhere(t) ==
  /\ t \in pending
  /\ pending' = pending \ {t}
  /\ UNCHANGED <<opened, due, notification, delivery, card, history>>

-----------------------------------------------------------------------------
(***************************************************************************)
(* Requests for a notification.                                            *)
(***************************************************************************)
\* notifyTaskOpened finds the scorer done already and asks for nothing.
SkipNotification(t) ==
  /\ t \in due \cap ModuleTasks
  /\ t \notin pending
  /\ due' = due \ {t}
  /\ UNCHANGED <<opened, pending, notification, delivery, card, history>>

\* Mutant: requests are not merged.
NotifiesAlways(t) ==
  /\ t \in due
  /\ due' = due \ {t}
  /\ InFlight # Notifications
  /\ notification' = [notification EXCEPT ![Free] = Begun]
  /\ UNCHANGED <<opened, pending, delivery, card, history>>

\* notifyFeishuTaskInbox: a notification under way is awaited in place of a new one.
Notify(t) ==
  /\ t \in due
  /\ due' = due \ {t}
  /\ IF InFlight = {}
     THEN /\ notification' = [notification EXCEPT ![Free] = Begun]
          /\ UNCHANGED merged
     ELSE /\ merged' = (merged \/ \E n \in InFlight : notification[n].left # Kinds)
          /\ UNCHANGED notification
  /\ UNCHANGED <<opened, pending, delivery, card, lost, disturbed>>

-----------------------------------------------------------------------------
(***************************************************************************)
(* updateFeishuTaskInbox                                                   *)
(***************************************************************************)
Go(n, known) == notification' = [notification EXCEPT ![n] = known]
Tables == <<opened, pending, due, delivery, card>>

\* Mutant: the workflow steps are forgotten.
ReadModuleTasks(n, kind) ==
  /\ notification[n].at = "reading"
  /\ kind \in notification[n].left
  /\ Go(n, [notification[n] EXCEPT
       !.left = @ \ {kind},
       !.read = @ \cup (pending \cap ModuleTasks),
       !.at = IF notification[n].left = {kind} THEN "finding" ELSE "reading"])
  /\ UNCHANGED <<Tables, history>>

\* getFeishuTaskInbox: the two queries run side by side.
ReadTasks(n, kind) ==
  /\ notification[n].at = "reading"
  /\ kind \in notification[n].left
  /\ Go(n, [notification[n] EXCEPT
       !.left = @ \ {kind},
       !.read = @ \cup (pending \cap TasksOf(kind)),
       !.at = IF notification[n].left = {kind} THEN "finding" ELSE "reading"])
  /\ UNCHANGED <<Tables, history>>

\* The delivery is looked up; without a task and without a card there is nothing to do.
FindDelivery(n) ==
  LET known == [notification[n] EXCEPT !.message = delivery.message]
  IN  /\ notification[n].at = "finding"
      /\ Go(n, IF known.read # {} THEN [known EXCEPT !.at = "resolving"]
               ELSE IF known.message # None THEN [known EXCEPT !.at = "updating"]
               ELSE Idle)
      /\ UNCHANGED <<Tables, history>>

\* The executor is found in Feishu and gets a new session for the link.
ResolveExecutor(n) ==
  /\ notification[n].at = "resolving"
  /\ Go(n, [notification[n] EXCEPT
       !.at = IF notification[n].message # None THEN "updating" ELSE "creating"])
  /\ UNCHANGED <<Tables, history>>

\* He is not found, or not alone: the notification ends without a trace.
NotFound(n) ==
  /\ notification[n].at = "resolving"
  /\ Go(n, Idle)
  /\ disturbed' = TRUE
  /\ UNCHANGED <<Tables, lost, merged>>

\* (employee, cycle) is unique: a row that exists already is taken.
CreateDelivery(n) ==
  /\ notification[n].at = "creating"
  /\ delivery' = IF delivery.status = "ABSENT" THEN [delivery EXCEPT !.status = "PENDING"]
                 ELSE delivery
  /\ Go(n, [notification[n] EXCEPT !.at = "checking"])
  /\ UNCHANGED <<opened, pending, due, card, history>>

CheckDelivery(n) ==
  /\ notification[n].at = "checking"
  /\ Go(n, [notification[n] EXCEPT
       !.message = delivery.message,
       !.at = IF delivery.message # None THEN "updating" ELSE "sending"])
  /\ UNCHANGED <<Tables, history>>

\* sendCardMessageToOpenId: answered is FALSE when Feishu refuses, and when its answer
\* does not arrive.
SendCard(n, arrives, answered) ==
  /\ notification[n].at = "sending"
  /\ Sent # Messages
  /\ answered => arrives
  /\ card' = IF arrives
             THEN [card EXCEPT ![NewMessage] = [sent |-> TRUE, tasks |-> notification[n].read]]
             ELSE card
  /\ Go(n, [notification[n] EXCEPT !.at = "sent", !.accepted = answered,
                                   !.message = IF answered THEN NewMessage ELSE None])
  /\ lost' = IF arrives /\ ~answered THEN lost + 1 ELSE lost
  /\ disturbed' = (disturbed \/ ~answered)
  /\ UNCHANGED <<opened, pending, due, delivery, merged>>

\* Mutant: a status that no delivery has.
AnswerAsOutcome(accepted) == IF accepted THEN "SENT" ELSE "FAILED"

Outcome(accepted) == IF accepted THEN "DELIVERED" ELSE "FAILED"

\* Mutant: the message is not remembered.
RecordsStatusOnly(n) ==
  /\ notification[n].at = "sent"
  /\ delivery' = [delivery EXCEPT !.status = Outcome(notification[n].accepted)]
  /\ Go(n, Idle)
  /\ UNCHANGED <<opened, pending, due, card, history>>

\* Written only while the row has no message.
RecordSent(n) ==
  /\ notification[n].at = "sent"
  /\ delivery' = IF delivery.message = None
                 THEN [status |-> Outcome(notification[n].accepted),
                       message |-> notification[n].message]
                 ELSE delivery
  /\ Go(n, Idle)
  /\ UNCHANGED <<opened, pending, due, card, history>>

\* updateCard, with the tasks or, without any, with the notice that all is done
UpdateCard(n, arrives, answered) ==
  /\ notification[n].at = "updating"
  /\ answered => arrives
  /\ card' = IF arrives THEN [card EXCEPT ![notification[n].message].tasks = notification[n].read]
             ELSE card
  /\ Go(n, IF notification[n].read = {} THEN Idle
           ELSE [notification[n] EXCEPT !.at = "updated", !.accepted = answered])
  /\ disturbed' = (disturbed \/ ~answered)
  /\ UNCHANGED <<opened, pending, due, delivery, lost, merged>>

RecordUpdated(n) ==
  /\ notification[n].at = "updated"
  /\ delivery' = [delivery EXCEPT !.status = Outcome(notification[n].accepted)]
  /\ Go(n, Idle)
  /\ UNCHANGED <<opened, pending, due, card, history>>

\* A statement of the notification throws: its entry in the map is removed.
Fail(n) ==
  /\ notification[n].at # "idle"
  /\ Go(n, Idle)
  /\ lost' = IF notification[n].at = "sent" /\ notification[n].accepted THEN lost + 1 ELSE lost
  /\ disturbed' = TRUE
  /\ UNCHANGED <<Tables, merged>>

\* The process stops and starts again: what was under way is forgotten.
Restart ==
  /\ InFlight # {} \/ due # {}
  /\ notification' = [n \in Notifications |-> Idle]
  /\ due' = {}
  /\ lost' = lost + Cardinality({n \in InFlight : notification[n].at = "sent"
                                                    /\ notification[n].accepted})
  /\ disturbed' = TRUE
  /\ UNCHANGED <<opened, pending, delivery, card, merged>>

-----------------------------------------------------------------------------
Proceed(n) ==
  \/ \E kind \in Kinds : ReadTasks(n, kind)
  \/ FindDelivery(n) \/ ResolveExecutor(n) \/ NotFound(n)
  \/ CreateDelivery(n) \/ CheckDelivery(n)
  \/ \E arrives, answered \in BOOLEAN :
       SendCard(n, arrives, answered) \/ UpdateCard(n, arrives, answered)
  \/ RecordSent(n) \/ RecordUpdated(n)

Ask(t) == Notify(t) \/ SkipNotification(t)

Next ==
  \/ \E t \in Tasks : OpenTask(t) \/ SubmitOnPage(t) \/ CloseElsewhere(t) \/ Ask(t)
  \/ \E n \in Notifications : Proceed(n) \/ Fail(n)
  \/ Restart

Spec == Init /\ [][Next]_vars

\* The server goes on with what it has begun; nothing is assumed of its users.
FairSpec ==
  /\ Spec
  /\ \A t \in Tasks : WF_vars(Ask(t))
  /\ \A n \in Notifications : WF_vars(Proceed(n))

-----------------------------------------------------------------------------
(***************************************************************************)
(* Properties                                                              *)
(***************************************************************************)
\* Every variable keeps its shape.
InboxTypeOK ==
  /\ pending \subseteq opened /\ opened \subseteq Tasks /\ due \subseteq opened
  /\ notification \in [Notifications -> NotificationRecord]
  /\ delivery \in DeliveryRow
  /\ card \in [Messages -> Card]
  /\ lost \in Nat
  /\ disturbed \in BOOLEAN /\ merged \in BOOLEAN

\* The executor gets one card per cycle (README.md:283), whatever requests race, and one
\* more for each card that arrived without the server getting to know of it.
OneCard == Cardinality(Sent) <= 1 + lost

Shown == IF delivery.message = None THEN {} ELSE card[delivery.message].tasks

\* A task that keeps waiting for the executor gets onto his card, also when it is opened
\* while a notification is under way, unless that one has already read the tasks, Feishu
\* refuses or the server is cut off.
PendingGetsShown ==
  \A t \in Tasks : (t \in pending) ~> (t \in Shown \/ t \notin pending \/ disturbed \/ merged)

\* Documentation (docs/API.md, summary inbox: the card shows the number of tasks that wait
\* for the executor): with nothing under way and nothing refused, every task that waits for
\* him is counted on his card.
PendingIsShown ==
  InFlight = {} /\ due = {} /\ ~disturbed => pending \subseteq Shown
==============================================================================
