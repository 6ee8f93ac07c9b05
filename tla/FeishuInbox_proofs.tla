-------------------------- MODULE FeishuInbox_proofs --------------------------
(***************************************************************************)
(* Proofs about the summary card, for any sets of tasks and messages: the  *)
(* variables keep their shape, and one card is sent per executor and       *)
(* cycle, plus one for each card Feishu took without the server getting to *)
(* know of it.                                                             *)
(*                                                                         *)
(* OneCard is not inductive.  InboxInv adds what keeps notifications apart *)
(* (one is in flight), what the one in flight knows of the delivery row at *)
(* each stage, and a count: a card sent is stored in the row, carried by   *)
(* the notification that has just sent it, or lost.                        *)
(***************************************************************************)
EXTENDS FeishuInbox, FiniteSetTheorems, TLAPS

OneInFlight ==
  \A n, q \in Notifications :
    notification[n].at # "idle" /\ notification[q].at # "idle" => n = q

\* What a notification knows of the row: on the way to a first card there is none.
StagesMatch ==
  \A n \in Notifications :
    /\ notification[n].at = "resolving" => notification[n].message = delivery.message
    /\ notification[n].at \in {"creating", "checking", "sending", "sent"}
         => delivery.message = None
    /\ notification[n].at = "sent" => (notification[n].accepted <=> notification[n].message # None)

Carrying(n) == notification[n].at = "sent" /\ notification[n].accepted
Stored == IF delivery.message # None THEN 1 ELSE 0
Carried == IF \E n \in Notifications : Carrying(n) THEN 1 ELSE 0

CardsCounted == Cardinality(Sent) <= lost + Stored + Carried

InboxInv == InboxTypeOK /\ OneInFlight /\ StagesMatch /\ CardsCounted

-----------------------------------------------------------------------------
LEMMA IdleType == Idle \in NotificationRecord /\ Idle.at = "idle"
  BY DEF Idle, NotificationRecord, Stage

LEMMA BegunType == Begun \in NotificationRecord /\ Begun.at = "reading"
  BY DEF Begun, Idle, NotificationRecord, Stage

LEMMA SentFinite ==
  /\ IsFiniteSet(Sent) /\ Cardinality(Sent) \in Nat
  BY InboxAssumption, FS_Subset, FS_CardinalityType DEF Sent

\* A step of the one notification in flight: the others are idle and stay so.
LEMMA Advance ==
  ASSUME InboxTypeOK, OneInFlight,
         NEW n \in Notifications, notification[n].at # "idle",
         NEW r \in NotificationRecord, notification' = [notification EXCEPT ![n] = r]
  PROVE  /\ notification' \in [Notifications -> NotificationRecord]
         /\ notification'[n] = r
         /\ \A q \in Notifications \ {n} :
              notification[q].at = "idle" /\ notification'[q] = notification[q]
         /\ OneInFlight'
         /\ Carried = IF Carrying(n) THEN 1 ELSE 0
         /\ Carried' = IF r.at = "sent" /\ r.accepted THEN 1 ELSE 0
<1>1. notification \in [Notifications -> NotificationRecord]
  BY DEF InboxTypeOK
<1>2. /\ notification' \in [Notifications -> NotificationRecord]
      /\ notification'[n] = r
      /\ \A q \in Notifications \ {n} : notification'[q] = notification[q]
  BY <1>1
<1>3. \A q \in Notifications \ {n} : notification[q].at = "idle"
  BY DEF OneInFlight
<1>4. OneInFlight'
  BY <1>2, <1>3 DEF OneInFlight
<1>5. Carried = IF Carrying(n) THEN 1 ELSE 0
  BY <1>3 DEF Carried, Carrying
<1>6. (\E q \in Notifications : notification'[q].at = "sent" /\ notification'[q].accepted)
        <=> (r.at = "sent" /\ r.accepted)
  BY <1>2, <1>3
<1>7. Carried' = IF r.at = "sent" /\ r.accepted THEN 1 ELSE 0
  BY <1>6 DEF Carried, Carrying
<1> QED BY <1>2, <1>3, <1>4, <1>5, <1>7

\* A step that sends no card and leaves the row's message alone, of a notification that is
\* not at "sent": the count is kept if the stage it reaches agrees with the row.
LEMMA QuietStep ==
  ASSUME InboxInv,
         NEW n \in Notifications, notification[n].at \notin {"idle", "sent"},
         NEW r \in NotificationRecord, notification' = [notification EXCEPT ![n] = r],
         r.at = "resolving" => r.message = delivery.message,
         r.at \in {"creating", "checking", "sending"} => delivery.message = None,
         r.at # "sent",
         Sent' = Sent, lost' = lost, delivery'.message = delivery.message
  PROVE  OneInFlight' /\ StagesMatch' /\ CardsCounted'
<1>1. InboxTypeOK /\ OneInFlight /\ StagesMatch /\ CardsCounted /\ notification[n].at # "idle"
  BY DEF InboxInv
<1>2. /\ notification'[n] = r
      /\ \A q \in Notifications \ {n} :
           notification[q].at = "idle" /\ notification'[q] = notification[q]
      /\ OneInFlight'
      /\ Carried = IF Carrying(n) THEN 1 ELSE 0
      /\ Carried' = IF r.at = "sent" /\ r.accepted THEN 1 ELSE 0
  BY <1>1, Advance
<1>3. StagesMatch'
  BY <1>2 DEF StagesMatch
<1>4. Carried = 0 /\ Carried' = 0
  BY <1>2 DEF Carrying
<1>5. Stored' = Stored
  BY DEF Stored
<1>6. Cardinality(Sent') = Cardinality(Sent)
  OBVIOUS
<1>7. CardsCounted'
  BY <1>1, <1>4, <1>5, <1>6 DEF CardsCounted
<1> QED BY <1>2, <1>3, <1>7

-----------------------------------------------------------------------------
\* Nothing that OneInFlight, StagesMatch and CardsCounted speak of changes.
LEMMA Untouched ==
  ASSUME InboxInv, UNCHANGED <<notification, delivery, card, lost>>
  PROVE  OneInFlight' /\ StagesMatch' /\ CardsCounted'
<1>1. OneInFlight /\ StagesMatch /\ CardsCounted
  BY DEF InboxInv
<1>2. OneInFlight'
  BY <1>1 DEF OneInFlight
<1>3. StagesMatch'
  BY <1>1 DEF StagesMatch
<1>4. Sent' = Sent /\ Stored' = Stored /\ Carried' = Carried
  BY DEF Sent, Stored, Carried, Carrying
<1>5. CardsCounted'
  BY <1>1, <1>4 DEF CardsCounted
<1> QED BY <1>2, <1>3, <1>5

LEMMA TasksComeAndGo ==
  ASSUME InboxInv, NEW t \in Tasks,
         OpenTask(t) \/ SubmitOnPage(t) \/ CloseElsewhere(t) \/ SkipNotification(t)
  PROVE  InboxInv'
<1>1. InboxTypeOK
  BY DEF InboxInv
<1>2. UNCHANGED <<notification, delivery, card, lost, disturbed, merged>>
  BY DEF OpenTask, SubmitOnPage, CloseElsewhere, SkipNotification, history
<1>3. pending' \subseteq opened' /\ opened' \subseteq Tasks /\ due' \subseteq opened'
  BY <1>1 DEF OpenTask, SubmitOnPage, CloseElsewhere, SkipNotification, InboxTypeOK
<1>4. InboxTypeOK'
  BY <1>1, <1>2, <1>3 DEF InboxTypeOK
<1>5. OneInFlight' /\ StagesMatch' /\ CardsCounted'
  BY <1>2, Untouched
<1> QED BY <1>4, <1>5 DEF InboxInv

LEMMA NotifyStep ==
  ASSUME InboxInv, NEW t \in Tasks, Notify(t)
  PROVE  InboxInv'
<1>1. InboxTypeOK /\ OneInFlight /\ StagesMatch /\ CardsCounted
  BY DEF InboxInv
<1>2. /\ due' = due \ {t}
      /\ UNCHANGED <<opened, pending, delivery, card, lost, disturbed>>
  BY DEF Notify
<1>3. CASE InFlight = {}
  <2>1. /\ notification' = [notification EXCEPT ![Free] = Begun]
        /\ merged' = merged
    BY <1>3 DEF Notify
  <2>2. Notifications \ InFlight # {}
    BY <1>3, InboxAssumption
  <2>3. Free \in Notifications
    BY <2>2 DEF Free
  <2>4. PICK n \in Notifications : n = Free
    BY <2>3
  <2>5. notification' = [notification EXCEPT ![n] = Begun]
    BY <2>1, <2>4
  <2>6. \A q \in Notifications : notification[q].at = "idle"
    BY <1>3 DEF InFlight
  <2>7. /\ notification' \in [Notifications -> NotificationRecord]
        /\ notification'[n] = Begun
        /\ \A q \in Notifications \ {n} : notification'[q] = notification[q]
    BY <1>1, <2>5, BegunType DEF InboxTypeOK
  <2>8. InboxTypeOK'
    BY <1>1, <1>2, <2>1, <2>7 DEF InboxTypeOK
  <2>9. OneInFlight' /\ StagesMatch'
    BY <2>6, <2>7, BegunType DEF OneInFlight, StagesMatch
  <2>10. Sent' = Sent /\ Stored' = Stored /\ Carried = 0 /\ Carried' = 0
    BY <1>2, <2>6, <2>7, BegunType DEF Sent, Stored, Carried, Carrying
  <2>11. CardsCounted'
    BY <1>1, <1>2, <2>10 DEF CardsCounted
  <2> QED BY <2>8, <2>9, <2>11 DEF InboxInv
<1>4. CASE InFlight # {}
  <2>1. UNCHANGED notification /\ merged' \in BOOLEAN
    BY <1>1, <1>4 DEF Notify, InboxTypeOK
  <2>2. InboxTypeOK'
    BY <1>1, <1>2, <2>1 DEF InboxTypeOK
  <2>3. OneInFlight' /\ StagesMatch' /\ CardsCounted'
    BY <1>2, <2>1, Untouched
  <2> QED BY <2>2, <2>3 DEF InboxInv
<1> QED BY <1>3, <1>4

-----------------------------------------------------------------------------
(***************************************************************************)
(* The steps of a notification that send no first card                     *)
(***************************************************************************)
LEMMA ReadStep ==
  ASSUME InboxInv, NEW n \in Notifications, NEW kind \in Kinds, ReadTasks(n, kind)
  PROVE  InboxInv'
<1> DEFINE r == [notification[n] EXCEPT
                   !.left = @ \ {kind},
                   !.read = @ \cup (pending \cap TasksOf(kind)),
                   !.at = IF notification[n].left = {kind} THEN "finding" ELSE "reading"]
<1>1. InboxTypeOK
  BY DEF InboxInv
<1>2. /\ notification[n].at = "reading" /\ notification' = [notification EXCEPT ![n] = r]
      /\ UNCHANGED <<opened, pending, due, delivery, card, lost, disturbed, merged>>
  BY DEF ReadTasks, Go, Tables, history
<1>3. notification[n] \in NotificationRecord
  BY <1>1 DEF InboxTypeOK
<1>4. r \in NotificationRecord /\ r.at \in {"finding", "reading"}
  BY <1>3 DEF NotificationRecord, TasksOf, Stage, Tasks
<1>5. notification' \in [Notifications -> NotificationRecord]
  BY <1>1, <1>2, <1>4 DEF InboxTypeOK
<1>6. InboxTypeOK'
  BY <1>1, <1>2, <1>5 DEF InboxTypeOK
<1>7. Sent' = Sent
  BY <1>2 DEF Sent
<1> HIDE DEF r
<1>8. OneInFlight' /\ StagesMatch' /\ CardsCounted'
  BY <1>2, <1>4, <1>7, QuietStep
<1> QED BY <1>6, <1>8 DEF InboxInv

LEMMA FindStep ==
  ASSUME InboxInv, NEW n \in Notifications, FindDelivery(n)
  PROVE  InboxInv'
<1> DEFINE known == [notification[n] EXCEPT !.message = delivery.message]
           r == IF known.read # {} THEN [known EXCEPT !.at = "resolving"]
                ELSE IF known.message # None THEN [known EXCEPT !.at = "updating"]
                ELSE Idle
           Reached == /\ r \in NotificationRecord
                      /\ r.at \in {"resolving", "updating", "idle"}
                      /\ r.at = "resolving" => r.message = delivery.message
<1>1. InboxTypeOK
  BY DEF InboxInv
<1>2. /\ notification[n].at = "finding" /\ notification' = [notification EXCEPT ![n] = r]
      /\ UNCHANGED <<opened, pending, due, delivery, card, lost, disturbed, merged>>
  BY DEF FindDelivery, Go, Tables, history
<1>3. notification[n] \in NotificationRecord /\ delivery.message \in Messages \cup {None}
  BY <1>1 DEF InboxTypeOK, DeliveryRow
<1>4. known \in NotificationRecord /\ known.message = delivery.message
  BY <1>3 DEF NotificationRecord
<1> HIDE DEF known
<1>5. ASSUME known.read # {} PROVE Reached
  <2>1. r = [known EXCEPT !.at = "resolving"]
    BY <1>5
  <2>2. r \in NotificationRecord /\ r.at = "resolving" /\ r.message = delivery.message
    BY <1>4, <2>1 DEF NotificationRecord, Stage
  <2> QED BY <2>2
<1>6. ASSUME known.read = {} /\ known.message # None PROVE Reached
  <2>1. r = [known EXCEPT !.at = "updating"]
    BY <1>6
  <2>2. r \in NotificationRecord /\ r.at = "updating"
    BY <1>4, <2>1 DEF NotificationRecord, Stage
  <2> QED BY <2>2
<1>7. ASSUME known.read = {} /\ known.message = None PROVE Reached
  <2>1. r = Idle
    BY <1>7
  <2> QED BY <2>1, IdleType

<1>8. Reached
  BY <1>5, <1>6, <1>7
<1>9. notification' \in [Notifications -> NotificationRecord]
  BY <1>1, <1>2, <1>8 DEF InboxTypeOK
<1>10. InboxTypeOK'
  BY <1>1, <1>2, <1>9 DEF InboxTypeOK
<1>11. Sent' = Sent
  BY <1>2 DEF Sent
<1> HIDE DEF r
<1>12. OneInFlight' /\ StagesMatch' /\ CardsCounted'
  BY <1>2, <1>8, <1>11, QuietStep
<1> QED BY <1>10, <1>12 DEF InboxInv

LEMMA ResolveStep ==
  ASSUME InboxInv, NEW n \in Notifications, ResolveExecutor(n)
  PROVE  InboxInv'
<1> DEFINE r == [notification[n] EXCEPT
                   !.at = IF notification[n].message # None THEN "updating" ELSE "creating"]
<1>1. InboxTypeOK /\ StagesMatch
  BY DEF InboxInv
<1>2. /\ notification[n].at = "resolving" /\ notification' = [notification EXCEPT ![n] = r]
      /\ UNCHANGED <<opened, pending, due, delivery, card, lost, disturbed, merged>>
  BY DEF ResolveExecutor, Go, Tables, history
<1>3. notification[n] \in NotificationRecord /\ notification[n].message = delivery.message
  BY <1>1, <1>2 DEF InboxTypeOK, StagesMatch
<1>4. /\ r \in NotificationRecord /\ r.at \in {"updating", "creating"}
      /\ r.at = "creating" => delivery.message = None
  BY <1>3 DEF NotificationRecord, Stage
<1>5. notification' \in [Notifications -> NotificationRecord]
  BY <1>1, <1>2, <1>4 DEF InboxTypeOK
<1>6. InboxTypeOK'
  BY <1>1, <1>2, <1>5 DEF InboxTypeOK
<1>7. Sent' = Sent
  BY <1>2 DEF Sent
<1> HIDE DEF r
<1>8. OneInFlight' /\ StagesMatch' /\ CardsCounted'
  BY <1>2, <1>4, <1>7, QuietStep
<1> QED BY <1>6, <1>8 DEF InboxInv

LEMMA NotFoundStep ==
  ASSUME InboxInv, NEW n \in Notifications, NotFound(n)
  PROVE  InboxInv'
<1>1. InboxTypeOK
  BY DEF InboxInv
<1>2. /\ notification[n].at = "resolving" /\ notification' = [notification EXCEPT ![n] = Idle]
      /\ disturbed' = TRUE
      /\ UNCHANGED <<opened, pending, due, delivery, card, lost, merged>>
  BY DEF NotFound, Go, Tables
<1>3. notification' \in [Notifications -> NotificationRecord]
  BY <1>1, <1>2, IdleType DEF InboxTypeOK
<1>4. InboxTypeOK'
  BY <1>1, <1>2, <1>3 DEF InboxTypeOK
<1>5. Sent' = Sent
  BY <1>2 DEF Sent
<1>6. OneInFlight' /\ StagesMatch' /\ CardsCounted'
  BY <1>2, <1>5, IdleType, QuietStep
<1> QED BY <1>4, <1>6 DEF InboxInv

LEMMA CreateStep ==
  ASSUME InboxInv, NEW n \in Notifications, CreateDelivery(n)
  PROVE  InboxInv'
<1> DEFINE r == [notification[n] EXCEPT !.at = "checking"]
<1>1. InboxTypeOK /\ StagesMatch
  BY DEF InboxInv
<1>2. /\ notification[n].at = "creating" /\ notification' = [notification EXCEPT ![n] = r]
      /\ delivery' = IF delivery.status = "ABSENT" THEN [delivery EXCEPT !.status = "PENDING"]
                     ELSE delivery
      /\ UNCHANGED <<opened, pending, due, card, lost, disturbed, merged>>
  BY DEF CreateDelivery, Go, history
<1>3. notification[n] \in NotificationRecord /\ delivery \in DeliveryRow
      /\ delivery.message = None
  BY <1>1, <1>2 DEF InboxTypeOK, StagesMatch
<1>4. r \in NotificationRecord /\ r.at = "checking"
  BY <1>3 DEF NotificationRecord, Stage
<1>5. delivery' \in DeliveryRow /\ delivery'.message = delivery.message
  BY <1>2, <1>3 DEF DeliveryRow
<1>6. notification' \in [Notifications -> NotificationRecord]
  BY <1>1, <1>2, <1>4 DEF InboxTypeOK
<1>7. InboxTypeOK'
  BY <1>1, <1>2, <1>5, <1>6 DEF InboxTypeOK
<1>8. Sent' = Sent
  BY <1>2 DEF Sent
<1> HIDE DEF r
<1>9. OneInFlight' /\ StagesMatch' /\ CardsCounted'
  BY <1>2, <1>3, <1>4, <1>5, <1>8, QuietStep
<1> QED BY <1>7, <1>9 DEF InboxInv

LEMMA CheckStep ==
  ASSUME InboxInv, NEW n \in Notifications, CheckDelivery(n)
  PROVE  InboxInv'
<1> DEFINE r == [notification[n] EXCEPT
                   !.message = delivery.message,
                   !.at = IF delivery.message # None THEN "updating" ELSE "sending"]
<1>1. InboxTypeOK
  BY DEF InboxInv
<1>2. /\ notification[n].at = "checking" /\ notification' = [notification EXCEPT ![n] = r]
      /\ UNCHANGED <<opened, pending, due, delivery, card, lost, disturbed, merged>>
  BY DEF CheckDelivery, Go, Tables, history
<1>3. notification[n] \in NotificationRecord /\ delivery.message \in Messages \cup {None}
  BY <1>1 DEF InboxTypeOK, DeliveryRow
<1>4. /\ r \in NotificationRecord /\ r.at \in {"updating", "sending"}
      /\ r.at = "sending" => delivery.message = None
  BY <1>3 DEF NotificationRecord, Stage
<1>5. notification' \in [Notifications -> NotificationRecord]
  BY <1>1, <1>2, <1>4 DEF InboxTypeOK
<1>6. InboxTypeOK'
  BY <1>1, <1>2, <1>5 DEF InboxTypeOK
<1>7. Sent' = Sent
  BY <1>2 DEF Sent
<1> HIDE DEF r
<1>8. OneInFlight' /\ StagesMatch' /\ CardsCounted'
  BY <1>2, <1>4, <1>7, QuietStep
<1> QED BY <1>6, <1>8 DEF InboxInv

LEMMA UpdateCardStep ==
  ASSUME InboxInv, NEW n \in Notifications, NEW arrives \in BOOLEAN, NEW answered \in BOOLEAN,
         UpdateCard(n, arrives, answered)
  PROVE  InboxInv'
<1> DEFINE r == IF notification[n].read = {} THEN Idle
                ELSE [notification[n] EXCEPT !.at = "updated", !.accepted = answered]
<1>1. InboxTypeOK
  BY DEF InboxInv
<1>2. /\ notification[n].at = "updating" /\ notification' = [notification EXCEPT ![n] = r]
      /\ card' = IF arrives
                 THEN [card EXCEPT ![notification[n].message].tasks = notification[n].read]
                 ELSE card
      /\ disturbed' = (disturbed \/ ~answered)
      /\ UNCHANGED <<opened, pending, due, delivery, lost, merged>>
  BY DEF UpdateCard, Go
<1>3. notification[n] \in NotificationRecord /\ notification[n].read \in SUBSET Tasks
      /\ card \in [Messages -> Card]
  BY <1>1 DEF InboxTypeOK, NotificationRecord
<1>4. r \in NotificationRecord /\ r.at \in {"idle", "updated"}
  BY <1>3, IdleType DEF NotificationRecord, Stage
<1>5. card' \in [Messages -> Card] /\ \A m \in Messages : card'[m].sent = card[m].sent
  BY <1>2, <1>3 DEF Card
<1>6. notification' \in [Notifications -> NotificationRecord]
  BY <1>1, <1>2, <1>4 DEF InboxTypeOK
<1>7. disturbed' \in BOOLEAN
  BY <1>1, <1>2 DEF InboxTypeOK
<1>8. InboxTypeOK'
  BY <1>1, <1>2, <1>5, <1>6, <1>7 DEF InboxTypeOK
<1>9. Sent' = Sent
  BY <1>5 DEF Sent
<1> HIDE DEF r
<1>10. OneInFlight' /\ StagesMatch' /\ CardsCounted'
  BY <1>2, <1>4, <1>9, QuietStep
<1> QED BY <1>8, <1>10 DEF InboxInv

LEMMA RecordUpdatedStep ==
  ASSUME InboxInv, NEW n \in Notifications, RecordUpdated(n)
  PROVE  InboxInv'
<1>1. InboxTypeOK
  BY DEF InboxInv
<1>2. /\ notification[n].at = "updated" /\ notification' = [notification EXCEPT ![n] = Idle]
      /\ delivery' = [delivery EXCEPT !.status = Outcome(notification[n].accepted)]
      /\ UNCHANGED <<opened, pending, due, card, lost, disturbed, merged>>
  BY DEF RecordUpdated, Go, history
<1>3. delivery \in DeliveryRow
  BY <1>1 DEF InboxTypeOK
<1>4. delivery' \in DeliveryRow /\ delivery'.message = delivery.message
  BY <1>2, <1>3 DEF DeliveryRow, Outcome
<1>5. notification' \in [Notifications -> NotificationRecord]
  BY <1>1, <1>2, IdleType DEF InboxTypeOK
<1>6. InboxTypeOK'
  BY <1>1, <1>2, <1>4, <1>5 DEF InboxTypeOK
<1>7. Sent' = Sent
  BY <1>2 DEF Sent
<1>8. OneInFlight' /\ StagesMatch' /\ CardsCounted'
  BY <1>2, <1>4, <1>7, IdleType, QuietStep
<1> QED BY <1>6, <1>8 DEF InboxInv

-----------------------------------------------------------------------------
(***************************************************************************)
(* The steps a card is counted by                                          *)
(***************************************************************************)
LEMMA SendStep ==
  ASSUME InboxInv, NEW n \in Notifications, NEW arrives \in BOOLEAN, NEW answered \in BOOLEAN,
         SendCard(n, arrives, answered)
  PROVE  InboxInv'
<1>1. InboxTypeOK /\ OneInFlight /\ StagesMatch /\ CardsCounted
  BY DEF InboxInv
<1>2. /\ notification[n].at = "sending"
      /\ Sent # Messages /\ (answered => arrives)
      /\ disturbed' = (disturbed \/ ~answered)
      /\ UNCHANGED <<opened, pending, due, delivery, merged>>
  BY DEF SendCard
<1>3. NewMessage \in Messages \ Sent
  <2>1. Messages \ Sent # {}
    BY <1>2 DEF Sent
  <2> QED BY <2>1 DEF NewMessage
<1>4. PICK new \in Messages \ Sent : new = NewMessage
  BY <1>3
<1> DEFINE r == [notification[n] EXCEPT !.at = "sent", !.accepted = answered,
                                        !.message = IF answered THEN new ELSE None]
<1>5. /\ notification' = [notification EXCEPT ![n] = r]
      /\ card' = IF arrives THEN [card EXCEPT ![new] = [sent |-> TRUE,
                                                        tasks |-> notification[n].read]]
                 ELSE card
      /\ lost' = IF arrives /\ ~answered THEN lost + 1 ELSE lost
  BY <1>4 DEF SendCard, Go
<1>6. /\ notification[n] \in NotificationRecord
      /\ notification[n].read \in SUBSET Tasks
      /\ delivery.message = None
      /\ lost \in Nat
      /\ card \in [Messages -> Card]
  BY <1>1, <1>2 DEF InboxTypeOK, NotificationRecord, StagesMatch
<1>7. /\ r \in NotificationRecord
      /\ r.at = "sent" /\ r.accepted = answered
      /\ r.message = IF answered THEN new ELSE None
  BY <1>6 DEF NotificationRecord, Stage
<1> HIDE DEF r
<1>8. new # None
  BY InboxAssumption
<1>9. /\ notification' \in [Notifications -> NotificationRecord]
      /\ notification'[n] = r
      /\ \A q \in Notifications \ {n} :
           notification[q].at = "idle" /\ notification'[q] = notification[q]
      /\ OneInFlight'
      /\ Carried = IF Carrying(n) THEN 1 ELSE 0
      /\ Carried' = IF r.at = "sent" /\ r.accepted THEN 1 ELSE 0
  <2>1. InboxTypeOK /\ OneInFlight /\ notification[n].at # "idle"
    BY <1>1, <1>2
  <2> QED BY <2>1, <1>5, <1>7, Advance
<1>10. StagesMatch'
  BY <1>2, <1>6, <1>7, <1>8, <1>9 DEF StagesMatch
<1>11. card' \in [Messages -> Card]
  BY <1>5, <1>6 DEF Card
<1>12. Sent' = IF arrives THEN Sent \cup {new} ELSE Sent
  BY <1>5, <1>6 DEF Sent, Card
<1>13. lost' \in Nat /\ disturbed' \in BOOLEAN
  BY <1>1, <1>2, <1>5, <1>6 DEF InboxTypeOK
<1>14. InboxTypeOK'
  BY <1>1, <1>2, <1>9, <1>11, <1>13 DEF InboxTypeOK
<1>15. Cardinality(Sent') <= Cardinality(Sent) + (IF arrives THEN 1 ELSE 0)
  <2>1. Cardinality(Sent \cup {new}) = Cardinality(Sent) + 1
    BY <1>4, SentFinite, FS_AddElement
  <2> QED BY <1>12, <2>1, SentFinite
<1>16. Carried = 0 /\ Stored = 0 /\ Stored' = 0 /\ Carried' = IF answered THEN 1 ELSE 0
  BY <1>2, <1>6, <1>7, <1>9 DEF Carrying, Stored
<1>17. Cardinality(Sent) <= lost
  BY <1>1, <1>6, <1>16 DEF CardsCounted
<1>18. Cardinality(Sent') \in Nat
  <2>1. IsFiniteSet(Sent \cup {new})
    BY SentFinite, FS_AddElement
  <2> QED BY <1>12, <2>1, SentFinite, FS_CardinalityType
<1>19. CardsCounted'
  BY <1>2, <1>5, <1>6, <1>15, <1>16, <1>17, <1>18, SentFinite DEF CardsCounted
<1> QED BY <1>9, <1>10, <1>14, <1>19 DEF InboxInv

LEMMA RecordSentStep ==
  ASSUME InboxInv, NEW n \in Notifications, RecordSent(n)
  PROVE  InboxInv'
<1>1. InboxTypeOK /\ OneInFlight /\ StagesMatch /\ CardsCounted
  BY DEF InboxInv
<1>2. /\ notification[n].at = "sent" /\ notification' = [notification EXCEPT ![n] = Idle]
      /\ UNCHANGED <<opened, pending, due, card, lost, disturbed, merged>>
  BY DEF RecordSent, Go, history
<1>3. /\ notification[n] \in NotificationRecord
      /\ delivery.message = None
      /\ notification[n].accepted <=> notification[n].message # None
  BY <1>1, <1>2 DEF InboxTypeOK, StagesMatch
<1>4. delivery' = [status |-> Outcome(notification[n].accepted),
                   message |-> notification[n].message]
  BY <1>3 DEF RecordSent
<1>5. delivery' \in DeliveryRow /\ delivery'.message = notification[n].message
  BY <1>3, <1>4 DEF DeliveryRow, NotificationRecord, Outcome
<1>6. /\ notification' \in [Notifications -> NotificationRecord]
      /\ notification'[n] = Idle
      /\ \A q \in Notifications \ {n} :
           notification[q].at = "idle" /\ notification'[q] = notification[q]
      /\ OneInFlight'
      /\ Carried = IF Carrying(n) THEN 1 ELSE 0
      /\ Carried' = IF Idle.at = "sent" /\ Idle.accepted THEN 1 ELSE 0
  <2>1. InboxTypeOK /\ OneInFlight /\ notification[n].at # "idle"
    BY <1>1, <1>2
  <2> QED BY <2>1, <1>2, IdleType, Advance
<1>7. InboxTypeOK'
  BY <1>1, <1>2, <1>5, <1>6 DEF InboxTypeOK
<1>8. StagesMatch'
  BY <1>6, IdleType DEF StagesMatch
<1>9. Sent' = Sent
  BY <1>2 DEF Sent
<1>10. Stored = 0 /\ Carried' = 0 /\ Stored' = Carried
  BY <1>2, <1>3, <1>5, <1>6, IdleType DEF Stored, Carrying
<1>11. Carried \in {0, 1} /\ lost \in Nat
  BY <1>1 DEF Carried, InboxTypeOK
<1>12. CardsCounted'
  BY <1>1, <1>2, <1>9, <1>10, <1>11 DEF CardsCounted
<1> QED BY <1>6, <1>7, <1>8, <1>12 DEF InboxInv

LEMMA FailStep ==
  ASSUME InboxInv, NEW n \in Notifications, Fail(n)
  PROVE  InboxInv'
<1>1. InboxTypeOK /\ OneInFlight /\ StagesMatch /\ CardsCounted
  BY DEF InboxInv
<1>2. /\ notification[n].at # "idle" /\ notification' = [notification EXCEPT ![n] = Idle]
      /\ disturbed' = TRUE
      /\ UNCHANGED <<opened, pending, due, delivery, card, merged>>
      /\ lost' = IF Carrying(n) THEN lost + 1 ELSE lost
  BY DEF Fail, Go, Tables, Carrying
<1>3. /\ notification' \in [Notifications -> NotificationRecord]
      /\ notification'[n] = Idle
      /\ \A q \in Notifications \ {n} :
           notification[q].at = "idle" /\ notification'[q] = notification[q]
      /\ OneInFlight'
      /\ Carried = IF Carrying(n) THEN 1 ELSE 0
      /\ Carried' = IF Idle.at = "sent" /\ Idle.accepted THEN 1 ELSE 0
  BY <1>1, <1>2, IdleType, Advance
<1>4. lost \in Nat /\ lost' \in Nat
  BY <1>1, <1>2 DEF InboxTypeOK
<1>5. InboxTypeOK'
  BY <1>1, <1>2, <1>3, <1>4 DEF InboxTypeOK
<1>6. StagesMatch'
  BY <1>1, <1>2, <1>3, IdleType DEF StagesMatch
<1>7. Sent' = Sent /\ Stored' = Stored /\ Carried' = 0 /\ Stored \in {0, 1}
  BY <1>2, <1>3, IdleType DEF Sent, Stored
<1>8. lost' = lost + Carried /\ Carried \in {0, 1}
  BY <1>2, <1>3, <1>4
<1>9. CardsCounted'
  BY <1>1, <1>4, <1>7, <1>8, SentFinite DEF CardsCounted
<1> QED BY <1>3, <1>5, <1>6, <1>9 DEF InboxInv

LEMMA RestartStep ==
  ASSUME InboxInv, Restart
  PROVE  InboxInv'
<1> DEFINE C == {n \in InFlight : notification[n].at = "sent" /\ notification[n].accepted}
<1>1. InboxTypeOK /\ OneInFlight /\ StagesMatch /\ CardsCounted
  BY DEF InboxInv
<1>2. /\ notification' = [n \in Notifications |-> Idle]
      /\ due' = {} /\ disturbed' = TRUE
      /\ lost' = lost + Cardinality(C)
      /\ UNCHANGED <<opened, pending, delivery, card, merged>>
  BY DEF Restart
<1>3. IsFiniteSet(C)
  BY InboxAssumption, FS_Subset DEF InFlight
<1>4. Cardinality(C) \in Nat /\ Cardinality(C) >= Carried
  <2>1. Cardinality(C) \in Nat /\ (Cardinality(C) = 0 <=> C = {})
    BY <1>3, FS_CardinalityType, FS_EmptySet
  <2>2. ASSUME NEW n \in Notifications, Carrying(n) PROVE C # {}
    BY <2>2 DEF Carrying, InFlight
  <2> HIDE DEF C
  <2> QED BY <2>1, <2>2 DEF Carried
<1> HIDE DEF C
<1>5. lost \in Nat /\ lost' \in Nat
  BY <1>1, <1>2, <1>4 DEF InboxTypeOK
<1>6. notification' \in [Notifications -> NotificationRecord]
  BY <1>2, IdleType
<1>7. InboxTypeOK'
  BY <1>1, <1>2, <1>5, <1>6 DEF InboxTypeOK
<1>8. \A n \in Notifications : notification'[n].at = "idle"
  BY <1>2, IdleType
<1>9. OneInFlight' /\ StagesMatch'
  BY <1>8 DEF OneInFlight, StagesMatch
<1>10. Sent' = Sent /\ Stored' = Stored /\ Carried' = 0
       /\ Stored \in {0, 1} /\ Carried \in {0, 1}
  BY <1>2, <1>8 DEF Sent, Stored, Carried, Carrying
<1>11. Cardinality(Sent) <= lost + Stored + Carried
  BY <1>1 DEF CardsCounted
<1>12. Cardinality(Sent) <= lost' + Stored
  BY <1>2, <1>4, <1>5, <1>10, <1>11, SentFinite
<1>13. CardsCounted'
  BY <1>5, <1>10, <1>12, SentFinite DEF CardsCounted
<1> QED BY <1>7, <1>9, <1>13 DEF InboxInv

-----------------------------------------------------------------------------
LEMMA InitEstablishes == Init => InboxInv
<1> SUFFICES ASSUME Init PROVE InboxInv
  OBVIOUS
<1>1. InboxTypeOK
  BY IdleType DEF Init, InboxTypeOK, DeliveryRow, Card
<1>2. \A n \in Notifications : notification[n].at = "idle"
  BY IdleType DEF Init
<1>3. OneInFlight /\ StagesMatch
  BY <1>2 DEF OneInFlight, StagesMatch
<1>4. Sent = {}
  BY DEF Init, Sent
<1>5. Cardinality(Sent) = 0
  BY <1>4, FS_EmptySet
<1>6. Stored = 0 /\ Carried = 0 /\ lost = 0
  BY <1>2 DEF Init, Stored, Carried, Carrying
<1>7. CardsCounted
  BY <1>5, <1>6 DEF CardsCounted
<1> QED BY <1>1, <1>3, <1>7 DEF InboxInv

LEMMA NextKeeps == InboxInv /\ [Next]_vars => InboxInv'
<1> SUFFICES ASSUME InboxInv, [Next]_vars PROVE InboxInv'
  OBVIOUS
<1>1. ASSUME NEW t \in Tasks,
             OpenTask(t) \/ SubmitOnPage(t) \/ CloseElsewhere(t) \/ SkipNotification(t)
      PROVE  InboxInv'
  BY <1>1, TasksComeAndGo
<1>2. ASSUME NEW t \in Tasks, Notify(t) PROVE InboxInv'
  BY <1>2, NotifyStep
<1>3. ASSUME NEW n \in Notifications, Proceed(n) PROVE InboxInv'
  <2>1. ASSUME NEW kind \in Kinds, ReadTasks(n, kind) PROVE InboxInv'
    BY <2>1, ReadStep
  <2>2. ASSUME NEW arrives \in BOOLEAN, NEW answered \in BOOLEAN, SendCard(n, arrives, answered)
        PROVE  InboxInv'
    BY <2>2, SendStep
  <2>3. ASSUME NEW arrives \in BOOLEAN, NEW answered \in BOOLEAN, UpdateCard(n, arrives, answered)
        PROVE  InboxInv'
    BY <2>3, UpdateCardStep
  <2>4. CASE FindDelivery(n)
    BY <2>4, FindStep
  <2>5. CASE ResolveExecutor(n)
    BY <2>5, ResolveStep
  <2>6. CASE NotFound(n)
    BY <2>6, NotFoundStep
  <2>7. CASE CreateDelivery(n)
    BY <2>7, CreateStep
  <2>8. CASE CheckDelivery(n)
    BY <2>8, CheckStep
  <2>9. CASE RecordSent(n)
    BY <2>9, RecordSentStep
  <2>10. CASE RecordUpdated(n)
    BY <2>10, RecordUpdatedStep
  <2> QED BY <1>3, <2>1, <2>2, <2>3, <2>4, <2>5, <2>6, <2>7, <2>8, <2>9, <2>10 DEF Proceed
<1>4. ASSUME NEW n \in Notifications, Fail(n) PROVE InboxInv'
  BY <1>4, FailStep
<1>5. CASE Restart
  BY <1>5, RestartStep
<1>6. CASE UNCHANGED vars
  <2>1. InboxTypeOK /\ UNCHANGED <<opened, pending, due, notification, delivery, card, lost,
                                   disturbed, merged>>
    BY <1>6 DEF vars, InboxInv
  <2>2. InboxTypeOK'
    BY <2>1 DEF InboxTypeOK
  <2>3. OneInFlight' /\ StagesMatch' /\ CardsCounted'
    BY <2>1, Untouched
  <2> QED BY <2>2, <2>3 DEF InboxInv
<1> QED BY <1>1, <1>2, <1>3, <1>4, <1>5, <1>6 DEF Next, Ask

\* The inductive invariant holds throughout: one notification in flight at most, agreeing
\* with the delivery row, and every card stored, carried or lost.
THEOREM InboxIsCounted == Spec => []InboxInv
<1>1. Init => InboxInv
  BY InitEstablishes
<1>2. InboxInv /\ [Next]_vars => InboxInv'
  BY NextKeeps
<1> QED BY <1>1, <1>2, PTL DEF Spec

\* The tasks, the notifications, the delivery row and the cards keep their shape.
THEOREM InboxTyped == Spec => []InboxTypeOK
<1>1. InboxInv => InboxTypeOK
  BY DEF InboxInv
<1> QED BY <1>1, InboxIsCounted, PTL

\* Whatever requests race and wherever the server is cut off, the executor gets one card,
\* and one more for each card the server does not know of.
THEOREM OneCardSent == Spec => []OneCard
<1>1. InboxInv => OneCard
  <2> SUFFICES ASSUME InboxInv PROVE OneCard
    OBVIOUS
  <2>1. Carried = 0 \/ Stored = 0
    BY DEF InboxInv, StagesMatch, Carried, Carrying, Stored
  <2>2. Carried \in {0, 1} /\ Stored \in {0, 1} /\ lost \in Nat
    BY DEF InboxInv, InboxTypeOK, Carried, Stored
  <2>3. Cardinality(Sent) <= lost + Stored + Carried
    BY DEF InboxInv, CardsCounted
  <2> QED BY <2>1, <2>2, <2>3, SentFinite DEF OneCard
<1> QED BY <1>1, InboxIsCounted, PTL
=============================================================================
