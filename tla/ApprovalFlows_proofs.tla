------------------------- MODULE ApprovalFlows_proofs -------------------------
(***************************************************************************)
(* Proofs about approval flows, for any definitions, versions, requests    *)
(* and racing calls: a published definition is usable and the only one,    *)
(* bound versions are kept, and, unless calls overlap, versions and        *)
(* definition are archived together.                                       *)
(*                                                                         *)
(* The updates carry no condition, so none of it is inductive: Carried     *)
(* says what stays true of the rows a call has read whoever writes in      *)
(* between, and Fresh what is true only while no other call is in flight.  *)
(***************************************************************************)
EXTENDS ApprovalFlows, TLAPS

Updating(r) == r.op \in {"updateDefinition", "updateVersion"} /\ r.at = "ready"
Publishing(r) == r.op = "publish" /\ r.at = "ready"
Submitting(r) == r.op = "submit" /\ r.at = "ready"
HasVersion(r) == Updating(r) \/ Submitting(r) \/ (r.op = "publish" /\ r.at # "idle")

Carried(r) ==
  /\ r.at # "idle" => r.definition \in Definitions /\ definition[r.definition] # "ABSENT"
  /\ HasVersion(r) => /\ r.version \in Versions
                      /\ r.version[1] = r.definition
                      /\ ~Is(r.version, "ABSENT")
  /\ r.op \in {"createVersion", "updateDefinition", "updateVersion"} \/ Submitting(r) =>
       r.nodes \in NodeLists
  /\ Submitting(r) => version[r.version].status \in {"PUBLISHED", "ARCHIVED"}
  /\ Publishing(r) => r.definition \notin r.priors

Fresh(r) ==
  /\ Updating(r) => Is(r.version, "DRAFT")
  /\ Submitting(r) => version[r.version].nodes = r.nodes
  /\ Publishing(r) => /\ r.priors = PublishedDefinitions \ {r.definition}
                      /\ r.seen = UNION {PublishedIn(d) : d \in r.priors}

CallsOK == \A c \in Calls : Carried(call[c])
OverlapOK ==
  /\ overlapped \in BOOLEAN
  /\ Overlap => overlapped
  /\ ~overlapped => \A c \in Calls : Fresh(call[c])

\* A definition comes with its first version.
AbsentTogether == \A v \in Versions : definition[v[1]] = "ABSENT" => Is(v, "ABSENT")
BoundOK == \A r \in Requests : bound[r] # Unbound => bound[r].version \in Versions

FlowInv ==
  /\ FlowTypeOK /\ CallsOK /\ OverlapOK /\ AbsentTogether /\ BoundOK
  /\ PublishedIsUsable /\ BoundVersionsKept /\ ArchivedTogether

-----------------------------------------------------------------------------
\* No row goes back: neither to ABSENT, nor from a published or archived version to a draft.
Forward ==
  /\ \A d \in Definitions : definition[d] # "ABSENT" => definition'[d] # "ABSENT"
  /\ \A v \in Versions : ~Is(v, "ABSENT") => version'[v].status # "ABSENT"
  /\ \A v \in Versions : version[v].status \in {"PUBLISHED", "ARCHIVED"} =>
       version'[v].status \in {"PUBLISHED", "ARCHIVED"}

LEMMA IdleType == Idle \in CallRecord /\ Idle.at = "idle" /\ Idle.op = "submit"
  BY DEF Idle, InFlight, CallRecord, Operation

\* A call at rest carries nothing.
LEMMA IdleCarriesNothing ==
  ASSUME NEW r, r.at = "idle", r.op = "submit"
  PROVE  Carried(r) /\ Fresh(r)
  BY DEF Carried, Fresh, HasVersion, Updating, Publishing, Submitting

LEMMA OverlapKept ==
  ASSUME overlapped \in BOOLEAN, overlapped' = (overlapped \/ Overlap')
  PROVE  /\ overlapped' \in BOOLEAN
         /\ Overlap' => overlapped'
         /\ overlapped => overlapped'
  OBVIOUS

\* A read: the call keeps what it has found.
LEMMA KnowsKeeps ==
  ASSUME FlowInv, NEW c \in Calls, NEW r \in CallRecord, Carried(r), Fresh(r),
         Knows(c, r), overlapped' = (overlapped \/ Overlap')
  PROVE  FlowInv'
<1>1. /\ call' = [call EXCEPT ![c] = r]
      /\ definition' = definition /\ version' = version /\ bound' = bound
  BY DEF Knows
<1>2. overlapped' \in BOOLEAN /\ (Overlap' => overlapped') /\ (overlapped => overlapped')
  BY OverlapKept DEF FlowInv, OverlapOK
<1>3. call \in [Calls -> CallRecord]
  BY DEF FlowInv, FlowTypeOK
<1>4. call' \in [Calls -> CallRecord] /\ \A d \in Calls : call'[d] = IF d = c THEN r ELSE call[d]
  BY <1>1, <1>3
<1>5. FlowTypeOK'
  BY <1>1, <1>4 DEF FlowInv, FlowTypeOK, Is
<1>6. \A d \in Calls : Carried(call'[d]) /\ (~overlapped' => Fresh(call'[d]))
  BY <1>2, <1>4 DEF FlowInv, CallsOK, OverlapOK
<1>7. CallsOK' /\ OverlapOK'
  BY <1>1, <1>2, <1>6 DEF CallsOK, OverlapOK, Carried, Fresh, Is, PublishedDefinitions, PublishedIn,
       VersionsOf
<1>8. AbsentTogether' /\ BoundOK' /\ PublishedIsUsable'
  BY <1>1 DEF FlowInv, AbsentTogether, BoundOK, PublishedIsUsable, PublishedDefinitions,
       PublishedIn, VersionsOf, Is
<1>9. BoundVersionsKept' /\ ArchivedTogether'
  BY <1>1, <1>2 DEF FlowInv, BoundVersionsKept, ArchivedTogether, Is
<1> QED BY <1>5, <1>7, <1>8, <1>9 DEF FlowInv

\* A commit: the call is over, and the others still have what they carry.  When no other
\* call is in flight, nothing is left to be fresh.
LEMMA FinishKeeps ==
  ASSUME FlowInv, NEW c \in Calls, call[c].at # "idle", Finish(c), Forward,
         overlapped' = (overlapped \/ Overlap')
  PROVE  CallsOK' /\ OverlapOK' /\ call' \in [Calls -> CallRecord]
<1>1. call' = [call EXCEPT ![c] = Idle] /\ call \in [Calls -> CallRecord]
  BY DEF Finish, FlowInv, FlowTypeOK
<1>2. overlapped' \in BOOLEAN /\ (Overlap' => overlapped') /\ (overlapped => overlapped')
  BY OverlapKept DEF FlowInv, OverlapOK
<1>3. call' \in [Calls -> CallRecord] /\ \A d \in Calls : call'[d] = IF d = c THEN Idle ELSE call[d]
  BY <1>1, IdleType
<1>4. ASSUME NEW d \in Calls
      PROVE  Carried(call[d])'
  <2>1. CASE d = c
    <3>1. call'[d].at = "idle" /\ call'[d].op = "submit"
      BY <1>3, <2>1, IdleType
    <3> QED BY <3>1 DEF Carried, HasVersion, Updating, Publishing, Submitting
  <2>2. CASE d # c
    <3>1. call'[d] = call[d] /\ Carried(call[d])
      BY <1>3, <2>2 DEF FlowInv, CallsOK
    <3> QED BY <3>1 DEF Carried, Forward, Is, HasVersion, Updating, Publishing, Submitting
  <2> QED BY <2>1, <2>2
<1>5. CASE ~overlapped'
  <2>1. \A d \in Calls : d # c => call[d].at = "idle"
    BY <1>2, <1>5 DEF FlowInv, OverlapOK, Overlap
  <2>2. \A d \in Calls : call'[d].at = "idle"
    BY <1>3, <2>1, IdleType
  <2>3. \A d \in Calls : Fresh(call[d])'
    BY <2>2 DEF Fresh, Updating, Publishing, Submitting
  <2> QED BY <1>2, <1>3, <1>4, <2>3 DEF CallsOK, OverlapOK
<1>6. CASE overlapped'
  BY <1>2, <1>3, <1>4, <1>6 DEF CallsOK, OverlapOK
<1> QED BY <1>2, <1>5, <1>6

-----------------------------------------------------------------------------
(***************************************************************************)
(* What is read                                                            *)
(***************************************************************************)
LEMMA RecordType ==
  ASSUME NEW at \in {"idle", "begun", "ready"}, NEW op \in Operation, NEW d \in Definitions,
         NEW v \in Versions \cup {None}, NEW nodes \in NodeLists \cup {None}
  PROVE  /\ InFlight(at, op, d, v, nodes) \in CallRecord
         /\ InFlight(at, op, d, v, nodes).at = at
         /\ InFlight(at, op, d, v, nodes).op = op
         /\ InFlight(at, op, d, v, nodes).definition = d
         /\ InFlight(at, op, d, v, nodes).version = v
         /\ InFlight(at, op, d, v, nodes).nodes = nodes
  BY DEF InFlight, CallRecord

LEMMA VersionFacts ==
  ASSUME AbsentTogether, NEW v \in Versions
  PROVE  /\ v[1] \in Definitions /\ v[2] \in Numbers /\ v = <<v[1], v[2]>>
         /\ ~Is(v, "ABSENT") => definition[v[1]] # "ABSENT"
  BY DEF Versions, AbsentTogether

LEMMA ReadKeeps ==
  ASSUME FlowInv, NEW c \in Calls, Read(c), overlapped' = (overlapped \/ Overlap')
  PROVE  FlowInv'
<1>1. FlowTypeOK /\ CallsOK /\ AbsentTogether
  BY DEF FlowInv
<1>2. call[c] \in CallRecord /\ Carried(call[c])
  BY <1>1 DEF FlowTypeOK, CallsOK
<1>3. ASSUME NEW d \in Definitions, NEW nodes \in NodeLists,
             LoadForCreateVersion(c, d, nodes) \/ LoadForUpdateDefinition(c, d, nodes)
      PROVE  FlowInv'
  <2>1. PICK op \in {"createVersion", "updateDefinition"}, at \in {"begun", "ready"} :
          /\ Knows(c, InFlight(at, op, d, None, nodes))
          /\ op = "updateDefinition" => at = "begun"
          /\ definition[d] # "ABSENT"
    BY <1>3 DEF LoadForCreateVersion, LoadForUpdateDefinition
  <2> DEFINE r == InFlight(at, op, d, None, nodes)
  <2>2. r \in CallRecord /\ r.at = at /\ r.op = op /\ r.definition = d /\ r.nodes = nodes
    BY RecordType DEF Operation
  <2> HIDE DEF r
  <2>3. Carried(r) /\ Fresh(r)
    BY <2>1, <2>2 DEF Carried, Fresh, HasVersion, Updating, Publishing, Submitting
  <2>4. Knows(c, r)
    BY <2>1 DEF r
  <2> QED BY <2>2, <2>3, <2>4, KnowsKeeps
<1>4. ASSUME NEW v \in Versions, NEW nodes \in NodeLists, LoadForUpdateVersion(c, v, nodes)
      PROVE  FlowInv'
  <2> DEFINE r == InFlight("ready", "updateVersion", v[1], v, nodes)
  <2>1. Knows(c, r) /\ Is(v, "DRAFT")
    BY <1>4 DEF LoadForUpdateVersion
  <2>2. v[1] \in Definitions /\ ~Is(v, "ABSENT") /\ definition[v[1]] # "ABSENT"
    BY <1>1, <2>1, VersionFacts DEF Is
  <2>3. /\ r \in CallRecord /\ r.at = "ready" /\ r.op = "updateVersion"
        /\ r.definition = v[1] /\ r.version = v /\ r.nodes = nodes
    BY <2>2, RecordType DEF Operation
  <2> HIDE DEF r
  <2>4. Carried(r) /\ Fresh(r)
    BY <2>1, <2>2, <2>3 DEF Carried, Fresh, HasVersion, Updating, Publishing, Submitting
  <2> QED BY <2>1, <2>3, <2>4, KnowsKeeps
<1>5. ASSUME NEW v \in Versions, FindDraftVersion(c, v)
      PROVE  FlowInv'
  <2> DEFINE r == [call[c] EXCEPT !.at = "ready", !.version = v]
  <2>1. /\ Knows(c, r) /\ Is(v, "DRAFT") /\ v[1] = call[c].definition
        /\ call[c].op = "updateDefinition" /\ call[c].at = "begun"
    BY <1>5 DEF FindDraftVersion, At
  <2>2. /\ r \in CallRecord /\ r.at = "ready" /\ r.op = "updateDefinition"
        /\ r.definition = v[1] /\ r.version = v /\ r.nodes = call[c].nodes
    BY <1>2, <2>1 DEF CallRecord
  <2>3. call[c].nodes \in NodeLists
    BY <1>2, <2>1 DEF Carried
  <2>4. v[1] \in Definitions /\ ~Is(v, "ABSENT") /\ definition[v[1]] # "ABSENT"
    BY <1>1, <2>1, VersionFacts DEF Is
  <2> HIDE DEF r
  <2>5. Carried(r) /\ Fresh(r)
    BY <2>1, <2>2, <2>3, <2>4 DEF Carried, Fresh, HasVersion, Updating, Publishing, Submitting
  <2> QED BY <2>1, <2>2, <2>5, KnowsKeeps
<1>6. ASSUME NEW v \in Versions, LoadForPublish(c, v)
      PROVE  FlowInv'
  <2> DEFINE r == InFlight("begun", "publish", v[1], v, None)
  <2>1. Knows(c, r) /\ Is(v, "DRAFT")
    BY <1>6 DEF LoadForPublish
  <2>2. v[1] \in Definitions /\ ~Is(v, "ABSENT") /\ definition[v[1]] # "ABSENT"
    BY <1>1, <2>1, VersionFacts DEF Is
  <2>3. /\ r \in CallRecord /\ r.at = "begun" /\ r.op = "publish"
        /\ r.definition = v[1] /\ r.version = v
    BY <2>2, RecordType DEF Operation
  <2> HIDE DEF r
  <2>4. Carried(r) /\ Fresh(r)
    BY <2>1, <2>2, <2>3 DEF Carried, Fresh, HasVersion, Updating, Publishing, Submitting
  <2> QED BY <2>1, <2>3, <2>4, KnowsKeeps
<1>7. ASSUME LoadPriors(c)
      PROVE  FlowInv'
  <2>1. PICK priors : priors = PublishedDefinitions \ {call[c].definition}
    OBVIOUS
  <2>2. PICK seen : seen = UNION {PublishedIn(d) : d \in priors}
    OBVIOUS
  <2> DEFINE r == [call[c] EXCEPT !.at = "ready", !.priors = priors, !.seen = seen]
  <2>3. Knows(c, r) /\ call[c].op = "publish" /\ call[c].at = "begun"
    BY <1>7, <2>1, <2>2 DEF LoadPriors, At
  <2>4. priors \in SUBSET Definitions /\ seen \in SUBSET Versions
    BY <2>1, <2>2 DEF PublishedDefinitions, PublishedIn, VersionsOf
  <2>5. /\ r \in CallRecord /\ r.at = "ready" /\ r.op = "publish" /\ r.version = call[c].version
        /\ r.definition = call[c].definition /\ r.priors = priors /\ r.seen = seen
    BY <1>2, <2>3, <2>4 DEF CallRecord
  <2> HIDE DEF r
  <2>6. Carried(r)
    BY <1>2, <2>1, <2>3, <2>5 DEF Carried, HasVersion, Updating, Publishing, Submitting
  <2>7. Fresh(r)
    BY <2>1, <2>2, <2>5 DEF Fresh, Updating, Publishing, Submitting
  <2> QED BY <2>3, <2>5, <2>6, <2>7, KnowsKeeps
<1>8. ASSUME NEW d \in Definitions, LoadForArchive(c, d)
      PROVE  FlowInv'
  <2> DEFINE r == InFlight("ready", "archive", d, None, None)
  <2>1. Knows(c, r) /\ definition[d] # "ABSENT"
    BY <1>8 DEF LoadForArchive
  <2>2. r \in CallRecord /\ r.at = "ready" /\ r.op = "archive" /\ r.definition = d
    BY RecordType DEF Operation
  <2> HIDE DEF r
  <2>3. Carried(r) /\ Fresh(r)
    BY <2>1, <2>2 DEF Carried, Fresh, HasVersion, Updating, Publishing, Submitting
  <2> QED BY <2>1, <2>2, <2>3, KnowsKeeps
<1>9. ASSUME NEW d \in Definitions, ResolveDefinition(c, d)
      PROVE  FlowInv'
  <2> DEFINE r == InFlight("begun", "submit", d, None, None)
  <2>1. Knows(c, r) /\ definition[d] # "ABSENT"
    BY <1>9 DEF ResolveDefinition, PublishedDefinitions
  <2>2. r \in CallRecord /\ r.at = "begun" /\ r.op = "submit" /\ r.definition = d
    BY RecordType DEF Operation
  <2> HIDE DEF r
  <2>3. Carried(r) /\ Fresh(r)
    BY <2>1, <2>2 DEF Carried, Fresh, HasVersion, Updating, Publishing, Submitting
  <2> QED BY <2>1, <2>2, <2>3, KnowsKeeps
<1>10. ASSUME NEW v \in Versions, ResolveVersion(c, v)
       PROVE  FlowInv'
  <2>1. PICK nodes : nodes = version[v].nodes
    OBVIOUS
  <2> DEFINE r == InFlight("ready", "submit", v[1], v, nodes)
  <2>2. Knows(c, r) /\ Is(v, "PUBLISHED")
    BY <1>10, <2>1 DEF ResolveVersion, PublishedIn
  <2>3. v[1] \in Definitions /\ ~Is(v, "ABSENT") /\ definition[v[1]] # "ABSENT"
    BY <1>1, <2>2, VersionFacts DEF Is
  <2>4. nodes \in NodeLists
    BY <1>1, <2>1, <2>3 DEF FlowTypeOK
  <2>5. /\ r \in CallRecord /\ r.at = "ready" /\ r.op = "submit"
        /\ r.definition = v[1] /\ r.version = v /\ r.nodes = nodes
    BY <2>3, <2>4, RecordType DEF Operation
  <2> HIDE DEF r
  <2>6. Carried(r) /\ Fresh(r)
    BY <2>1, <2>2, <2>3, <2>4, <2>5 DEF Carried, Fresh, HasVersion, Updating, Publishing,
       Submitting, Is
  <2> QED BY <2>2, <2>5, <2>6, KnowsKeeps
<1> QED BY <1>3, <1>4, <1>5, <1>6, <1>7, <1>8, <1>9, <1>10 DEF Read

LEMMA RollBackKeeps ==
  ASSUME FlowInv, NEW c \in Calls, RollBack(c), overlapped' = (overlapped \/ Overlap')
  PROVE  FlowInv'
  BY IdleType, IdleCarriesNothing, KnowsKeeps DEF RollBack

-----------------------------------------------------------------------------
(***************************************************************************)
(* What is written                                                         *)
(***************************************************************************)
LEMMA SamePublished ==
  ASSUME FlowInv, overlapped => overlapped',
         \A d \in Definitions : definition'[d] = "PUBLISHED" <=> definition[d] = "PUBLISHED",
         \A v \in Versions : version'[v].status = "PUBLISHED" <=> version[v].status = "PUBLISHED"
  PROVE  PublishedIsUsable' /\ ArchivedTogether'
<1>1. PublishedDefinitions' = PublishedDefinitions
  BY DEF PublishedDefinitions
<1>2. \A d \in Definitions : PublishedIn(d)' = PublishedIn(d)
  BY DEF PublishedIn, VersionsOf, Is
<1>3. PublishedIsUsable'
  BY <1>1, <1>2 DEF FlowInv, PublishedIsUsable, PublishedDefinitions
<1>4. \A v \in Versions : v[1] \in Definitions
  BY DEF Versions
<1>5. ArchivedTogether'
  BY <1>4 DEF FlowInv, ArchivedTogether, Is
<1> QED BY <1>3, <1>5

LEMMA BoundKept ==
  ASSUME FlowInv, Forward, bound' = bound, overlapped => overlapped',
         \A v \in Versions : ~overlapped' /\ version[v].status \in {"PUBLISHED", "ARCHIVED"} =>
           version'[v].nodes = version[v].nodes
  PROVE  BoundOK' /\ BoundVersionsKept'
<1>1. BoundOK'
  BY DEF FlowInv, BoundOK
<1>2. ASSUME NEW r \in Requests, bound[r] # Unbound
      PROVE  /\ version'[bound[r].version].status \in {"PUBLISHED", "ARCHIVED"}
             /\ ~overlapped' => version'[bound[r].version].nodes = bound[r].nodes
  <2>1. PICK v \in Versions : v = bound[r].version
    BY <1>2 DEF FlowInv, BoundOK
  <2>2. /\ version[v].status \in {"PUBLISHED", "ARCHIVED"}
        /\ ~overlapped => version[v].nodes = bound[r].nodes
    BY <1>2, <2>1 DEF FlowInv, BoundVersionsKept
  <2> QED BY <2>1, <2>2 DEF Forward
<1>3. BoundVersionsKept'
  BY <1>2 DEF BoundVersionsKept
<1> QED BY <1>1, <1>3

\* The definition is new, and so is its version: no call knows them.
LEMMA CreateDefinitionKeeps ==
  ASSUME FlowInv, NEW d \in Definitions, NEW nodes \in NodeLists, CreateDefinition(d, nodes),
         overlapped' = (overlapped \/ Overlap')
  PROVE  FlowInv'
<1>1. FlowTypeOK /\ CallsOK /\ OverlapOK /\ AbsentTogether
  BY DEF FlowInv
<1>2. PICK v \in Versions : v = <<d, 1>>
  <2>1. 1 \in Numbers
    BY FlowAssumption DEF Numbers
  <2> QED BY <2>1 DEF Versions
<1>3. /\ definition[d] = "ABSENT" /\ Is(v, "ABSENT")
      /\ definition' = [definition EXCEPT ![d] = "DRAFT"]
      /\ version' = [version EXCEPT ![v] = [status |-> "DRAFT", nodes |-> nodes]]
      /\ bound' = bound /\ call' = call
  BY <1>1, <1>2 DEF CreateDefinition, AbsentTogether
<1>4. overlapped' \in BOOLEAN /\ (Overlap' => overlapped') /\ (overlapped => overlapped')
  BY <1>1, OverlapKept DEF OverlapOK
<1>5. /\ definition' \in [Definitions -> Status]
      /\ definition'[d] = "DRAFT" /\ \A e \in Definitions : e # d => definition'[e] = definition[e]
      /\ version' \in [Versions -> VersionRow]
      /\ version'[v].status = "DRAFT" /\ version'[v].nodes = nodes
      /\ \A w \in Versions : w # v => version'[w] = version[w]
  BY <1>1, <1>3 DEF FlowTypeOK, Status, VersionRow
<1>6. FlowTypeOK'
  BY <1>1, <1>3, <1>5 DEF FlowTypeOK, Is
<1>7. Forward
  BY <1>3, <1>5 DEF Forward, Is
<1>8. CallsOK'
  <2>1. ASSUME NEW c \in Calls
        PROVE  Carried(call[c])'
    BY <1>1, <1>3, <1>7 DEF CallsOK, Carried, Forward, Is, HasVersion, Updating, Publishing,
       Submitting
  <2> QED BY <2>1 DEF CallsOK
<1>9. OverlapOK'
  <2>1. ASSUME NEW c \in Calls, ~overlapped'
        PROVE  Fresh(call[c])'
    <3>1. Fresh(call[c]) /\ Carried(call[c]) /\ call'[c] = call[c]
      BY <1>1, <1>3, <1>4, <2>1 DEF OverlapOK, CallsOK
    <3>2. PublishedDefinitions' = PublishedDefinitions
      BY <1>3, <1>5 DEF PublishedDefinitions
    <3>3. \A e : PublishedIn(e)' = PublishedIn(e)
      BY <1>3, <1>5 DEF PublishedIn, VersionsOf, Is
    <3>4. HasVersion(call[c]) => version'[call[c].version] = version[call[c].version]
      BY <1>3, <1>5, <3>1 DEF Carried
    <3>5. Updating(call[c]) => Is(call[c].version, "DRAFT")'
      BY <3>1, <3>4 DEF Fresh, HasVersion, Is
    <3>6. Submitting(call[c]) => version'[call[c].version].nodes = call[c].nodes
      BY <3>1, <3>4 DEF Fresh, HasVersion
    <3>7. Publishing(call[c]) =>
            /\ call[c].priors = PublishedDefinitions' \ {call[c].definition}
            /\ call[c].seen = UNION {PublishedIn(e)' : e \in call[c].priors}
      BY <3>1, <3>2, <3>3 DEF Fresh
    <3> QED BY <3>1, <3>5, <3>6, <3>7 DEF Fresh, Updating, Publishing, Submitting
  <2> QED BY <1>4, <2>1 DEF OverlapOK
<1>10. AbsentTogether'
  <2>1. \A w \in Versions : w[1] \in Definitions
    BY DEF Versions
  <2>2. v[1] = d
    BY <1>2
  <2> QED BY <1>1, <1>5, <2>1, <2>2 DEF AbsentTogether, Is
<1>11. PublishedIsUsable' /\ ArchivedTogether'
  BY <1>3, <1>4, <1>5, SamePublished DEF Is
<1>12. BoundOK' /\ BoundVersionsKept'
  BY <1>3, <1>4, <1>5, <1>7, BoundKept DEF Is
<1> QED BY <1>6, <1>8, <1>9, <1>10, <1>11, <1>12 DEF FlowInv

LEMMA CreateVersionKeeps ==
  ASSUME FlowInv, NEW c \in Calls, NEW n \in Numbers, CreateVersion(c, n),
         overlapped' = (overlapped \/ Overlap')
  PROVE  FlowInv'
<1>1. FlowTypeOK /\ CallsOK /\ OverlapOK /\ AbsentTogether
  BY DEF FlowInv
<1>2. PICK d, nodes : d = call[c].definition /\ nodes = call[c].nodes
  OBVIOUS
<1>3. call[c].op = "createVersion" /\ call[c].at = "ready" /\ Carried(call[c])
  BY <1>1 DEF CreateVersion, At, CallsOK
<1>4. d \in Definitions /\ definition[d] # "ABSENT" /\ nodes \in NodeLists
  BY <1>2, <1>3 DEF Carried
<1>5. PICK v \in Versions : v = <<d, n>>
  BY <1>4 DEF Versions
<1>6. /\ Is(v, "ABSENT")
      /\ version' = [version EXCEPT ![v] = [status |-> "DRAFT", nodes |-> nodes]]
      /\ definition' = definition /\ bound' = bound /\ Finish(c)
  BY <1>2, <1>5 DEF CreateVersion
<1>7. overlapped => overlapped'
  BY <1>1, OverlapKept DEF OverlapOK
<1>8. /\ version' \in [Versions -> VersionRow]
      /\ version'[v].status = "DRAFT" /\ version'[v].nodes = nodes
      /\ \A w \in Versions : w # v => version'[w] = version[w]
  BY <1>1, <1>4, <1>6 DEF FlowTypeOK, Status, VersionRow
<1>9. Forward
  BY <1>6, <1>8 DEF Forward, Is
<1>10. CallsOK' /\ OverlapOK' /\ call' \in [Calls -> CallRecord]
  BY <1>3, <1>6, <1>9, FinishKeeps
<1>11. FlowTypeOK'
  BY <1>1, <1>4, <1>6, <1>8, <1>10 DEF FlowTypeOK, Is
<1>12. AbsentTogether'
  BY <1>1, <1>4, <1>5, <1>6, <1>8 DEF AbsentTogether, Is
<1>13. PublishedIsUsable' /\ ArchivedTogether'
  BY <1>6, <1>7, <1>8, SamePublished DEF Is
<1>14. BoundOK' /\ BoundVersionsKept'
  BY <1>6, <1>7, <1>8, <1>9, BoundKept DEF Is
<1> QED BY <1>10, <1>11, <1>12, <1>13, <1>14 DEF FlowInv

\* Unless calls overlap, the version is still the draft that was read, which nothing is
\* bound to.
LEMMA ReplaceNodesKeeps ==
  ASSUME FlowInv, NEW c \in Calls, ReplaceNodes(c), overlapped' = (overlapped \/ Overlap')
  PROVE  FlowInv'
<1>1. FlowTypeOK /\ CallsOK /\ OverlapOK /\ AbsentTogether
  BY DEF FlowInv
<1>2. PICK v, nodes : v = call[c].version /\ nodes = call[c].nodes
  OBVIOUS
<1>3. Updating(call[c]) /\ call[c].at # "idle" /\ Carried(call[c])
  BY <1>1 DEF ReplaceNodes, At, CallsOK, Updating
<1>4. v \in Versions /\ ~Is(v, "ABSENT") /\ nodes \in NodeLists
  BY <1>2, <1>3 DEF Carried, HasVersion, Updating
<1>5. /\ version' = [version EXCEPT ![v].nodes = nodes]
      /\ definition' = definition /\ bound' = bound /\ Finish(c)
  BY <1>2 DEF ReplaceNodes
<1>6. overlapped => overlapped'
  BY <1>1, OverlapKept DEF OverlapOK
<1>7. /\ version' \in [Versions -> VersionRow]
      /\ version'[v].status = version[v].status /\ version'[v].nodes = nodes
      /\ \A w \in Versions : w # v => version'[w] = version[w]
  BY <1>1, <1>4, <1>5 DEF FlowTypeOK, VersionRow
<1>8. Forward
  BY <1>5, <1>7 DEF Forward, Is
<1>9. CallsOK' /\ OverlapOK' /\ call' \in [Calls -> CallRecord]
  BY <1>3, <1>5, <1>8, FinishKeeps
<1>10. FlowTypeOK'
  BY <1>1, <1>4, <1>5, <1>7, <1>9 DEF FlowTypeOK, Is
<1>11. AbsentTogether'
  BY <1>1, <1>5, <1>7 DEF AbsentTogether, Is
<1>12. PublishedIsUsable' /\ ArchivedTogether'
  BY <1>5, <1>6, <1>7, SamePublished
<1>13. ~overlapped' => Is(v, "DRAFT")
  BY <1>1, <1>2, <1>3, <1>6 DEF OverlapOK, Fresh
<1>14. BoundOK' /\ BoundVersionsKept'
  BY <1>5, <1>6, <1>7, <1>8, <1>13, BoundKept DEF Is
<1> QED BY <1>9, <1>10, <1>11, <1>12, <1>14 DEF FlowInv

\* A publish leaves one published definition with one published version, also when it
\* has missed what a racing one has published in another definition: only then is
\* something left published under an archived definition.
LEMMA PublishKeeps ==
  ASSUME FlowInv, NEW c \in Calls, Publish(c), overlapped' = (overlapped \/ Overlap')
  PROVE  FlowInv'
<1>1. FlowTypeOK /\ CallsOK /\ OverlapOK /\ AbsentTogether
  BY DEF FlowInv
<1>2. PICK v, d, priors : v = call[c].version /\ d = call[c].definition /\ priors = call[c].priors
  OBVIOUS
<1>3. Publishing(call[c]) /\ call[c].at # "idle" /\ Carried(call[c])
  BY <1>1 DEF Publish, At, CallsOK, Publishing
<1>4. v \in Versions /\ v[1] = d /\ ~Is(v, "ABSENT") /\ d \in Definitions /\ d \notin priors
      /\ definition[d] # "ABSENT"
  BY <1>2, <1>3 DEF Carried, HasVersion, Publishing
<1>5. PICK now : now = UNION {PublishedIn(e) : e \in priors}
  OBVIOUS
<1>6. PICK archived \in {now, now \cap call[c].seen} :
        version' = [w \in Versions |->
          IF w = v THEN [version[v] EXCEPT !.status = "PUBLISHED"]
          ELSE IF w \in archived \cup PublishedIn(d)
          THEN [version[w] EXCEPT !.status = "ARCHIVED"]
          ELSE version[w]]
  BY <1>2, <1>5 DEF Publish
<1>7. /\ definition' = [e \in Definitions |->
           IF e = d THEN "PUBLISHED" ELSE IF e \in priors THEN "ARCHIVED" ELSE definition[e]]
      /\ PublishedDefinitions \subseteq priors \cup {d}
      /\ bound' = bound /\ Finish(c)
  BY <1>2 DEF Publish
<1>8. overlapped => overlapped'
  BY <1>1, OverlapKept DEF OverlapOK
<1>9. PICK gone : gone = (archived \cup PublishedIn(d)) \ {v}
  OBVIOUS
<1>10. \A w \in gone : w \in Versions /\ version[w].status = "PUBLISHED"
  BY <1>5, <1>6, <1>9 DEF PublishedIn, VersionsOf, Is
<1>11. ASSUME NEW w \in Versions
       PROVE  /\ version'[w] \in VersionRow /\ version'[w].nodes = version[w].nodes
              /\ version'[w].status = IF w = v THEN "PUBLISHED"
                                      ELSE IF w \in gone THEN "ARCHIVED" ELSE version[w].status
  <2>1. version[w] \in VersionRow
    BY <1>1 DEF FlowTypeOK
  <2>2. version'[w] = IF w = v THEN [version[w] EXCEPT !.status = "PUBLISHED"]
                      ELSE IF w \in gone THEN [version[w] EXCEPT !.status = "ARCHIVED"]
                      ELSE version[w]
    BY <1>6, <1>9
  <2> QED BY <2>1, <2>2 DEF VersionRow, Status
<1>12. version' \in [Versions -> VersionRow]
  BY <1>6, <1>11
<1>13. definition' \in [Definitions -> Status]
  BY <1>1, <1>7 DEF FlowTypeOK, Status
<1>14. Forward
  BY <1>4, <1>7, <1>10, <1>11 DEF Forward, Is
<1>15. CallsOK' /\ OverlapOK' /\ call' \in [Calls -> CallRecord]
  BY <1>3, <1>7, <1>14, FinishKeeps
<1>16. FlowTypeOK'
  <2>1. \A w \in Versions : version'[w].status # "ABSENT" => version'[w].nodes \in NodeLists
    BY <1>1, <1>4, <1>10, <1>11 DEF FlowTypeOK, Is
  <2> QED BY <1>1, <1>7, <1>12, <1>13, <1>15, <2>1 DEF FlowTypeOK, Is
<1>17. AbsentTogether'
  <2>1. \A w \in Versions : w[1] \in Definitions
    BY DEF Versions
  <2> QED BY <1>1, <1>4, <1>7, <1>10, <1>11, <2>1 DEF AbsentTogether, Is
<1>18. PublishedDefinitions' = {d}
  BY <1>4, <1>7 DEF PublishedDefinitions
<1>19. PublishedIn(d)' = {v}
  <2>1. \A w \in VersionsOf(d) : w # v /\ version[w].status = "PUBLISHED" => w \in gone
    BY <1>9 DEF PublishedIn, Is
  <2> QED BY <1>4, <1>11, <2>1 DEF PublishedIn, VersionsOf, Is
<1>20. PublishedIsUsable'
  BY <1>4, <1>18, <1>19 DEF PublishedIsUsable
<1>21. ASSUME ~overlapped', NEW w \in Versions, version'[w].status = "PUBLISHED"
       PROVE  definition'[w[1]] = "PUBLISHED"
  <2>1. priors = PublishedDefinitions \ {d} /\ call[c].seen = now
    BY <1>1, <1>2, <1>3, <1>5, <1>8, <1>21 DEF OverlapOK, Fresh
  <2>2. archived = now
    BY <1>6, <2>1
  <2>3. CASE w = v
    BY <1>4, <1>7, <2>3
  <2>4. CASE w # v
    <3>1. w \notin gone /\ version[w].status = "PUBLISHED" /\ w[1] \in Definitions
      BY <1>11, <1>21, <2>4 DEF Versions
    <3>2. definition[w[1]] = "PUBLISHED"
      BY <1>8, <1>21, <3>1 DEF FlowInv, ArchivedTogether, Is
    <3>3. w[1] \in priors \cup {d}
      BY <1>7, <3>1, <3>2 DEF PublishedDefinitions
    <3>4. w \in PublishedIn(w[1])
      BY <3>1 DEF PublishedIn, VersionsOf, Is
    <3>5. w[1] # d => w \in now
      BY <1>5, <3>3, <3>4
    <3> QED BY <1>9, <2>2, <2>4, <3>1, <3>4, <3>5
  <2> QED BY <2>3, <2>4
<1>22. ArchivedTogether'
  BY <1>21 DEF ArchivedTogether, Is
<1>23. BoundOK' /\ BoundVersionsKept'
  BY <1>7, <1>8, <1>11, <1>14, BoundKept
<1> QED BY <1>15, <1>16, <1>17, <1>20, <1>22, <1>23 DEF FlowInv

LEMMA ArchiveKeeps ==
  ASSUME FlowInv, NEW c \in Calls, Archive(c), overlapped' = (overlapped \/ Overlap')
  PROVE  FlowInv'
<1>1. FlowTypeOK /\ CallsOK /\ OverlapOK /\ AbsentTogether
  BY DEF FlowInv
<1>2. PICK d : d = call[c].definition
  OBVIOUS
<1>3. call[c].op = "archive" /\ call[c].at = "ready" /\ Carried(call[c])
  BY <1>1 DEF Archive, At, CallsOK
<1>4. d \in Definitions /\ definition[d] # "ABSENT"
  BY <1>2, <1>3 DEF Carried
<1>5. /\ definition' = [definition EXCEPT ![d] = "ARCHIVED"]
      /\ version' = [v \in Versions |->
           IF v[1] = d /\ (Is(v, "DRAFT") \/ Is(v, "PUBLISHED"))
           THEN [version[v] EXCEPT !.status = "ARCHIVED"] ELSE version[v]]
      /\ bound' = bound /\ Finish(c)
  BY <1>2 DEF Archive
<1>6. overlapped => overlapped'
  BY <1>1, OverlapKept DEF OverlapOK
<1>7. ASSUME NEW v \in Versions
      PROVE  /\ version'[v] \in VersionRow /\ version'[v].nodes = version[v].nodes
             /\ version'[v].status \in {version[v].status, "ARCHIVED"}
             /\ version'[v].status = "ABSENT" <=> version[v].status = "ABSENT"
             /\ v[1] = d => version'[v].status # "PUBLISHED"
             /\ v[1] # d => version'[v] = version[v]
  <2>1. version[v] \in VersionRow
    BY <1>1 DEF FlowTypeOK
  <2>2. version'[v] = IF v[1] = d /\ (Is(v, "DRAFT") \/ Is(v, "PUBLISHED"))
                      THEN [version[v] EXCEPT !.status = "ARCHIVED"] ELSE version[v]
    BY <1>5
  <2> QED BY <2>1, <2>2 DEF VersionRow, Status, Is
<1>8. version' \in [Versions -> VersionRow] /\ definition' \in [Definitions -> Status]
  BY <1>1, <1>5, <1>7 DEF FlowTypeOK, Status
<1>9. definition'[d] = "ARCHIVED" /\ \A e \in Definitions : e # d => definition'[e] = definition[e]
  BY <1>1, <1>4, <1>5 DEF FlowTypeOK
<1>10. Forward
  BY <1>7, <1>9 DEF Forward, Is
<1>11. CallsOK' /\ OverlapOK' /\ call' \in [Calls -> CallRecord]
  BY <1>3, <1>5, <1>10, FinishKeeps
<1>12. FlowTypeOK'
  BY <1>1, <1>5, <1>7, <1>8, <1>11 DEF FlowTypeOK, Is
<1>13. \A v \in Versions : v[1] \in Definitions
  BY DEF Versions
<1>14. AbsentTogether'
  BY <1>1, <1>7, <1>9, <1>13 DEF AbsentTogether, Is
<1>15. PublishedIsUsable'
  <2>1. PublishedDefinitions' \subseteq PublishedDefinitions \ {d}
    BY <1>9 DEF PublishedDefinitions
  <2>2. ASSUME NEW e \in PublishedDefinitions'
        PROVE  PublishedIn(e)' = PublishedIn(e)
    BY <1>7, <2>1, <2>2 DEF PublishedIn, VersionsOf, Is
  <2> QED BY <2>1, <2>2 DEF FlowInv, PublishedIsUsable
<1>16. ArchivedTogether'
  BY <1>6, <1>7, <1>9, <1>13 DEF FlowInv, ArchivedTogether, Is
<1>17. BoundOK' /\ BoundVersionsKept'
  BY <1>5, <1>6, <1>7, <1>10, BoundKept
<1> QED BY <1>11, <1>12, <1>14, <1>15, <1>16, <1>17 DEF FlowInv

LEMMA SubmitKeeps ==
  ASSUME FlowInv, NEW c \in Calls, NEW r \in Requests, Submit(c, r),
         overlapped' = (overlapped \/ Overlap')
  PROVE  FlowInv'
<1>1. FlowTypeOK /\ CallsOK /\ OverlapOK /\ AbsentTogether
  BY DEF FlowInv
<1>2. PICK v, nodes : v = call[c].version /\ nodes = call[c].nodes
  OBVIOUS
<1>3. Submitting(call[c]) /\ call[c].at # "idle" /\ Carried(call[c])
  BY <1>1 DEF Submit, At, CallsOK, Submitting
<1>4. /\ v \in Versions /\ nodes \in NodeLists
      /\ version[v].status \in {"PUBLISHED", "ARCHIVED"}
  BY <1>2, <1>3 DEF Carried, HasVersion
<1>5. /\ bound' = [bound EXCEPT ![r] = [version |-> v, nodes |-> nodes]]
      /\ definition' = definition /\ version' = version /\ Finish(c)
  BY <1>2 DEF Submit
<1>6. overlapped => overlapped'
  BY <1>1, OverlapKept DEF OverlapOK
<1>7. Forward
  BY <1>5 DEF Forward, Is
<1>8. CallsOK' /\ OverlapOK' /\ call' \in [Calls -> CallRecord]
  BY <1>3, <1>5, <1>7, FinishKeeps
<1>9. /\ bound' \in [Requests -> Binding]
      /\ bound'[r].version = v /\ bound'[r].nodes = nodes
      /\ \A q \in Requests : q # r => bound'[q] = bound[q]
  BY <1>1, <1>4, <1>5 DEF FlowTypeOK, Binding
<1>10. FlowTypeOK'
  BY <1>1, <1>5, <1>8, <1>9 DEF FlowTypeOK, Is
<1>11. AbsentTogether'
  BY <1>1, <1>5 DEF AbsentTogether, Is
<1>12. PublishedIsUsable' /\ ArchivedTogether'
  BY <1>5, <1>6, SamePublished
<1>13. ~overlapped' => version[v].nodes = nodes
  BY <1>1, <1>2, <1>3, <1>6 DEF OverlapOK, Fresh
<1>14. BoundOK' /\ BoundVersionsKept'
  BY <1>4, <1>5, <1>6, <1>9, <1>13 DEF FlowInv, BoundOK, BoundVersionsKept
<1> QED BY <1>8, <1>10, <1>11, <1>12, <1>14 DEF FlowInv

-----------------------------------------------------------------------------
(***************************************************************************)
(* The theorems                                                            *)
(***************************************************************************)
LEMMA InitHolds == Init => FlowInv
<1> SUFFICES ASSUME Init PROVE FlowInv
  OBVIOUS
<1>1. /\ \A d \in Definitions : definition[d] = "ABSENT"
      /\ \A v \in Versions : version[v].status = "ABSENT"
      /\ \A r \in Requests : bound[r] = Unbound
      /\ \A c \in Calls : call[c] = Idle
      /\ overlapped = FALSE
  BY DEF Init, NoVersion
<1>2. FlowTypeOK
  BY <1>1, IdleType DEF Init, FlowTypeOK, Status, VersionRow, NoVersion, Binding, Unbound, Is
<1>3. CallsOK
  BY <1>1, IdleType, IdleCarriesNothing DEF CallsOK
<1>4. OverlapOK
  BY <1>1, IdleType, IdleCarriesNothing DEF OverlapOK, Overlap
<1>5. AbsentTogether /\ BoundOK /\ PublishedIsUsable /\ BoundVersionsKept /\ ArchivedTogether
  BY <1>1 DEF AbsentTogether, BoundOK, PublishedIsUsable, PublishedDefinitions,
     BoundVersionsKept, ArchivedTogether, Is
<1> QED BY <1>2, <1>3, <1>4, <1>5 DEF FlowInv

LEMMA NextKeeps == FlowInv /\ [Next]_vars => FlowInv'
<1> SUFFICES ASSUME FlowInv, [Next]_vars
             PROVE  FlowInv'
  OBVIOUS
<1>1. CASE Next
  <2>1. overlapped' = (overlapped \/ Overlap')
    BY <1>1 DEF Next
  <2>2. ASSUME NEW d \in Definitions, NEW nodes \in NodeLists, CreateDefinition(d, nodes)
        PROVE  FlowInv'
    BY <2>1, <2>2, CreateDefinitionKeeps
  <2>3. ASSUME NEW c \in Calls, Read(c) \/ RollBack(c)
        PROVE  FlowInv'
    BY <2>1, <2>3, ReadKeeps, RollBackKeeps
  <2>4. ASSUME NEW c \in Calls, Commit(c)
        PROVE  FlowInv'
    BY <2>1, <2>4, CreateVersionKeeps, ReplaceNodesKeeps, PublishKeeps, ArchiveKeeps,
       SubmitKeeps DEF Commit
  <2> QED BY <1>1, <2>2, <2>3, <2>4 DEF Next
<1>2. CASE UNCHANGED vars
  BY <1>2 DEF vars, FlowInv, FlowTypeOK, CallsOK, OverlapOK, Overlap, AbsentTogether, BoundOK,
     PublishedIsUsable, BoundVersionsKept, ArchivedTogether, Carried, Fresh, Is,
     PublishedDefinitions, PublishedIn, VersionsOf
<1> QED BY <1>1, <1>2

\* What racing calls carry stays true of the rows they have read, and with it all below.
THEOREM FlowInvariance == Spec => []FlowInv
<1>1. Init => FlowInv
  BY InitHolds
<1>2. FlowInv /\ [Next]_vars => FlowInv'
  BY NextKeeps
<1> QED BY <1>1, <1>2, PTL DEF Spec

\* Every row and every call has its type, and a version always has its nodes.
THEOREM FlowTyped == Spec => []FlowTypeOK
<1>1. FlowInv => FlowTypeOK
  BY DEF FlowInv
<1> QED BY <1>1, FlowInvariance, PTL

\* publishVersion and archiveDefinition, however they race, leave at most one published
\* definition, and exactly one published version in it: a new request finds its flow.
THEOREM NewRequestFindsFlow == Spec => []PublishedIsUsable
<1>1. FlowInv => PublishedIsUsable
  BY DEF FlowInv
<1> QED BY <1>1, FlowInvariance, PTL

\* A request stays bound to a version that is never a draft again, and that keeps its
\* nodes as long as no calls overlap.
THEOREM BindingsKept == Spec => []BoundVersionsKept
<1>1. FlowInv => BoundVersionsKept
  BY DEF FlowInv
<1> QED BY <1>1, FlowInvariance, PTL

\* As long as no calls overlap, nothing is published under a definition that is not.
THEOREM VersionsFollowDefinition == Spec => []ArchivedTogether
<1>1. FlowInv => ArchivedTogether
  BY DEF FlowInv
<1> QED BY <1>1, FlowInvariance, PTL
=============================================================================
