---------------------------- MODULE ApprovalFlows ----------------------------
(***************************************************************************)
(* Management of approval flows (backend/src/employment-approvals/         *)
(* employment-approval-flow-management.service) and the choice of a flow   *)
(* version for a new request (resolveFlowVersion of the runtime).          *)
(*                                                                         *)
(* One business type: flows of different types share no row.  Every        *)
(* operation is one READ COMMITTED transaction whose checks are made on    *)
(* reads without a lock and whose updates carry no condition, except for   *)
(* the two partial unique indexes on PUBLISHED rows.                       *)
(***************************************************************************)
EXTENDS Naturals

CONSTANTS
  Definitions,  \* ids of ApprovalFlowDefinition rows, all of one business type
  MaxVersions,  \* bound: versions of a definition
  NodeLists,    \* valid lists of approval nodes
  Requests,     \* ids of ApprovalRequest rows
  Calls,        \* API calls that may be in flight at the same time
  None          \* the SQL NULL

ASSUME FlowAssumption ==
  /\ MaxVersions \in Nat \ {0}
  /\ None \notin Definitions \cup NodeLists \cup Requests

Numbers == 1 .. MaxVersions
Versions == Definitions \X Numbers
Status == {"ABSENT", "DRAFT", "PUBLISHED", "ARCHIVED"}

VersionRow == [status : Status, nodes : NodeLists \cup {None}]
Binding == [version : Versions \cup {None}, nodes : NodeLists \cup {None}]
Operation == {"createVersion", "updateDefinition", "updateVersion", "publish", "archive", "submit"}
CallRecord ==
  [at : {"idle", "begun", "ready"}, op : Operation, definition : Definitions \cup {None},
   version : Versions \cup {None}, nodes : NodeLists \cup {None},
   priors : SUBSET Definitions, seen : SUBSET Versions]

VARIABLES
  definition,  \* definition[d]: status of the definition row
  version,     \* version[<<d, n>>]: version n of d and its nodes
  bound,       \* bound[r]: flow version of request r and the nodes its steps were made from
  call,        \* call[c]: the transaction in flight and what it has read
  overlapped   \* history variable: two calls have been in flight at the same time

vars == <<definition, version, bound, call, overlapped>>

NoVersion == [status |-> "ABSENT", nodes |-> None]
Unbound == [version |-> None, nodes |-> None]
InFlight(at, op, d, v, nodes) ==
  [at |-> at, op |-> op, definition |-> d, version |-> v, nodes |-> nodes,
   priors |-> {}, seen |-> {}]
Idle == InFlight("idle", "submit", None, None, None)

Init ==
  /\ definition = [d \in Definitions |-> "ABSENT"]
  /\ version = [v \in Versions |-> NoVersion]
  /\ bound = [r \in Requests |-> Unbound]
  /\ call = [c \in Calls |-> Idle]
  /\ overlapped = FALSE

-----------------------------------------------------------------------------
VersionsOf(d) == {v \in Versions : v[1] = d}
Is(v, status) == version[v].status = status
PublishedIn(d) == {v \in VersionsOf(d) : Is(v, "PUBLISHED")}
PublishedDefinitions == {d \in Definitions : definition[d] = "PUBLISHED"}

\* Reads change nothing but what the call knows.
Knows(c, record) ==
  /\ call' = [call EXCEPT ![c] = record]
  /\ UNCHANGED <<definition, version, bound>>

At(c, op, at) == call[c].op = op /\ call[c].at = at

Finish(c) == call' = [call EXCEPT ![c] = Idle]

CreateDefinition(d, nodes) ==
  /\ definition[d] = "ABSENT"
  /\ definition' = [definition EXCEPT ![d] = "DRAFT"]
  /\ version' = [version EXCEPT ![<<d, 1>>] = [status |-> "DRAFT", nodes |-> nodes]]
  /\ UNCHANGED <<bound, call>>

\* createVersion: not under an archived definition; the number is the latest plus
\* one, and unique.
LoadForCreateVersion(c, d, nodes) ==
  /\ call[c].at = "idle"
  /\ definition[d] \notin {"ABSENT", "ARCHIVED"}
  /\ Knows(c, InFlight("ready", "createVersion", d, None, nodes))

CreateVersion(c, n) ==
  LET d == call[c].definition IN
  /\ At(c, "createVersion", "ready")
  /\ Is(<<d, n>>, "ABSENT")
  /\ \A m \in Numbers : m < n => ~Is(<<d, m>>, "ABSENT")
  /\ version' = [version EXCEPT ![<<d, n>>] = [status |-> "DRAFT", nodes |-> call[c].nodes]]
  /\ Finish(c)
  /\ UNCHANGED <<definition, bound>>

\* updateDefinition with new nodes: the definition, then its latest draft version.
\* (A call that also renames locks the definition row and can do less.)
LoadForUpdateDefinition(c, d, nodes) ==
  /\ call[c].at = "idle"
  /\ definition[d] = "DRAFT"
  /\ Knows(c, InFlight("begun", "updateDefinition", d, None, nodes))

FindDraftVersion(c, v) ==
  /\ At(c, "updateDefinition", "begun")
  /\ v[1] = call[c].definition
  /\ Is(v, "DRAFT")
  /\ \A w \in VersionsOf(v[1]) : Is(w, "DRAFT") => w[2] <= v[2]
  /\ Knows(c, [call[c] EXCEPT !.at = "ready", !.version = v])

\* Mutant: the status of the version is not looked at.
LoadAnyForUpdateVersion(c, v, nodes) ==
  /\ call[c].at = "idle"
  /\ ~Is(v, "ABSENT")
  /\ definition[v[1]] # "ARCHIVED"
  /\ Knows(c, InFlight("ready", "updateVersion", v[1], v, nodes))

\* updateVersion: only a draft, and not under an archived definition.
LoadForUpdateVersion(c, v, nodes) ==
  /\ call[c].at = "idle"
  /\ Is(v, "DRAFT")
  /\ definition[v[1]] # "ARCHIVED"
  /\ Knows(c, InFlight("ready", "updateVersion", v[1], v, nodes))

\* Mutant: the old nodes are deleted and no new ones created.
DeletesNodes(c) ==
  /\ At(c, "updateDefinition", "ready") \/ At(c, "updateVersion", "ready")
  /\ version' = [version EXCEPT ![call[c].version].nodes = None]
  /\ Finish(c)
  /\ UNCHANGED <<definition, bound>>

\* replaceNodes: by the id of the version alone.
ReplaceNodes(c) ==
  /\ At(c, "updateDefinition", "ready") \/ At(c, "updateVersion", "ready")
  /\ version' = [version EXCEPT ![call[c].version].nodes = call[c].nodes]
  /\ Finish(c)
  /\ UNCHANGED <<definition, bound>>

-----------------------------------------------------------------------------
\* publishVersion: the version with its definition, then the other published
\* definitions of the business type.
LoadForPublish(c, v) ==
  /\ call[c].at = "idle"
  /\ Is(v, "DRAFT")
  /\ definition[v[1]] # "ARCHIVED"
  /\ Knows(c, InFlight("begun", "publish", v[1], v, None))

LoadPriors(c) ==
  LET priors == PublishedDefinitions \ {call[c].definition} IN
  /\ At(c, "publish", "begun")
  /\ Knows(c, [call[c] EXCEPT !.at = "ready", !.priors = priors,
                              !.seen = UNION {PublishedIn(d) : d \in priors}])

(***************************************************************************)
(* Its updates.  The statement that archives the published versions of a   *)
(* prior definition may wait for the lock of a racing publish: it then     *)
(* finds the rows that were PUBLISHED when it started and still are, and   *)
(* misses the one the race has published meanwhile.                        *)
(***************************************************************************)
Publish(c) ==
  LET v == call[c].version
      d == call[c].definition
      priors == call[c].priors
      now == UNION {PublishedIn(e) : e \in priors}
  IN
  /\ At(c, "publish", "ready")
  /\ \E archived \in {now, now \cap call[c].seen} :
       version' = [w \in Versions |->
         IF w = v THEN [version[v] EXCEPT !.status = "PUBLISHED"]
         ELSE IF w \in archived \cup PublishedIn(d)
         THEN [version[w] EXCEPT !.status = "ARCHIVED"]
         ELSE version[w]]
  /\ definition' = [e \in Definitions |->
       IF e = d THEN "PUBLISHED" ELSE IF e \in priors THEN "ARCHIVED" ELSE definition[e]]
  \* approval_flow_definitions_published_business_type_key
  /\ PublishedDefinitions \subseteq priors \cup {d}
  /\ Finish(c)
  /\ UNCHANGED bound

LoadForArchive(c, d) ==
  /\ call[c].at = "idle"
  /\ definition[d] \notin {"ABSENT", "ARCHIVED"}
  /\ Knows(c, InFlight("ready", "archive", d, None, None))

\* Mutant: only the drafts of the definition are archived with it.
ArchivesDraftsOnly(c) ==
  LET d == call[c].definition IN
  /\ At(c, "archive", "ready")
  /\ definition' = [definition EXCEPT ![d] = "ARCHIVED"]
  /\ version' = [v \in Versions |->
       IF v[1] = d /\ Is(v, "DRAFT")
       THEN [version[v] EXCEPT !.status = "ARCHIVED"] ELSE version[v]]
  /\ Finish(c)
  /\ UNCHANGED bound

\* Mutant: the versions are archived and the definition is not.
ArchivesVersionsOnly(c) ==
  LET d == call[c].definition IN
  /\ At(c, "archive", "ready")
  /\ version' = [v \in Versions |->
       IF v[1] = d /\ (Is(v, "DRAFT") \/ Is(v, "PUBLISHED"))
       THEN [version[v] EXCEPT !.status = "ARCHIVED"] ELSE version[v]]
  /\ Finish(c)
  /\ UNCHANGED <<definition, bound>>

Archive(c) ==
  LET d == call[c].definition IN
  /\ At(c, "archive", "ready")
  /\ definition' = [definition EXCEPT ![d] = "ARCHIVED"]
  /\ version' = [v \in Versions |->
       IF v[1] = d /\ (Is(v, "DRAFT") \/ Is(v, "PUBLISHED"))
       THEN [version[v] EXCEPT !.status = "ARCHIVED"] ELSE version[v]]
  /\ Finish(c)
  /\ UNCHANGED bound

-----------------------------------------------------------------------------
\* resolveFlowVersion, without an explicit version as both owners call it: the
\* only published definition, then its only published version with its nodes.
ResolveDefinition(c, d) ==
  /\ call[c].at = "idle"
  /\ PublishedDefinitions = {d}
  /\ Knows(c, InFlight("begun", "submit", d, None, None))

ResolveVersion(c, v) ==
  /\ At(c, "submit", "begun")
  /\ PublishedIn(call[c].definition) = {v}
  /\ Knows(c, InFlight("ready", "submit", v[1], v, version[v].nodes))

\* The request row with one step per node.
Submit(c, r) ==
  /\ At(c, "submit", "ready")
  /\ bound[r] = Unbound
  /\ bound' = [bound EXCEPT ![r] = [version |-> call[c].version, nodes |-> call[c].nodes]]
  /\ Finish(c)
  /\ UNCHANGED <<definition, version>>

\* A check or a unique index throws, or the process dies: nothing is kept.
RollBack(c) ==
  /\ call[c].at # "idle"
  /\ Knows(c, Idle)

Read(c) ==
  \/ \E d \in Definitions, nodes \in NodeLists :
       LoadForCreateVersion(c, d, nodes) \/ LoadForUpdateDefinition(c, d, nodes)
  \/ \E v \in Versions, nodes \in NodeLists : LoadForUpdateVersion(c, v, nodes)
  \/ \E v \in Versions : FindDraftVersion(c, v) \/ LoadForPublish(c, v) \/ ResolveVersion(c, v)
  \/ LoadPriors(c)
  \/ \E d \in Definitions : LoadForArchive(c, d) \/ ResolveDefinition(c, d)

Commit(c) ==
  \/ \E n \in Numbers : CreateVersion(c, n)
  \/ ReplaceNodes(c)
  \/ Publish(c)
  \/ Archive(c)
  \/ \E r \in Requests : Submit(c, r)

Overlap == \E c, d \in Calls : c # d /\ call[c].at # "idle" /\ call[d].at # "idle"

Next ==
  /\ \/ \E d \in Definitions, nodes \in NodeLists : CreateDefinition(d, nodes)
     \/ \E c \in Calls : Read(c) \/ Commit(c) \/ RollBack(c)
  /\ overlapped' = (overlapped \/ Overlap')

Spec == Init /\ [][Next]_vars

-----------------------------------------------------------------------------
(***************************************************************************)
(* Properties                                                              *)
(***************************************************************************)
\* Every variable keeps its shape.
FlowTypeOK ==
  /\ definition \in [Definitions -> Status]
  /\ version \in [Versions -> VersionRow]
  /\ bound \in [Requests -> Binding]
  /\ call \in [Calls -> CallRecord]
  /\ \A v \in Versions : ~Is(v, "ABSENT") => version[v].nodes \in NodeLists

\* A new request finds its flow: whatever publishes and archives race, a published
\* definition has exactly one published version, so resolveFlowVersion never
\* answers "no published version" or "several" for a definition it has found.
PublishedIsUsable ==
  /\ \A d, e \in PublishedDefinitions : d = e
  /\ \A d \in PublishedDefinitions : \E v \in Versions : PublishedIn(d) = {v}

\* docs/EMPLOYMENT_BUSINESS_RULES.md 3.3 (line 82): a request stays bound to the version
\* it was submitted under, which is never a draft again, and keeps the nodes it was
\* submitted under.  A publish and a submission between the read and the write of
\* updateVersion change its nodes.
BoundVersionsKept ==
  \A r \in Requests : bound[r] # Unbound =>
    /\ version[bound[r].version].status \in {"PUBLISHED", "ARCHIVED"}
    /\ ~overlapped => version[bound[r].version].nodes = bound[r].nodes

\* docs/EMPLOYMENT_BUSINESS_RULES.md 3.1 (line 54): the published version of a
\* definition is archived together with the definition.  A publish that read the
\* definition before it was archived breaks this.
ArchivedTogether ==
  ~overlapped => \A v \in Versions : Is(v, "PUBLISHED") => definition[v[1]] = "PUBLISHED"
=============================================================================
