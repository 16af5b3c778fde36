------------------------------ MODULE AuditTrail ------------------------------
(***************************************************************************)
(* GET /audit-trail: AuditService.merged_trail and merge_trail of          *)
(* app/services/audit.py, which merge the ledger with what the tables      *)
(* show, while other requests write both.                                  *)
(*                                                                         *)
(* The ledger and each table are read by statements of their own, so what  *)
(* is committed between two of them is seen by the later one only.  The    *)
(* writers are the transactions of the modules ReviewQueue, CaseAnalysis   *)
(* and DocumentWorkspace, one action each.  An entry is an action, the     *)
(* entity it is about and its source; the order of the entries in a        *)
(* response and the hashes (LedgerVerification) are left out.  The ledger  *)
(* may have several rows of one action on one entity, which are numbered.  *)
(***************************************************************************)
EXTENDS Integers, SequencesExt, FiniteSetsExt

CONSTANTS
  Entities,   \* whatever gets an entry; bounds the ids of rows
  KindOf,     \* KindOf[e]: the kind of entity e
  CaseOf,     \* CaseOf[e]: its case, or NoCase
  NoCase,
  OldRows,    \* OldRows[e]: status of a row that is older than the ledger
  OldOrder,   \* OldOrder[kind]: these rows of a table by created_at
  MaxRows,    \* MAX_SOURCE_ROWS, of each table but cases
  MaxEvents   \* bound: rows of the ledger

Kinds == <<"case", "document", "workflow", "review_finding", "query", "attestation">>

\* The statuses of the row of an entity, and the one it is inserted with.
InitialStatus ==
  [kind \in ToSet(Kinds) |->
     CASE kind = "workflow" -> "running" [] kind = "review_finding" -> "OPEN"
       [] OTHER -> "created"]

Statuses(kind) ==
  CASE kind = "workflow"       -> {"running", "completed", "failed"}
    [] kind = "review_finding" -> {"OPEN", "APPROVED", "REJECTED", "RESOLVED"}
    [] OTHER                   -> {"created"}

ASSUME EntitiesAssumption ==
  /\ KindOf \in [Entities -> ToSet(Kinds)]
  /\ CaseOf \in [Entities -> {e \in Entities : KindOf[e] = "case"} \cup {NoCase}]
  /\ NoCase \notin Entities
  /\ MaxRows \in Nat \ {0} /\ MaxEvents \in Nat
ASSUME OldRowsAssumption ==
  /\ DOMAIN OldRows \subseteq Entities
  /\ \A e \in DOMAIN OldRows : OldRows[e] \in Statuses(KindOf[e])
  /\ OldOrder \in [ToSet(Kinds) -> Seq(DOMAIN OldRows)]
  /\ \A kind \in ToSet(Kinds) :
       /\ IsInjective(OldOrder[kind])
       /\ ToSet(OldOrder[kind]) = {e \in DOMAIN OldRows : KindOf[e] = kind}

VARIABLES
  statusOf, \* statusOf[e]: status of the row of e
  created,  \* created[kind]: the entities of a table, but cases, by created_at
  ledger,   \* the rows of audit_events
  opened,   \* history: the cases that CaseService.create has made
  reader,   \* the statements a request has executed and what it has read
  due,      \* what there was to show when the request came
  shown     \* the response to the last request that was answered

trailVars == <<statusOf, created, ledger, opened, reader, due, shown>>

(***************************************************************************)
(* case_event, document_event, workflow_events, review_events, query_event *)
(* and attestation_event: the actions the row of an entity shows.          *)
(***************************************************************************)
TERMINAL   == [completed |-> "WORKFLOW_COMPLETED", failed |-> "WORKFLOW_FAILED"]
_DECISIONS == [APPROVED |-> "FINDING_APPROVED", REJECTED |-> "FINDING_REJECTED"]
_DECISION_ACTIONS ==
  [APPROVED |-> _DECISIONS.APPROVED, REJECTED |-> _DECISIONS.REJECTED,
   RESOLVED |-> "FINDING_RESOLVED"]

Event(action, e) == [action |-> action, entity |-> e]

FirstAction ==
  [case |-> "CASE_CREATED", document |-> "DOCUMENT_INGESTED", workflow |-> "WORKFLOW_STARTED",
   review_finding |-> "FINDING_FLAGGED", query |-> "QUERY_EXECUTED",
   attestation |-> "MANUAL_ATTESTATION"]

LaterActions ==
  [completed |-> TERMINAL.completed, failed |-> TERMINAL.failed,
   APPROVED |-> _DECISION_ACTIONS.APPROVED, REJECTED |-> _DECISION_ACTIONS.REJECTED,
   RESOLVED |-> _DECISION_ACTIONS.RESOLVED]

Gone == {"absent", "deleted"}

Projection(e, status) ==
  IF status \in Gone THEN {}
  ELSE {Event(FirstAction[KindOf[e]], e)}
       \cup {Event(LaterActions[s], e) : s \in {status} \cap DOMAIN LaterActions}

(***************************************************************************)
(* collect_events: the newest rows of a table, and all cases.              *)
(***************************************************************************)
Present(kind) == {e \in Entities : KindOf[e] = kind /\ statusOf[e] \notin Gone}

Newer(kind, e) ==
  {created[kind][j] : j \in {j \in DOMAIN created[kind] :
                               \E i \in DOMAIN created[kind] : i < j /\ created[kind][i] = e}}

Selected(kind) ==
  {e \in Present(kind) :
     kind = "case" \/ Cardinality(Newer(kind, e) \cap Present(kind)) < MaxRows}

Projected(kind) == UNION {Projection(e, statusOf[e]) : e \in Selected(kind)}

(***************************************************************************)
(* merge_trail.  Every row of the ledger is kept; an event of the tables   *)
(* is dropped if the ledger has one of the same action on the same entity. *)
(***************************************************************************)
Covered(rows) == {Event(r.action, r.entity) : r \in rows}

\* For the mutant: all events of an entity that is in the ledger are dropped.
DropEntities(rows, events) ==
  {x \in events : x.entity \notin {r.entity : r \in rows}}
Surviving(rows, events) == {x \in events : x \notin Covered(rows)}

merge_trail(rows, events) == [ledger |-> rows, projected |-> Surviving(rows, events)]

Events(trail) == Covered(trail.ledger) \cup trail.projected

NoTrail == [ledger |-> {}, projected |-> {}]

(***************************************************************************)
(* The request.                                                            *)
(***************************************************************************)
Waiting == [step |-> 0, ledger |-> {}, events |-> {}, missed |-> {}, opened |-> {}]

\* What there is to show now.
Due ==
  LET projected == UNION {Projected(kind) : kind \in ToSet(Kinds)}
  IN  [ledger |-> ledger, projected |-> {x \in projected : x \notin Covered(ledger)}]

\* read_ledger.
Request ==
  /\ reader = Waiting
  /\ reader' = [Waiting EXCEPT !.step = 1, !.ledger = ledger, !.opened = opened]
  /\ due' = Due
  /\ UNCHANGED <<statusOf, created, ledger, opened, shown>>

\* One statement of collect_events; missed are those whose row it does not return:
\* it is gone, or beyond the limit.
ReadTable ==
  LET kind == Kinds[reader.step]
  IN
  /\ reader.step \in 1..Len(Kinds)
  /\ reader' = [reader EXCEPT !.step = @ + 1, !.events = @ \cup Projected(kind),
                 !.missed = @ \cup ({e \in Entities : KindOf[e] = kind} \ Selected(kind))]
  /\ UNCHANGED <<statusOf, created, ledger, opened, due, shown>>

Respond ==
  /\ reader.step = Len(Kinds) + 1
  /\ shown' = merge_trail(reader.ledger, reader.events)
  /\ reader' = Waiting /\ due' = NoTrail
  /\ UNCHANGED <<statusOf, created, ledger, opened>>

(***************************************************************************)
(* The writers.  An event is appended whether or not the ledger has one of *)
(* its action on its entity already.                                       *)
(***************************************************************************)
Row(x) ==
  [action |-> x.action, entity |-> x.entity,
   nth |-> 1 + Cardinality({r \in ledger : Event(r.action, r.entity) = x})]

Write(e, status, events) ==
  /\ Cardinality(ledger) + Cardinality(events) <= MaxEvents
  /\ statusOf' = [statusOf EXCEPT ![e] = status]
  /\ ledger' = ledger \cup {Row(x) : x \in events}
  /\ UNCHANGED <<reader, due, shown>>

InCase(e) == CaseOf[e] # NoCase => statusOf[CaseOf[e]] = "created"

\* CaseService.create: the case is committed with its event.  The demo case has the
\* id of the one that was deleted.
CreateCase(c) ==
  /\ KindOf[c] = "case" /\ statusOf[c] \in Gone
  /\ Write(c, "created", {Event("CASE_CREATED", c)})
  /\ opened' = opened \cup {c}
  /\ UNCHANGED created

\* ensure_case of an upload: a case with the id that the client gave, which a deleted
\* case may have had.  The ledger is not told.
EnsureCase(c) ==
  /\ KindOf[c] = "case" /\ statusOf[c] \in Gone
  /\ Write(c, "created", {})
  /\ UNCHANGED <<created, opened>>

\* The other rows have ids of their own, and are committed without an event.  They are
\* ordered by when their transaction began, be it before that of rows already there.
Create(e) ==
  /\ KindOf[e] # "case" /\ statusOf[e] = "absent" /\ InCase(e)
  /\ Write(e, InitialStatus[KindOf[e]], {})
  /\ \E i \in 1..Len(created[KindOf[e]]) + 1 :
       created' = [created EXCEPT ![KindOf[e]] = InsertAt(@, i, e)]
  /\ UNCHANGED opened

\* DocumentService.upload: the event is committed after the document, unless
\* the request fails in between; the document may be deleted by then.
Record(e) ==
  LET x == Event("DOCUMENT_INGESTED", e)
  IN  /\ KindOf[e] = "document" /\ e \notin DOMAIN OldRows /\ statusOf[e] # "absent" /\ InCase(e)
      /\ x \notin Covered(ledger)
      /\ Write(e, statusOf[e], {x})
      /\ UNCHANGED <<created, opened>>

\* A request reads the status of a row without a lock and may write to it when others
\* have: from is what it goes by, among what the row may meanwhile have.  Rows that were
\* done with when the ledger was introduced are not written to by requests of before.
MayWrite(e, from, among) ==
  /\ statusOf[e] \in among
  /\ e \in DOMAIN OldRows => OldRows[e] \in from

\* For the mutant: the outcome is not recorded.
ChangeSilently(e, to) == Write(e, to, {}) /\ UNCHANGED <<created, opened>>
Change(e, to) == Write(e, to, {Event(LaterActions[to], e)}) /\ UNCHANGED <<created, opened>>

\* A run that is executed twice (CaseAnalysis) ends twice, and is running in between.
Restart(e) ==
  /\ MayWrite(e, {"running"}, DOMAIN TERMINAL)
  /\ Write(e, "running", {}) /\ UNCHANGED <<created, opened>>

Finish(e) ==
  /\ MayWrite(e, {"running"}, Statuses("workflow"))
  /\ \E outcome \in DOMAIN TERMINAL : Change(e, outcome)

\* Requests that read OPEN, or a decision (ReviewQueue).
Decide(e) ==
  /\ MayWrite(e, {"OPEN"}, Statuses("review_finding"))
  /\ \E decision \in DOMAIN _DECISIONS : Change(e, decision)

ResolveSilently(e) ==
  /\ MayWrite(e, {"OPEN"} \cup DOMAIN _DECISIONS, DOMAIN _DECISION_ACTIONS)
  /\ ChangeSilently(e, "RESOLVED")
Resolve(e) ==
  /\ MayWrite(e, {"OPEN"} \cup DOMAIN _DECISIONS, DOMAIN _DECISION_ACTIONS)
  /\ Change(e, "RESOLVED")

DeleteDocument(e) ==
  /\ KindOf[e] = "document" /\ statusOf[e] = "created"
  /\ Write(e, "deleted", {})
  /\ UNCHANGED <<created, opened>>

\* Documents, runs and reviews are deleted with their case; an attestation
\* remains, without it.
DeleteCase(c) ==
  /\ KindOf[c] = "case" /\ statusOf[c] = "created"
  /\ statusOf' = [e \in Entities |->
                IF /\ e = c \/ (CaseOf[e] = c /\ KindOf[e] # "attestation")
                   /\ statusOf[e] # "absent"
                THEN "deleted" ELSE statusOf[e]]
  /\ UNCHANGED <<created, ledger, opened, reader, due, shown>>

TrailInit ==
  /\ statusOf = [e \in Entities |-> IF e \in DOMAIN OldRows THEN OldRows[e] ELSE "absent"]
  /\ created = OldOrder
  /\ ledger = {} /\ opened = {} /\ reader = Waiting /\ due = NoTrail /\ shown = NoTrail

TrailNext ==
  \/ Request \/ ReadTable \/ Respond
  \/ \E e \in Entities :
       \/ CreateCase(e) \/ EnsureCase(e) \/ Create(e) \/ Record(e)
       \/ Restart(e) \/ Finish(e) \/ Decide(e) \/ Resolve(e)
       \/ DeleteDocument(e) \/ DeleteCase(e)

TrailSpec == TrailInit /\ [][TrailNext]_trailVars

------------------------------------------------------------------------------
\* An event that the ledger may lack: that a row was inserted, which is not recorded or
\* not with it, unless it is one of the cases that CaseService.create made; and
\* what the row showed when the ledger was introduced.
Unrecorded(x, cases) ==
  \/ x.action = FirstAction[KindOf[x.entity]] /\ x.entity \notin cases
  \/ /\ x.entity \in DOMAIN OldRows
     /\ OldRows[x.entity] \in DOMAIN LaterActions
     /\ x.action = LaterActions[OldRows[x.entity]]

\* Only what the ledger as it was read may lack may be missing from a trail, when its row
\* was gone or beyond the newest of its table when that was read, or does not show
\* it any more.
MayVanish(x) ==
  /\ Unrecorded(x, reader.opened)
  /\ \/ x.entity \in reader.missed
     \/ x \notin Projection(x.entity, statusOf[x.entity])

\* audit.py:31-33, 593-675.  What there was to show when the request came is in its
\* trail, although findings were decided, runs ended and cases were deleted and
\* made again before their tables were read.
NothingIsOverlooked ==
  [][Respond => /\ due.ledger \subseteq shown'.ledger
                /\ \A x \in due.projected : x \in Events(shown') \/ MayVanish(x)]_trailVars

\* The next response shows all of the last one, but what may vanish.
KeepsShown ==
  /\ shown.ledger \subseteq shown'.ledger
  /\ \A x \in shown.projected : x \in Events(shown') \/ MayVanish(x)

\* What one response shows, the next one does: what was read from a table
\* before its event was read from the ledger is found in the ledger later.
ShownStaysShown == [][Respond => KeepsShown]_trailVars

===============================================================================
