-------------------------- MODULE DocumentWorkspace --------------------------
(***************************************************************************)
(* Cases and the documents in them: DocumentService of                     *)
(* app/services/documents.py over app/repositories/documents.py, the       *)
(* creation, deletion and demo provisioning of cases in                    *)
(* app/services/cases.py, and the upload endpoints of POST /documents and  *)
(* POST /cases/{id}/documents.                                             *)
(*                                                                         *)
(* An upload is not one transaction: it may commit the case, then commits  *)
(* the document, then the event of the ledger, and writes the file last.   *)
(* A deletion commits, and removes files afterwards.  Every await is a     *)
(* point where other requests run; a step ends where the code awaits.      *)
(*                                                                         *)
(* A scope stands for what the deduplication key hashes: a content, a case *)
(* and a document type.  Rows that are older than scoped keys keep the     *)
(* hash of their content as key (OldKey) until an upload of the same scope *)
(* finds them.  Elements and chunks are inserted and deleted with their    *)
(* document and are not shown, nor is the event of a new case, which is    *)
(* committed with it.  POST /cases creates a case under an identifier that *)
(* nobody else has; what it does is what CreateDemoCase does.              *)
(***************************************************************************)
EXTENDS Integers, Sequences, FiniteSetsExt

CONSTANTS Requests,   \* API requests that may be in progress at the same time
          Documents,  \* document ids; bounds the rows ever inserted
          OldRows,    \* OldRows[d]: scope of a document stored before scoped keys
          Cases,
          Scopes,
          ScopeCase,  \* ScopeCase[s]: the case of scope s, or NoCase
          ScopeType,  \* ScopeType[s]: the document type of scope s
          Parsing,    \* Parsing[s]: what run_pipeline makes of the content
          Uploads,    \* the files of one request, as sequences of scopes
          DemoCase,   \* DEMO_CASE_ID
          DemoPack,   \* the scopes provision_demo uploads, in its order
          NoCase, NoScope, OldKey, NoDocument,
          MaxDeletions, \* bound: deletions requested
          MaxFaults     \* bound: failures of the server, the database or the disk

ASSUME ScopeAssumption ==
  /\ ScopeCase \in [Scopes -> Cases \cup {NoCase}]
  /\ DOMAIN ScopeType = Scopes
  /\ Parsing \in [Scopes -> {"parsed", "failed", "unsupported"}]
\* Before keys were scoped, content_sha256 was unique: no two rows have one content.
ASSUME OldRowsAssumption ==
  /\ DOMAIN OldRows \subseteq Documents
  /\ \A d \in DOMAIN OldRows :
       OldRows[d] \in Scopes /\ Parsing[OldRows[d]] # "unsupported"
  /\ \A d, e \in DOMAIN OldRows : OldRows[d] = OldRows[e] => d = e
ASSUME UploadsAssumption ==
  \A items \in Uploads :
    /\ items \in Seq(Scopes) /\ items # <<>>
    /\ \A i, j \in DOMAIN items : ScopeCase[items[i]] = ScopeCase[items[j]]
ASSUME DemoAssumption ==
  /\ DemoCase \in Cases /\ DemoPack \in Seq(Scopes)
  /\ \A i \in DOMAIN DemoPack :
       ScopeCase[DemoPack[i]] = DemoCase /\ Parsing[DemoPack[i]] = "parsed"
ASSUME SentinelAssumption == OldKey \notin Scopes /\ NoDocument \notin Documents
ASSUME BoundsAssumption == MaxDeletions \in Nat /\ MaxFaults \in Nat

VARIABLES cases,     \* the cases that have a row
          docs,      \* docs[d]: row of documents
          recorded,  \* documents with a DOCUMENT_INGESTED event in the ledger
          files,     \* documents with a file under data/uploads
          req,       \* req[q]: what request q is doing
          deletions, \* deletions requested so far
          faults     \* failures so far

vars == <<cases, docs, recorded, files, req, deletions, faults>>

AbsentRow == [status |-> "absent", scope |-> NoScope, key |-> NoScope]
IdleRequest == [pc |-> "idle", demo |-> FALSE, items |-> <<>>, todo |-> {},
                doc |-> NoDocument, after |-> "duplicate", case |-> NoCase, gone |-> {}]

Ingesting == {"refresh", "record", "write"}      \* create() committed the row
Steps == {"idle", "ensure", "insert_case", "duplicate", "old_duplicate", "upgrade",
          "insert", "create_case", "present", "delete", "list", "delete_case",
          "unlink"} \cup Ingesting

Row == [status : {"absent", "parsed", "failed", "deleted"},
        scope : Scopes \cup {NoScope}, key : Scopes \cup {NoScope, OldKey}]

\* items are the files of the request, todo the numbers of those it has not dealt with.
Request == [pc : Steps, demo : BOOLEAN, items : Seq(Scopes), todo : SUBSET Nat,
            doc : Documents \cup {NoDocument}, after : {"duplicate", "insert"},
            case : Cases \cup {NoCase}, gone : SUBSET Documents]

Uploading == {"ensure", "insert_case", "duplicate", "old_duplicate", "upgrade", "insert"}
               \cup Ingesting

TypeOK ==
  /\ cases \subseteq Cases
  /\ docs \in [Documents -> Row]
  /\ recorded \subseteq Documents /\ files \subseteq Documents
  /\ req \in [Requests -> Request]
  /\ \A q \in Requests :
       /\ req[q].todo \subseteq DOMAIN req[q].items
       /\ req[q].pc \in Uploading => req[q].todo # {}
       /\ req[q].pc \in Ingesting \cup {"upgrade"} => req[q].doc \in Documents
  /\ deletions \in 0..MaxDeletions
  /\ faults \in 0..MaxFaults

Init ==
  /\ docs = [d \in Documents |->
               IF d \in DOMAIN OldRows
               THEN [status |-> Parsing[OldRows[d]], scope |-> OldRows[d], key |-> OldKey]
               ELSE AbsentRow]
  /\ cases = {ScopeCase[OldRows[d]] : d \in DOMAIN OldRows} \ {NoCase}
  /\ recorded = {}
  /\ files = {d \in DOMAIN OldRows : Parsing[OldRows[d]] = "parsed"}
  /\ req = [q \in Requests |-> IdleRequest]
  /\ deletions = 0
  /\ faults = 0

------------------------------------------------------------------------------
Exists(d) == docs[d].status \in {"parsed", "failed"}
InCase(c) == {d \in Documents : Exists(d) /\ ScopeCase[docs[d].scope] = c}
WithKey(k) == {d \in Documents : Exists(d) /\ docs[d].key = k}
OfScope(s) == {d \in Documents : Exists(d) /\ docs[d].scope = s}

Scope(q) == req[q].items[Min(req[q].todo)]
CaseOf(q) == ScopeCase[Scope(q)]

Become(q, r) == req' = [req EXCEPT ![q] = r]
GoTo(q, pc) == Become(q, [req[q] EXCEPT !.pc = pc])
End(q) == Become(q, IdleRequest)

(***************************************************************************)
(* The next file of the request.                                           *)
(***************************************************************************)
NextFile(q) ==
  LET rest == req[q].todo \ {Min(req[q].todo)}
  IN  IF rest # {}
      THEN Become(q, [req[q] EXCEPT !.pc = "ensure", !.todo = rest, !.doc = NoDocument,
                                    !.after = "duplicate"])
      ELSE End(q)

(***************************************************************************)
(* An AppError: a batch reports the file and goes on; provision_demo does  *)
(* not catch it.  Any other exception ends the request (End).              *)
(***************************************************************************)
Refuse(q) == IF req[q].demo THEN End(q) ELSE NextFile(q)

(***************************************************************************)
(* POST /documents takes one file for any case, POST /cases/{id}/documents *)
(* several for a case that exists.                                         *)
(***************************************************************************)
StartUpload(q, items) ==
  /\ req[q].pc = "idle"
  /\ Len(items) = 1 \/ ScopeCase[items[1]] \in cases
  /\ Become(q, [IdleRequest EXCEPT !.pc = "ensure", !.items = items,
                                !.todo = DOMAIN items])
  /\ UNCHANGED <<cases, docs, recorded, files, deletions, faults>>

(***************************************************************************)
(* ensure_case, at the start of upload and again in create (after).  It    *)
(* reads the case and inserts a missing one in a transaction of its own.   *)
(* provision_demo holds the case object, so that session.get answers from  *)
(* the identity map and finds it there whatever happened to the row.       *)
(***************************************************************************)
EnsureCase(q) ==
  /\ req[q].pc = "ensure"
  /\ GoTo(q, IF CaseOf(q) \in cases \cup {NoCase} \/ req[q].demo
             THEN req[q].after ELSE "insert_case")
  /\ UNCHANGED <<cases, docs, recorded, files, deletions, faults>>

InsertLegacyCase(q) ==
  /\ req[q].pc = "insert_case"
  /\ IF CaseOf(q) \in cases
     THEN End(q) /\ UNCHANGED cases                       \* IntegrityError
     ELSE cases' = cases \cup {CaseOf(q)} /\ GoTo(q, req[q].after)
  /\ UNCHANGED <<docs, recorded, files, deletions, faults>>

(***************************************************************************)
(* get_duplicate: by key, then among the rows with an older key.  When     *)
(* there is none, the pipeline runs (without an await) and create begins.  *)
(***************************************************************************)
FindDuplicate(q) ==
  /\ req[q].pc = "duplicate"
  /\ IF WithKey(Scope(q)) # {} THEN NextFile(q) ELSE GoTo(q, "old_duplicate")
  /\ UNCHANGED <<cases, docs, recorded, files, deletions, faults>>

\* Mutant: get_duplicate without the query for older rows.
ParseAtOnce(q) ==
  /\ req[q].pc = "old_duplicate"
  /\ IF Parsing[Scope(q)] = "unsupported"
     THEN Refuse(q)
     ELSE Become(q, [req[q] EXCEPT !.pc = "ensure", !.after = "insert"])
  /\ UNCHANGED <<cases, docs, recorded, files, deletions, faults>>

FindOldDuplicate(q) ==
  /\ req[q].pc = "old_duplicate"
  /\ \/ \E d \in OfScope(Scope(q)) :
          IF docs[d].key # Scope(q)
          THEN Become(q, [req[q] EXCEPT !.pc = "upgrade", !.doc = d])
          ELSE NextFile(q)
     \/ /\ OfScope(Scope(q)) = {}
        /\ IF Parsing[Scope(q)] = "unsupported"
           THEN Refuse(q)
           ELSE Become(q, [req[q] EXCEPT !.pc = "ensure", !.after = "insert"])
  /\ UNCHANGED <<cases, docs, recorded, files, deletions, faults>>

(***************************************************************************)
(* The older row gets its scoped key: UPDATE and COMMIT, then a refresh.   *)
(* A row that is gone is a StaleDataError.                                 *)
(***************************************************************************)
UpgradeKey(q) ==
  LET d == req[q].doc
  IN  /\ req[q].pc = "upgrade"
      /\ IF Exists(d)
         THEN docs' = [docs EXCEPT ![d].key = Scope(q)] /\ GoTo(q, "refresh")
         ELSE End(q) /\ UNCHANGED docs
      /\ UNCHANGED <<cases, recorded, files, deletions, faults>>

(***************************************************************************)
(* create, the commit of the document with its elements and chunks: the    *)
(* update of the case needs its row, dedup_key is unique.  A new document  *)
(* gets some id that no row ever had.                                      *)
(***************************************************************************)
Fresh == {d \in Documents : docs[d].status = "absent"}
NewId == CHOOSE d \in Fresh : TRUE

\* Mutant: dedup_key is not unique.
InsertUnchecked(q) ==
  LET s == Scope(q)
  IN  /\ req[q].pc = "insert"
      /\ Fresh # {}
      /\ IF CaseOf(q) \in cases \cup {NoCase}
         THEN /\ docs' = [docs EXCEPT ![NewId] =
                            [status |-> Parsing[s], scope |-> s, key |-> s]]
              /\ Become(q, [req[q] EXCEPT !.pc = "refresh", !.doc = NewId])
         ELSE End(q) /\ UNCHANGED docs
      /\ UNCHANGED <<cases, recorded, files, deletions, faults>>

InsertDocument(q) ==
  LET s == Scope(q)
  IN  /\ req[q].pc = "insert"
      /\ Fresh # {}
      /\ IF WithKey(s) = {} /\ CaseOf(q) \in cases \cup {NoCase}
         THEN /\ docs' = [docs EXCEPT ![NewId] =
                            [status |-> Parsing[s], scope |-> s, key |-> s]]
              /\ Become(q, [req[q] EXCEPT !.pc = "refresh", !.doc = NewId])
         ELSE End(q) /\ UNCHANGED docs
      /\ UNCHANGED <<cases, recorded, files, deletions, faults>>

(***************************************************************************)
(* refresh fails when the row was deleted since.  After get_duplicate the  *)
(* file is done with; after create, a document that could not be parsed is *)
(* kept as failed, without event and file, and refused.                    *)
(***************************************************************************)
Refresh(q) ==
  /\ req[q].pc = "refresh"
  /\ \/ ~Exists(req[q].doc) /\ End(q)
     \/ Exists(req[q].doc) /\ req[q].after = "duplicate" /\ NextFile(q)
     \/ /\ req[q].after = "insert"
        /\ \/ docs[req[q].doc].status = "failed" /\ Refuse(q)
           \/ docs[req[q].doc].status = "parsed" /\ GoTo(q, "record")
  /\ UNCHANGED <<cases, docs, recorded, files, deletions, faults>>

\* Mutant: the upload returns without writing the file.
RecordAndReturn(q) ==
  /\ req[q].pc = "record"
  /\ recorded' = recorded \cup {req[q].doc}
  /\ NextFile(q)
  /\ UNCHANGED <<cases, docs, files, deletions, faults>>

RecordIngestion(q) ==
  /\ req[q].pc = "record"
  /\ recorded' = recorded \cup {req[q].doc}
  /\ GoTo(q, "write")
  /\ UNCHANGED <<cases, docs, files, deletions, faults>>

WriteFile(q) ==
  /\ req[q].pc = "write"
  /\ files' = files \cup {req[q].doc}
  /\ NextFile(q)
  /\ UNCHANGED <<cases, docs, recorded, deletions, faults>>

------------------------------------------------------------------------------
(***************************************************************************)
(* provision_demo: the case, unless it is there; then the documents whose  *)
(* type no document of the case has.                                       *)
(***************************************************************************)
StartDemo(q) ==
  /\ req[q].pc = "idle"
  /\ Become(q, [IdleRequest EXCEPT !.demo = TRUE,
                  !.pc = IF DemoCase \in cases THEN "present" ELSE "create_case"])
  /\ UNCHANGED <<cases, docs, recorded, files, deletions, faults>>

CreateDemoCase(q) ==
  /\ req[q].pc = "create_case"
  /\ IF DemoCase \in cases
     THEN End(q) /\ UNCHANGED cases             \* CaseConflictError, IntegrityError
     ELSE cases' = cases \cup {DemoCase} /\ GoTo(q, "present")
  /\ UNCHANGED <<docs, recorded, files, deletions, faults>>

TypesPresent == {ScopeType[docs[d].scope] : d \in InCase(DemoCase)}
MissingFromDemo == {i \in DOMAIN DemoPack : ScopeType[DemoPack[i]] \notin TypesPresent}

\* Mutant: a demo case that has a document is taken to have all of them.
PresentIfAny(q) ==
  /\ req[q].pc = "present"
  /\ IF InCase(DemoCase) # {}
     THEN End(q)
     ELSE Become(q, [req[q] EXCEPT !.pc = "ensure", !.items = DemoPack,
                                   !.todo = DOMAIN DemoPack])
  /\ UNCHANGED <<cases, docs, recorded, files, deletions, faults>>

SelectPresent(q) ==
  /\ req[q].pc = "present"
  /\ IF MissingFromDemo = {}
     THEN End(q)
     ELSE Become(q, [req[q] EXCEPT !.pc = "ensure", !.items = DemoPack,
                                   !.todo = MissingFromDemo])
  /\ UNCHANGED <<cases, docs, recorded, files, deletions, faults>>

------------------------------------------------------------------------------
(***************************************************************************)
(* DELETE /documents/{id}: the row, then the file.  A row that somebody    *)
(* else deleted meanwhile is not an error.                                 *)
(***************************************************************************)
StartDeletion(q, r) ==
  /\ req[q].pc = "idle"
  /\ deletions < MaxDeletions
  /\ deletions' = deletions + 1
  /\ Become(q, r)
  /\ UNCHANGED <<cases, docs, recorded, files, faults>>

RowsWithout(D) ==
  [d \in Documents |-> IF d \in D THEN [AbsentRow EXCEPT !.status = "deleted"] ELSE docs[d]]

DeleteRequested(q, d) ==
  Exists(d) /\ StartDeletion(q, [IdleRequest EXCEPT !.pc = "delete", !.gone = {d}])

DeleteDocument(q) ==
  /\ req[q].pc = "delete"
  /\ docs' = RowsWithout(req[q].gone)
  /\ GoTo(q, "unlink")
  /\ UNCHANGED <<cases, recorded, files, deletions, faults>>

(***************************************************************************)
(* DELETE /cases/{id}: the ids of the case's documents are read first, the *)
(* row is deleted with what it owns then, and the files of those ids last. *)
(***************************************************************************)
DeleteCaseRequested(q, c) ==
  c \in cases /\ StartDeletion(q, [IdleRequest EXCEPT !.pc = "list", !.case = c])

ListDocuments(q) ==
  /\ req[q].pc = "list"
  /\ Become(q, [req[q] EXCEPT !.pc = "delete_case", !.gone = InCase(req[q].case)])
  /\ UNCHANGED <<cases, docs, recorded, files, deletions, faults>>

DeleteCase(q) ==
  /\ req[q].pc = "delete_case"
  /\ cases' = cases \ {req[q].case}
  /\ docs' = RowsWithout(InCase(req[q].case))
  /\ GoTo(q, "unlink")
  /\ UNCHANGED <<recorded, files, deletions, faults>>

Unlink(q) ==
  /\ req[q].pc = "unlink"
  /\ files' = files \ req[q].gone
  /\ End(q)
  /\ UNCHANGED <<cases, docs, recorded, deletions, faults>>

(***************************************************************************)
(* A database call or the disk fails and the request with it; or the       *)
(* server stops, and all requests end.  What was committed stays.          *)
(***************************************************************************)
Fault(q) ==
  /\ faults < MaxFaults
  /\ req[q].pc # "idle"
  /\ faults' = faults + 1
  /\ End(q)
  /\ UNCHANGED <<cases, docs, recorded, files, deletions>>

Crash ==
  /\ faults < MaxFaults
  /\ faults' = faults + 1
  /\ req' = [q \in Requests |-> IdleRequest]
  /\ UNCHANGED <<cases, docs, recorded, files, deletions>>

(***************************************************************************)
(* Nobody is obliged to send a request; a request that would insert a row  *)
(* waits when the ids that bound the rows are used up.                     *)
(***************************************************************************)
Rest ==
  /\ \A q \in Requests : req[q].pc = "idle" \/ (req[q].pc = "insert" /\ Fresh = {})
  /\ UNCHANGED vars

------------------------------------------------------------------------------
UploadStep(q) ==
  \/ EnsureCase(q) \/ InsertLegacyCase(q)
  \/ FindDuplicate(q) \/ FindOldDuplicate(q) \/ UpgradeKey(q)
  \/ InsertDocument(q) \/ Refresh(q) \/ RecordIngestion(q) \/ WriteFile(q)

DemoStep(q) == CreateDemoCase(q) \/ SelectPresent(q)

DeletionStep(q) == DeleteDocument(q) \/ ListDocuments(q) \/ DeleteCase(q) \/ Unlink(q)

Step(q) == UploadStep(q) \/ DemoStep(q) \/ DeletionStep(q)

Next ==
  \/ \E q \in Requests :
       \/ \E items \in Uploads : StartUpload(q, items)
       \/ StartDemo(q)
       \/ \E d \in Documents : DeleteRequested(q, d)
       \/ \E c \in Cases : DeleteCaseRequested(q, c)
       \/ Step(q)
       \/ Fault(q)
  \/ Crash
  \/ Rest

Spec == Init /\ [][Next]_vars

(***************************************************************************)
(* The event loop runs every coroutine, and database calls return.  Of the *)
(* clients only this is assumed: the demo case is asked for again whenever *)
(* the bound on the requests in progress leaves room for it.               *)
(***************************************************************************)
FairSpec ==
  /\ Spec
  /\ \A q \in Requests : WF_vars(Step(q))
  /\ SF_vars(\E q \in Requests : StartDemo(q))

------------------------------------------------------------------------------
(***************************************************************************)
(* OneDocumentPerScope: no content is stored twice for a case and a type,  *)
(* although every upload looks for a duplicate long before it inserts, and *)
(* rows with older keys are not covered by the unique index.               *)
(***************************************************************************)
OneDocumentPerScope ==
  \A d, e \in Documents :
    Exists(d) /\ Exists(e) /\ docs[d].scope = docs[e].scope => d = e

(***************************************************************************)
(* IngestionIsComplete: only a failure leaves a parsed document without    *)
(* its event in the ledger or its file; overlapping uploads and deletions  *)
(* alone do not.                                                           *)
(***************************************************************************)
IngestionIsComplete ==
  \A d \in Documents \ DOMAIN OldRows :
    docs[d].status = "parsed" =>
      \/ d \in recorded /\ d \in files
      \/ \E q \in Requests : req[q].pc \in Ingesting /\ req[q].doc = d
      \/ faults > 0

(***************************************************************************)
(* DemoIsCompleted: as long as somebody asks for the demo case, it has     *)
(* every type of its pack in the end, whatever collisions with each other  *)
(* and with uploads refused earlier requests, and whatever deletions and   *)
(* failures left of an earlier pack.                                       *)
(***************************************************************************)
DemoIsCompleted == <>[](MissingFromDemo = {})

(***************************************************************************)
(* StoredFilesAreDeleted: a document that is deleted takes its file with   *)
(* it ("Delete the document row (children cascade) and its stored file"):  *)
(* a file without its document is one that a deletion is about to remove.  *)
(***************************************************************************)
StoredFilesAreDeleted ==
  \A d \in files : docs[d].status = "deleted" => \E q \in Requests : d \in req[q].gone
==============================================================================
