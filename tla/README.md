# A formal model of the Local Document Intelligence Platform

TLA+ specifications of the core logic of the server (`src/app`) and of its web
client (`src/src`), TLC configurations that check them on small instances, and
TLAPS proofs of the properties that hold for every instance. The specifications
are translated from the code; comments in the modules name the functions they
model, and `PROJECT.json` maps every definition to its lines.

Run a configuration with `tlc -config AuditLedger.cfg MCAuditLedger`, and the
proofs with `tlapm AuditProofs.tla`.

## 1. Inventory of the system

The platform is a FastAPI server over PostgreSQL, with a local LLM and a local
embedding model behind HTTP. Users open a *case*, upload the documents of a
procurement file, let an analysis extract their fields and compare them, and
decide on the findings it puts up for review. What is done is recorded in a
hash-chained audit ledger. A single-page React client shows all of it: it keeps
state of its own, asks the server for everything else, and has to cope with
answers that come late, out of order or not at all.

| Component | State it keeps | Operations | Module |
|---|---|---|---|
| Audit ledger (`services/audit_ledger.py`) | table `audit_events` and its sequence, an advisory lock | `append_event`, `read_ledger`, `verify_ledger` | AuditLedger, LedgerVerification, AppendOnlyLog |
| Human review queue (`services/reviews.py`, `api/routes/reviews.py`) | table `review_tasks` | `create_many`, `decide`, `resolve`, the batch endpoint | ReviewQueue |
| Case analysis (`services/compare.py`, `agents/graph.py`, `api/routes/cases.py`) | tables `workflow_runs` and `extraction_runs`, background tasks | `create_analysis`, `run`, `_execute`, graph nodes, `_record_progress` | CaseAnalysis |
| Evaluation runner (`services/evals_runner.py`) | `_active`, `_latest`, the state of each run, a thread and a subprocess | `start`, `_execute` | EvalsRunner, EvaluationView |
| Case workspace (`services/cases.py`) | table `cases` | `create`, `ensure_legacy`, `delete`, `calculate_readiness`, `provision_demo` | DocumentWorkspace; parts in CaseAnalysis and ReviewQueue |
| Document storage (`services/documents.py`, `repositories/documents.py`) | tables `documents`, `document_elements`, `chunks`; files | `upload`, `get_duplicate`, `create`, `delete_document` | DocumentWorkspace |
| Audit trail (`services/audit.py`) | none: a projection of all tables | `merge_trail`, `append_projection_event`, attestations | AuditTrail |
| Discrepancy engine (`discrepancy/`) | none | the checks of `analyze_case`; normalisation, evidence | DiscrepancyEngine |
| Parsing and chunking (`ingestion/`) | none | `chunk_elements`; bindings to PDF, DOCX and CSV libraries | not modelled |
| Retrieval and indexing (`retrieval/`) | table `chunk_embeddings`, BM25 cache | `index_document`, `index_pending`; hybrid search, fusion, context budget | Indexing; search is planned |
| Question answering (`services/qa.py`, `agents/router.py`, `citations/`) | answers and citations | `answer` | planned |
| Extraction and LLM provider (`extraction/`, `llm/`, `embeddings/`) | none | validate, repair, retry | planned |
| Agent tools, reports (`agents/tools.py`, `workflows/report.py`) | none | arithmetic, formatting | not planned |
| Client: shell (`App.tsx`, `Sidebar`, `HomeView`, `CommandPalette`) | tab, active case | navigation, sample case, reload | AppShell, WebClient |
| Client: case screen (`CasesView.tsx`) | the case and its run on display, polling interval, requests in flight | open, create, upload, analyze, poll, delete | CasesView |
| Client: review screen (`ReviewsView.tsx`) | filters, page, rows, selection, viewer, export | fetch, decide, batch, navigate, export | ReviewsView |
| Client: chat (`AskView.tsx`) | conversation, scope, inspector, viewer | ask, clear, scope, preview, compare | AskView |
| Client: document viewer (`DocumentSplitViewer.tsx`) | two panes | select, swap, load | DocumentSplitViewer |
| Client: audit trail (`AuditTrailView.tsx`) | events, verdict on the chain, filters, form | fetch, filter, sign off | AuditTrailView |
| Client: evaluation (`EvaluationView.tsx`, `api.ts`) | reports on display, run that is polled | start, poll, refetch | EvaluationView |
| HTTP application, configuration, MCP server, evaluation suite; exports and translations of the client | none of their own | wiring, presentation, measurement | not planned |

**How they interact.** All components share one database. A service opens a
transaction, changes its table, appends the event of the change to the ledger
in the *same* transaction, and commits; so all of them queue on the advisory
lock of the ledger. Deleting a case cascades through foreign keys to its
documents, runs, extractions and findings, while requests and background
tasks about them are under way. An analysis is started by a request and
executed by a background task of the same server process; it calls the review
service to queue findings and the ledger to record its end. Nothing but the
database outlives the process.

The client's shell keeps the tab and the active case and mounts one screen at a
time; a screen that is left is unmounted and its state is lost, but not the
requests it sent. A screen tells the shell which case is active
(`onSelectCase`), and the shell tells the screen by its properties, whose
changes run effects: the effects ask the server, and some of them cancel what
they asked before. An answer finds the state of *its* moment, but the variables
of the rendering in which it was asked for.

**What is hard in it.**

- *Concurrency.* `append_event` is a read-then-write over a chain; `decide`
  and `resolve` check a status and write it later; two requests may execute
  one workflow run; deletions run against everything.
- *Locks.* The review transactions take a finding, the ledger and the case, in
  that order; the deletion of a case takes the case, then its findings.
- *Failure.* A server that stops leaves runs nobody finishes; the terminal
  transaction of a run lies outside the `try` that handles its failures; a
  batch stops at a database error, after earlier items were committed.
- *Partial failure.* An upload commits up to three times and writes its file
  after the last one; a deletion commits and then removes files.
- *Ordering.* The ledger's sequence is drawn before the commit; threads of the
  evaluation runner end in any order; so do the requests of the client.
- *Stale closures.* A handler of the client that awaits goes on with the active
  case, the filters, the messages of the rendering it started in.

**What correctness means**, component by component:

- *Ledger*: one chain without forks, growing only at its end, that verifies;
  alterations are reported, at the row where they are.
- *Reviews*: a finding is decided before it is resolved; the row and the ledger
  tell the same story; requests end although lock orders disagree.
- *Analysis*: an extraction failure or a high finding never passes silently; a
  finished run is in the ledger, once; runs end, and only failures of the
  server, the database or the model leave one behind; a deleted case stays
  deleted.
- *Evaluations*: one run in flight; its slot comes back; the dashboard reports
  what happened to its run, and shows reports at least as new as the run's.
- *Client*: what a screen shows belongs together and to what was chosen: case
  and run, finding and documents, question and answer, pane and document, rows
  and filters, events and verdict; a run that is shown as active is polled; an
  export is whole, or drifts only as the list moves under it.
- *Documents*: one document per content, case and type, with file and event; the
  demo case is complete when somebody keeps asking for it; a deleted document
  leaves no file.
- *Trail*: what is in the ledger or the tables when it is asked for is in it;
  what it once showed it goes on to show; only what the ledger was never told may
  vanish, with its row.
- *Engine*: an excess is reported, once; a value that is missing accuses nobody;
  more documents never silence a serious finding; the same documents give the
  same findings.
- *Indexing*: a document is indexed as a whole, and what is scheduled is indexed.

The hazards behind these, each at its line, are in `PROJECT.json`.

## 2. The modules

### AppendOnlyLog, AuditLedger, LedgerVerification

`AppendOnlyLog` is what the ledger promises: a sequence of events that grows
by one event at its end.

`AuditLedger` is `append_event`. A writer is a database session; `pc[w]` is
where it stands:

| action | code |
|---|---|
| `RequestLock`, `AcquireLock` | `pg_advisory_xact_lock` of `append_event` |
| `ReadTail` | the `ORDER BY sequence DESC LIMIT 1` query |
| `InsertRow` | `AuditEvent(...)`, `add`, `flush`: the row, and its value of the sequence |
| `Commit`, `Rollback` | the end of the caller's transaction: rows become visible, the lock is given up |

`rows` is the committed table, `pending[w]` what `w` inserted and did not yet
commit, `nextSequence` the sequence, whose values a rollback does not return.
The hash is ideal: a digest *is* the sequence of the payloads it covers, so
digests are equal exactly when the histories are. Canonical JSON, time stamps
and UUIDs are inside the payload.

`LedgerVerification` is `verify_ledger`. Its loop over the rows in the order of
their sequence is the function `Seen`: what the loop knows after the rows up to
a number (`CheckRow` is one iteration). It is evaluated over the tables that
appends produce, and over those tables after an edit or a removal.

### ReviewQueue

A session serves one request: `sess[s]` has its operation, the findings still
to do (a batch of one for the single endpoints) and where its transaction
stands. `status` and `reviewer` are the committed columns of `review_tasks`;
`owner` says which transaction has the lock of a row or of the ledger.

| action | code |
|---|---|
| `CreateTask` | `create_many` |
| `StartReview` | the four review endpoints |
| `LoadTask` | `session.get` and the status check of `decide` / `resolve` |
| `FlushTask` | the UPDATE that `session.get(Case)` flushes (autoflush), which takes the row lock |
| `TakeLedgerLock` | `append_event` |
| `FlushBeforeTail` | the UPDATE flushed by the tail query: the case, or the finding if it has no case |
| `CommitReview` | INSERT of the event and COMMIT |
| `LockCase`, `LockFinding`, `CommitDelete` | `DELETE /cases/{id}` and its cascade |
| `BreakDeadlock`, `Fail`, `StaleFlush` | a transaction that PostgreSQL or SQLAlchemy aborts |

Writes become visible at the commit, which is what makes the check of
`LoadTask` stale. The ledger here is the log of `AppendOnlyLog`, of which the
session's reviewer, the finding and the decision are kept. Whom a session waits
for is computed from its next lock (`WaitsFor`); a deadlock is a set of sessions
that a function leads around in a circle of waiting (`Cycles`). `LocksAssumption`
says that locks of findings, of cases and of the ledger are different locks.

### CaseAnalysis

A request of the model is an API request and the background task it leaves
behind. `runs[w]` is the row of `workflow_runs` (status, case, steps),
`tasks[w]` what its review tasks are about, `ledger` the terminal events,
`extracted` the documents with a valid extraction.

| action | code |
|---|---|
| `AnalyzeCase`, `SelectActive`, `InsertRun`, `Reselect` | `analyze_case` and `create_analysis`, with the IntegrityError of the unique index |
| `Compare` | `CompareService.run` |
| `ReadRow`, `Begin`, `RecordProgress`, `Lost` | the transactions of `_execute` and `_record_progress`: a read, then the UPDATE of the changed columns |
| `Load`, `NextDocument`, `Extract`, `RunChecks`, `CreateReviewTasks` | the graph's nodes |
| `Finish`, `RecordFailure` | the terminal transaction, with its event |
| `DeleteCase`, `DeleteDocument` | the deletions and their cascades |
| `Fault`, `Crash` | a database or model call that fails; the server that stops |

Extraction ends in one of three ways (valid, invalid, exception) and the rules
find any subset of `Findings` unless no document was extracted. Findings have
one attribute, whether they are high. SQLAlchemy writes only columns that
changed, which `Update` models: a stale status is not written back.

### DocumentWorkspace

A request (`req[q]`) is an upload of one or several files (`items`, of which
`todo` are not dealt with yet), a provisioning of the demo case, or a deletion. `docs` is the table, `cases` the
rows of the cases, `recorded` the documents with a `DOCUMENT_INGESTED` event,
`files` the ones with a file. A *scope* is what the deduplication key hashes:
content, case and type.

| action | code |
|---|---|
| `StartUpload`, `StartDemo`, `DeleteRequested`, `DeleteCaseRequested` | the endpoints |
| `EnsureCase`, `InsertLegacyCase` | `ensure_case`, called by `upload` and again by `create` |
| `FindDuplicate`, `FindOldDuplicate`, `UpgradeKey` | `get_duplicate`, with the rows from before scoped keys (migration b6f4c2d8e1a9) |
| `InsertDocument`, `Refresh` | `create`: the commit with the unique `dedup_key`, the refresh; then what `upload` does with a failed parse |
| `RecordIngestion`, `WriteFile` | the second transaction, and the file |
| `CreateDemoCase`, `SelectPresent` | `provision_demo` up to its uploads, which are the actions above |
| `ListDocuments`, `DeleteCase`, `DeleteDocument`, `Unlink` | the deletions: ids, commit, files |
| `Fault`, `Crash` | a call that raises, the server that stops |

A step ends where the code awaits. Some of its guards come from the libraries:
`session.get` answers from the identity map, which keeps the case object only
in `provision_demo` (it holds a reference), so that there `ensure_case` does
not see a deletion and the foreign key refuses the insert; an UPDATE of a row
that is gone is a `StaleDataError`, a DELETE of one is not an error. New ids
are interchangeable, so `NewId` takes any one. `OldRowsAssumption` says that no two
documents from before scoped keys have one scope: `content_sha256` was unique
until the migration, which keeps that hash as their key.

### EvalsRunner, EvaluationView

`start` is one step under the lock and the start of the thread a second one;
`_execute` is one step per access to shared state. The subprocess is a
variable of its own, since it can outlive `communicate`.

`EvaluationView` extends it with the dashboard and with the reports on disk:
`writes` is the order in which suites wrote them, `view.report` how many of
these writes the page has seen. `PostArrives`, `PostRefused` and `PostAnswer`
are `POST /evals/run`, `PollAnswer` the poll that sees the end, `RequestFails`
any call of `handleRunBenchmark` that fails or times out, and `OthersStart` a
run of another client. `ClientSpec` is the specification without fairness, which
the theorems are about; `ClientFairSpec` is what the run checks.

### AppShell, CasesView, ReviewsView, AskView, DocumentSplitViewer, AuditTrailView, WebClient

A browser runs one handler at a time, so a step of the client is one event (a
click, an answer) with the code it runs up to its awaits, the rendering and the
effects that follow. Four variables suffice: `currentTab`, `activeCaseId`,
`screen` (the state of the mounted screen, a record with the names of its
`useState`s and the requests it has in flight) and `pending` (requests of
screens that were left which will still change the shell). What the server has
of interest to a screen (which cases exist and what run they have; the status of
every finding) is in the record too and changes on its own: `RunGoesOn`,
`OthersDecide`, `AnalysisFinds` (an analysis inserts findings, anywhere in
`Order`, which is by when its transaction began) and `CaseDeleted` (they are
deleted with their case).

| module | what it models |
|---|---|
| `AppShell` | tab and active case, and where sidebar, home page and palette lead |
| `CasesView` | the load effect with its cancellation (`CasesSelect`, `DetailAnswer`, `RunAnswer`), the polling effect (`WithWorkflow`, `PollAnswer`, `RefreshAnswer`), creation, upload, analysis, deletion |
| `ReviewsView` | list and effect of the filters (`Refiltered`, `ListAnswer`), decisions and batches (`DecisionAnswer`), the viewer (`handleNavigateFinding`, `CaseAnswer`), the export page by page (`ExportAnswer`), which remembers whether findings that it matches `came` or `left` meanwhile (`Disturbed`) |
| `AskView` | the conversation (`handleSendMessage`, `QueryAnswer`, `ClearConversation`), scopes, inspector, split viewer |
| `DocumentSplitViewer` | operators on a pane: `Selected` (clean-up and load), `Loaded` |
| `AuditTrailView` | filters, fetches, `ChainBanner`, the sign-off form |
| `WebClient` | composes them: `GoTo` unmounts and mounts, `Told` hands a changed case to the mounted screen, `Late...` are the answers to screens that were left, `Reload` forgets everything |

Any request may fail. The answer to a request that its effect cancelled is
ignored, as in the code; all other answers are applied whenever they come.
Deciding twice what two requests decided is left to the server's model; here
the server decides what is OPEN.

### DiscrepancyEngine

The rules are operators that return sets of findings; `CheckAmounts` is the
hierarchy of contract and purchase order in `analyze_case`, `CaseDocuments` the
choice of documents in `case_documents_from_extractions`. The state is the case:
its documents with what was extracted from them, uploaded, deleted, or extracted
again with a value missed or without success. `load_documents` selects without
ORDER BY, so what an analysis finds depends on an order of the database's
choice: a parameter of `Findings`, in which the `Earliest` extracted document of a
type counts. `DocumentsAssumption` says what an extracted invoice is: a record
of all fields, some of which may be missing, and never taken for a failure. Amounts are cents, dates days; normalised
currencies and terms are values, the normalisation of names is a parameter.

### AuditTrail

`statusOf` has the status of every row, `created` the order of each table, `ledger`
the events appended: rows of an action, an entity and a number, for an event may
be appended again. A request reads the ledger (`Request`) and then table by table
(`ReadTable`), each by a statement that sees what is committed by then, and
merges them (`Respond`): all rows of the ledger, and the projected events that
it does not cover. The writers are the transactions that `ReviewQueue`,
`CaseAnalysis` and `DocumentWorkspace` model in detail, here one action each:

| action | code |
|---|---|
| `CreateCase` | `CaseService.create`, which commits the case with its event; the demo case again after a deletion |
| `EnsureCase` | `ensure_case` of an upload, `create_many`: a case with the `legacy` source, without an event |
| `Create`, `Record` | the other rows, without an event; the event of a document, in a transaction of its own |
| `Restart`, `Finish` | the execution of a run, which may be repeated |
| `Decide`, `Resolve` | by requests that read the status before others wrote it |
| `DeleteDocument`, `DeleteCase` | the deletions with their cascades |

`due` remembers what there was to show when the request came, `shown` what the
request before was answered. Rows in `OldRows` are older than the ledger, and
`OldOrder` is their order.

The promises of a trail have exceptions, and the module names them. `Unrecorded`
are the events that the ledger need not have: the insertion of anything but a
case that `CaseService.create` made (the history variable `opened` has these),
which is recorded later or not at all, and what rows showed before there was a
ledger. So a case that an upload made is shown as long as it exists, and gone from
the trail with it. `MayVanish` are the unrecorded events whose row does not show
them any more when the response is sent, or was gone or beyond the newest
`MaxRows` when its table was read (`reader.missed`). The moment matters: a row can
be beyond the limit when it is to be read and within it again at the end, because
a newer one was deleted; and a case can be gone when it is to be read and exist
again at the end.

The writers may do more here than in their own modules: a run may be executed any
number of times, and every case may get the identifier of a deleted one.

### Indexing

A run of `ChunkIndexer._index` is in `run[i]`: the documents still to index, the
chunks it has selected, and its step. `Select`, `Embed`, `Insert` and `Commit`
are its statements; `Conflict` is the unique `chunk_id` and the foreign key of
`chunk_embeddings`. An insert waits for another transaction that has inserted an
embedding of the same chunk, a deletion for one that refers to its chunks. A task
(`Store`, `Schedule`) is an upload to a case and the background task it leaves; a
request indexes one document, a suite what is pending. `StoreOnly` is the upload
that schedules nothing. `Break` is a call that raises, `Crash` a restart.

### Proof modules and MC modules

`AuditProofs` (ledger, its verification and the trail), `ReviewQueueProofs`,
`CaseAnalysisProofs`, `DocumentWorkspaceProofs`, `EvaluationProofs`,
`WebClientProofs`, `IndexingProofs` and `DiscrepancyEngineProofs` hold the
theorems (section 4). As ledger and trail share a proof module, the trail's
definitions are called `TrailInit`, `TrailNext` and `TrailSpec`. The `MC...`
modules declare the model values and the small sets for
the `.cfg` files.

## 3. The runs

| run | instance | what it shows |
|---|---|---|
| AuditLedger | 3 sessions, 2 payloads, 5 values of the sequence | `ChainIntact`, `TamperingIsReported` (edits and removals); the table implements the log (`ImplementsLog`); appends end (`AppendsFinish`) |
| ReviewQueue | 2 requests, batches of up to 2, a finding with and one without a case, 3 events before the last requests | `LedgerAgreesWithRow`, `ResolvedAfterDecided`, `DeadlocksInvolveDeletion`: reviews alone never deadlock; `RequestsFinish` under fairness |
| ReviewRace | 2 requests, 1 finding | **violation** of `Lifecycle`, section 5 |
| CaseAnalysis | 2 requests, 1 run, 1 invoice, 1 high finding, 1 fault | `NothingPassesSilently`, `TerminalIsRecorded`, `DeletedStaysDeleted`; `CompletedShowsAllSteps` for runs that were executed once; `AnalysesFinish` under fairness, for runs without a fault |
| CaseAnalysisRace | 2 requests, 1 run | **violation** of `ReportedOnce`, section 5 |
| DocumentWorkspace | 2 requests, a demo pack of contract and invoice, a batch of two files, a note in no case stored before scoped keys, 5 rows, 1 deletion, 1 fault | `OneDocumentPerScope`, `IngestionIsComplete`; `DemoIsCompleted` under fairness |
| DocumentRace | 2 requests, 1 document, no fault | **violation** of `StoredFilesAreDeleted`, section 5 |
| Evaluations | a dashboard and others, 2 runs | `InFlightHoldsSlot`, `OutcomeIsReported`, `ReportIsFresh`; `SlotIsReturned` and `BenchmarkEnds` under fairness |
| WebClient | 2 cases, 3 findings of which one is still to be found, 2 documents; 2 requests in flight on a screen | `ViewerOfOneCase`, `ExportIsWhole`, `ExportsDrift`, `AnswersFollowQuestions`, `PaneShowsSelection`, `NoClaimWithoutAnswer`; the action properties `OnlyStrangersDisagree`, `PollsStopOnlyByFailure`, `SilentOnlyAfterDismissal`, `LateListsOnly` |
| DiscrepancyEngine | cases of 3 out of 12 documents, 1 value missed | `ExcessIsReportedOnce`, `ReproducibleWithOneOfEach`; `MissedValuesAccuseNobody`, `UploadsKeepReview` as action properties |
| AuditTrail | a case with a run and an approved finding, all older than the ledger; a document and a finding to come; 1 row of each table is read, 2 rows of the ledger | the action properties `NothingIsOverlooked`, `ShownStaysShown` |
| Indexing | a contract of 2 chunks and an invoice of 1; an upload, a request, a suite; 1 failure | `AllOrNothing`, `ConflictsAreCovered`; `ScheduledIsIndexed` under fairness |

The `TypeOK` of a module says what its variables hold. Those of `AuditLedger`,
`ReviewQueue`, `DocumentWorkspace` and `EvalsRunner` are proved (section 4), and
the invariants of the other proofs contain what they need of theirs; the runs
spend their properties on what an
actor's step can break. Nor do they list what another property implies: that a
ledger which was only appended to verifies is `TamperingIsReported` with nothing
removed, and a run that nobody carries would never end (`AnalysesFinish`).

`ExportIsWhole` and `ExportsDrift` share their subject. The first says that an
export is what it should be when the list stands still; the second what may go
wrong with it when the list moves, and what may not: it repeats findings only if
some came, and passes over some only if some left.

The four action properties of the client say by what *only* an agreement can be
lost: that case and run on display belong to the active case, that an active
run is polled, that a case that is not shown is on its way or has an error on
display, that the rows match the filters. They are the code's guarantees next
to the races it leaves open, which section 5 lists.

**Bounds, and why they are enough.** They are named in the modules:
`MaxSequence` (values of the ledger's sequence), `MaxBatch` and `MaxEvents`
(reviews), `Runs` (rows ever inserted) and `MaxFaults` (analysis),
`Documents` (rows ever inserted), `MaxDeletions` and `MaxFaults`
(documents), `Runs` (evaluations), `MaxDocuments` and
`MaxMissing` (discrepancies), `Entities` (rows of the trail ever inserted) and
`MaxEvents` (rows of its ledger), `MaxFaults` (indexing).

- The ledger's hazards need two writers around the tail query and one more
  that follows; five values of the sequence leave room for rollbacks between
  commits. The proofs need no bound.
- The stale status of a review needs two requests on one finding, the
  agreement of row and ledger two committed events, a resolution after two
  decisions three. Batches of two findings let a request meet another one twice,
  once with a case and once without; two sessions close the cycle through
  finding, ledger and case. `MaxEvents` stops new requests only:
  the ones in progress still commit, so that the ledger gets longer than it.
- The races on a run need two executions of it. One document and one finding
  distinguish what the properties distinguish. With one fault, every single
  step may be the one that fails. A second run of the same case, and with it the
  unique index that refuses `Begin` a run when another one is active, is beyond
  the instance; the theorems on CaseAnalysis hold with it (section 4).
- The races of ingestion are between two requests on one scope. The pack of two
  documents can be interrupted between them; five rows leave room to upload
  again what was deleted. The note is not parsed, so that its row is kept as
  failed, and its old key is upgraded by an upload or lost by a deletion. A
  batch has a file of an unsupported type, which is reported and adds no row,
  before the invoice, so that it goes on after a refusal.
- Two evaluation runs are one of the dashboard before or after another one, and
  let a late thread meet the run after its own.
- The client's races need two requests: one that is late and one that overtakes
  it. `MaxInFlight` = 2 bounds the requests of a screen in flight when the user
  starts another, `MaxJobs` = 1 those among them that do more than fetch what is
  shown. Where they touch the same rows these start, and single rows are
  selected for them, when no list is on its way, and on the case screen when no
  refresh is. `MaxRuns` = 1 bounds the runs of a case, `MaxMessages` = 2 the
  messages when a question is sent, `MaxSettled` = 2 the findings that were
  decided or deleted so far, `QuietTabs` the screens (reviews and chat) that are opened with no
  request of another screen pending. `CaseServers` and `InitialStatuses` are
  what the server may have: no run, or a run in progress and a case that does
  not exist (the palette names such cases); a finding that is OPEN, one that was
  approved, and one that is still to be found, which is listed first. Two rows a
  page and three findings make two pages, and an export has a page for every
  finding, so that they come and leave between its pages; two cases with findings
  make the viewer cross from case to case.

- Discrepancies: a rule compares an invoice with one contract or order, and two
  invoices of one number with each other; three documents are an invoice with
  both or two invoices with one. Each invoice of the instance differs from a
  clean one in what one rule looks at. No amount lies at the edge of a tolerance,
  where the code's floats decide.
- The trail: its hazards are between one row and its event; a second finding
  crowds the first one out for good, and returns it when it is deleted
  (`MaxRows` = 1, instead of 2000). The finding that is older than the ledger has
  an outcome which only its row shows; the case can be deleted and made again with
  an event or without. Two rows of the ledger let an event be appended
  before and after the ledger is read. The theorems need none of this.
- Indexing: two runs conflict, and a third one may wait for either; a document of
  two chunks can be half indexed, the second one is the next of the task.

**Fairness, and what in the code justifies it.**

- `AuditLedger`: `WF` on what a session does once it has the lock (the caller
  runs on, or rolls back); `SF` on the grant, as PostgreSQL queues the waiters
  of a lock.
- `ReviewQueue`: `SF` on the steps of a request, as some take a lock, whose
  waiters PostgreSQL queues, and `WF` on `BreakDeadlock` (it looks for deadlocks
  after a timeout). Nobody is obliged to send a request or to fail.
- `CaseAnalysis`: `WF` on the steps of a request: the event loop runs every
  coroutine, database and model calls return or time out.
- `DocumentWorkspace`: `WF` on the steps of a request, as in `CaseAnalysis`, and
  `SF` on the start of a demo request: an assumption about clients, without
  which nothing obliges anybody to complete the demo case. It must be strong,
  because other requests may fill the bound `Requests` again and again.
- `EvaluationView`: `WF` on the steps of a thread and on the end of the
  subprocess, and on the answers to the dashboard's requests, which come or time
  out. The start of a thread may fail: then the run stays queued and keeps the
  slot until the server restarts, so that `SlotIsReturned` speaks of runs whose
  thread has started. `BenchmarkEnds` holds all the same, since the request is
  answered with an error. Nobody has to press the button.
- `Indexing`: `WF` on the steps of every run: uploads come to their end, Ollama
  is awaited no longer than its client's timeout, and a transaction waits only
  for others in progress. Nobody has to upload or to ask for an index.
- `WebClient`, `DiscrepancyEngine` and `AuditTrail` have safety
  properties only, and no fairness.

Deadlock checking is on in every run. Where the server may rest (no request in
progress) the modules have an action `Rest` whose guard says so; a user can
always go elsewhere.

## 4. What is proved

For any number of writers and payloads and any number of rows, in
`AuditProofs`:

- `TypeCorrect`, `ChainIntegrity`, `ForkFreedom`: `Spec` implies `[]TypeOK`,
  `[]ChainIntact` and `[]NoFork`;
- `LedgerGrowsAtTheEnd`: `Spec => GrowsAtTheEnd`;
- `LedgerImplementsLog`: `Spec => ImplementsLog`, the refinement of
  `AppendOnlyLog` with `log <- TailHash(rows)`;
- `TamperingShows`: `Spec => []TamperingIsReported`.

`ChainIntact` is not inductive: a commit keeps it only if the row that is
committed continues the table as it is *now*. The invariant `IInv` adds

1. `Exclusive`: who is between lock and commit has the lock;
2. `TailIsCurrent`: hence nobody else commits in between, and the tail that a
   writer read is still the tail of the table;
3. `PendingIsNext`: hence its pending row continues the chain, with a sequence
   above every committed one, because the sequence is drawn under the lock;
4. `TableInv`: sequences are below `nextSequence` and different, there is a
   newest row, and the chain is intact with hashes that get longer.

A row with these properties extends the chain at its end (`RowAppended`), and
every other step leaves the table alone. `NoFork` follows from hashes that get
longer: each row's `prev_hash` covers all rows before it. The only assumptions
are `FreeAssumption` (no session is called like the free lock) and
`MaxSequenceAssumption`; the bound plays no part in the argument.

`TamperingShows` is about what `verify_ledger` answers for *another* table: the
ledger with one row rewritten, or with any rows removed. A row is `Good` in a
table when it continues the rows below it there and hashes its own payload.
While the rows are good, the loop carries on with the hash of the last one
(`GoodSoFar`), so a table of good rows verifies (`GoodTableVerifies`), and a
table whose first row that is not good has the number n is reported at n
(`BrokenAt`). Both are proved by taking the least number for which they fail,
since induction over data is out of the prover's reach. It remains to find the
first row that is not good: an edited row itself, as hashes of rows of the ledger
are all different (`Hashes`: they get longer); the row after one whose hash was
recomputed; and of what a removal leaves the first row above a removed one, for it
names the hash of a row that is gone. `NumbersDrawn` adds to `IInv` that numbers
are positive and at most `MaxSequence`, so that the loop sees every row.

In `CaseAnalysisProofs`, for any number of requests, runs, cases, documents,
findings and failures: `NothingEverPassesSilently` (`[]NothingPassesSilently`),
`OutcomesAreRecorded` (`[]TerminalIsRecorded`), `CasesStayDeleted`
(`DeletedStaysDeleted`) and `StepsAreShown` (`[]CompletedShowsAllSteps`). What
makes them hard is that a request remembers a run,
its case and what it found, while the run may be deleted, finished by another
request or given more tasks between two of its transactions. The argument has
two halves:

1. `Evolves`, which every action satisfies: a run is not created twice, and while
   it exists it keeps its case and its tasks;
2. `Carried`, which each action establishes for the request it changes, and
   `Evolves` preserves for all others (`CarriedOn`): the run of a request was
   created, and if it still exists, it is a run of the request's case and, once
   `create_review_tasks` is past, has all that the request met in its tasks.

An event is `Sound` when it is appended because of `Carried`, and stays so
because of `Evolves` (`SoundStays`). A transaction that would add a missing case
also inserts tasks of a run, so it commits only if the run exists; then its case
does too (`RunsHaveCases`), and nothing is added.

`StepsAreShown` has an invariant of its own, `ShownInv`. Two executions of a run
overwrite each other's steps, so it speaks only of a run that has *one* executor
and no event: its row shows the steps which this request has reported
(`Reported`), and if the request holds a copy of the row, the copy has the steps
of the row. Without faults an execution that is not lost with its run ends in an
event. Hence a completed run with one event had no other executor when the event
was appended, and, since `TerminalIsRecorded` excludes that it was completed
before, the event is that of `finish`, where all five steps are reported.

`IInv` and `ShownInv` were checked with TLC on the instance of CaseAnalysis before
they were proved. The proofs cite none of the assumptions on the constants.

In `ReviewQueueProofs`, for any number of sessions, findings and cases, batches of
any length: `TypeCorrect`, `RowsMatchLedger` (`[]LedgerAgreesWithRow`),
`ResolutionFollowsDecision` (`[]ResolvedAfterDecided`) and
`ReviewersDoNotDeadlock` (`[]DeadlocksInvolveDeletion`). `decide` and `resolve`
check a status that is stale when they write, so the first two hold for weaker
reasons than the check suggests, and `IInv` says which:

1. `Knows`: whatever happened since a session read its finding, the row is not
   back at an earlier status, the decision that a resolution follows is still in
   the ledger, and from the flush on nobody else can write or delete the row;
2. `Holds`: how far a session has come that has a lock of some kind. A session
   with the ledger's lock is at its flush or commit, so only the event it appends
   can be the last one of its finding;
3. `RowsAndEvents`: a finding that is open or was never created has no event.

For deadlocks, `Holds` says who may have the lock that a session wants, and
`FurtherOn` that it is one that is further on: at the row, the ledger or the last
flush one waits for sessions past it, as long as no deletion that has its case is
involved. So nobody in a circle of the others is at its commit, for that waits for
nothing; hence nobody at the flush before it, and so on back to the first lock.

In `DocumentWorkspaceProofs`, for any number of requests, cases, contents, old
rows, failures and batches of any length: `TypeCorrect`, `NoDuplicates`
(`[]OneDocumentPerScope`) and `IngestionsComplete` (`[]IngestionIsComplete`). The
unique index is about keys, the property about scopes, and the two differ on rows
from before scoped keys. `IInv` therefore adds

1. `KeysFollowScopes`: the key of a row is its scope, unless the row is old;
2. `BeforeInsert`: who is about to insert has looked for an old row of its scope.
   It looked long before, across several awaits; but nobody adds old rows, so the
   answer stays true, and the index checks the rest when the row is inserted;
3. `ItsDocument`: an upload that works on an old row never becomes one that owes
   an event or a file, and one that writes the file has recorded the event;
4. `ItsFiles`: a deletion unlinks only files of rows that are gone.

The assumptions it cites are those on the constants; the bounds only as numbers.

In `EvaluationProofs`, for any number of runs: `RunnerTypeCorrect` and
`SingleFlight` (`[]InFlightHoldsSlot`), from an invariant that adds
`ThreadTellsStatus`: a thread past the work has set a terminal status, so that
the slot it clears, or finds taken over, is never the one of a run in flight.
`RunnerServesDashboard` is a refinement: `ClientSpec => Spec`, every step of
dashboard and runner together is one of the runner or none, so that what is proved
of the runner holds under any dashboard. `OutcomesAreTrue`
(`[]OutcomeIsReported`) and `ReportsAreFresh` (`[]ReportIsFresh`) follow from
`ClientInv`, which adds that a run that completed has written its reports
(`CompletedIsWritten`), and from `StepIsFinal`: a run that is over stays as it
ended. `NoRunAssumption` says that "no run" is not a run.

In `WebClientProofs`, for any number of cases, findings, documents, messages and
requests in flight (the bounds play no part): `AnswersInOrder`
(`[]AnswersFollowQuestions`), `PanesShowSelection` (`[]PaneShowsSelection`),
`NoClaims` (`[]NoClaimWithoutAnswer`) and `ViewerAgrees` (`[]ViewerOfOneCase`).
None is inductive. The answer to a question brings the conversation of the
moment the question was sent, so what must alternate is also the conversation
*remembered by the request*; and it may follow only if no second question was
sent meanwhile. `ClientInv` therefore adds to the types, while the screen is
mounted:

1. `Conversation`: at most one question waits, its remembered messages alternate
   and end with it and its scope, and when nothing is loading there is none and
   the messages end with an answer. Clearing the conversation or changing the
   scope keeps this, since neither touches the request;
2. `PaneInv`: of the loads of a pane only that of its selection is not
   cancelled, and while there is one the pane is loading;
3. `TrailInv`, of the audit trail screen: the verdict is that of the events on
   display, whichever request brought them, and without events the screen loads
   or shows an error;
4. `ViewerInv`, of the review screen: a viewer that is open, and every one that is
   still to open when the documents of its case are there, has the case of its
   finding;
5. `ListsInv`, of the same screen: what an export has fetched, if nothing came or
   left, is a beginning of what its query matches; if nothing came, it has no
   finding twice, nor one that it has still to fetch; if nothing left, all that was
   there when it began is fetched or still to be fetched.

A screen that is left takes its state with it; `ShellStep` says that the shell
mounts a screen anew, tells it about another active case, or leaves it alone. The
proofs use `DocsOfAssumption`, `NoDocumentAssumption` and `SearchesAssumption`.

`ListsInv` gives `ExportsAreWhole` (`[]ExportIsWhole`) and `ExportsOnlyDrift`
(`[]ExportsDrift`), over a list that is decided on, added to and deleted from: the
page that an answer brings begins where the export had got to (`PageFollows`,
`PageDrifts`), and the export is over when the page is short or the total is
reached, when nothing is left to fetch. That the server changes moves the list: where
a finding stands in it is the number of those up to it in `Order` that match
(`Places`), so when nothing that matches leaves, no finding moves to the front
(`PlacesKept`), none passes the offset from behind, and what was still to be fetched
is so; and the other way round when nothing comes (`DisturbedFetches`). A decision on the way
disturbs an export that goes on (`ServedLists`); one that is over is on disk by
then. `LateLists` (`LateListsOnly`) follows from `RowsStep`, which every step of
the screen satisfies: it keeps the rows and the query they are shown under, leaves a
list on its way or an error, or brings the rows of an answer, which match the query
the answer was asked with (`MatchingMatches`, `WindowIs`). What the server matches
is a function over the list, and what is proved of it is proved as for `Seen`. Both
use `FindingsAssumption` (the server can list every finding, each once) and
`PagesAssumption` (pages are not empty).

The same module proves the three action properties of the case screen for any
number of cases and runs: `StrangersOnly` (`OnlyStrangersDisagree`), `PollsStop`
(`PollsStopOnlyByFailure`) and `SilenceIsDismissal` (`SilentOnlyAfterDismissal`).
`CasesInv`, a part of `ClientInv`, has the two facts they need. The interval
polls a run of the case on display, so that the answer of a poll brings the run
of no other case; and a request for a run of the active case is in flight only
when the detail of the case has come and is not asked for again, so that its
answer never leaves the screen without a word. `StepsOn` is what every step of
the screen then satisfies, the three properties in one; a newly mounted screen
(`MountedCases`) satisfies them by itself. TLC checked `CasesInv` first. The
proof found that `CASE` expressions of `WithWorkflow` and `CasesSelect` had
overlapping arms, among which TLA+ leaves the choice open although TLC takes the
first; they are conditionals now, in the order of the code.

In `AuditProofs`, for any entities, any old rows, any order of the tables and
any number of rows read: `NothingOverlooked` (`NothingIsOverlooked`) and
`ShownStays` (`ShownStaysShown`). Other requests commit between the statements of
one, and `Completeness` (`TrailSpec => []CompleteInv`) keeps

1. `RecordedOrOld`: what a row shows is in the ledger or `Unrecorded`, at every
   moment: a case that `CaseService.create` made and every outcome is committed
   together with its event;
2. `OldOutcomesPass`: a row whose outcome is older than the ledger has that
   outcome, is resolved or is gone, so that an event it has ceased to show is
   never shown by it again;
3. `OpenedRecorded`: the cases in `opened` have their event, whatever was deleted
   and made again since;
4. `ReadingInv`: what was due when the request came, and what the trail before
   showed, is in the ledger as it was read, or `Pursued`: read from its table,
   missed, outdated, or of a table that is still to be read. When the response is
   put together no table is, and what is left is `MayVanish`.

The first and third show what the exceptions depend on. Were a decision not
committed with its event (the mutant of `ShownStaysShown`), a trail would show an
approval that the next one lacks when the finding is resolved. A case that an
upload made has no event at any time, and is excused for as long as
`CaseService.create` has not made it again.

The proof found that an earlier statement of `MayVanish`, which asked
whether a row was beyond the limit *at the end*, is wrong: a row that was beyond
it when its table was read, and is not any more because a newer one was deleted,
is missing without being excused. The model remembers what was missed since then.

In `IndexingProofs`, for any documents, chunks, runs and failures:
`IndexedAsAWhole` (`[]AllOrNothing`) and `LosersLeaveNothing`
(`ConflictsAreCovered`). `IndexInv` adds that a selection consists of whole
documents which were stored, and that it stays so while others insert and delete.
If then an insert for one document conflicts, some chunk of it is indexed, hence
all are, or it is deleted. The proofs use `DocumentsAssumption` (a chunk belongs
to one document).

In `DiscrepancyEngineProofs`, for any documents, any number of uploads and any
normalisation of names: `ExcessReported` (`[]ExcessIsReportedOnce`), `Reproducible`
(`[]ReproducibleWithOneOfEach`), `MissedValuesAccuse` (`MissedValuesAccuseNobody`)
and `ReviewsRemain` (`UploadsKeepReview`). A property speaks of all rules at once,
so each rule gets its lemmas: the types of its findings (`AmountFindings`,
`OtherFindings`), what it does with less to know (`LessKnownRules`) and with more
documents (`SeriousRules`).

1. An excess is reported once because of the two rules about amounts exactly one
   speaks, and no other rule makes findings of these types.
2. With at most one extracted contract, order and policy, the `Earliest` of a type
   is the same in every order (`FirstOfOne`), and nothing else depends on it.
3. A value that is missed does not change which document is first
   (`MissLeavesReferences`), and a rule other than those about what is missing
   compares only values it knows: what it finds with less to know it finds with
   more. Findings about a number that several invoices share are not about one
   invoice, and not part of the property.
4. An upload makes the case grow (`Grows`): invoices are added, and a contract,
   order or policy only where none was extracted, so that those which counted still do,
   wherever the new document is loaded among the others (`UploadGrows`). A serious finding of an
   invoice may then change its type, from the order's excess to the contract's,
   but not disappear.

`CaseOfUploads` is the invariant behind 3 and 4: the documents of a case are
uploaded ones, of which only invoices may have lost values. The third property
needs `DocumentsAssumption`: if the normalisation could make a company out of a
missing name, or an invoice with missing values pass for a failed extraction, it
would be false.

**Model-checked only.**

- All liveness properties (`AppendsFinish`, `RequestsFinish`, `AnalysesFinish`,
  `DemoIsCompleted`, `SlotIsReturned`, `BenchmarkEnds`, `ScheduledIsIndexed`):
  fairness and `ENABLED` are outside the prover's reach.
- The three properties that their runs refute (section 5).

Every invariant, every action property and the refinement that a passing run checks
is a theorem.

## 5. Where code and documentation disagree

1. **A decided finding can be decided again** (`services/reviews.py:143`).
   `decide` and `resolve` read the row without locking it, check its status,
   and write later. Two overlapping requests both read OPEN and both commit;
   the row and the ledger keep the second decision as the last one. The service
   says "only OPEN tasks can be decided" (line 145) and ADR 005 has the
   lifecycle OPEN, APPROVED or REJECTED, RESOLVED. Run `ReviewRace`.
   `LedgerAgreesWithRow` shows that even then row and ledger agree.
2. **A run can be reported twice** (`api/routes/cases.py:142`). A second POST
   that finds the run still queued schedules it again; both executions append
   the terminal event. `api/routes/audit.py:45-46` says that no action is
   reported twice. Run `CaseAnalysisRace`. The trail shows both rows: `merge_trail`
   drops projected events only, although it says that "nothing is reported twice"
   (`services/audit.py:262`). The same holds for a finding that is decided twice
   alike, and for a demo case that is made again.
3. **A deleted document can leave its file** (`services/documents.py:135`). The
   document is committed, and can be listed and deleted, before its file is
   written. A deletion in between finds no file, and the upload writes one that
   no document owns. `delete_document` says that it deletes "the document row
   (children cascade) and its stored file" (line 174). Run `DocumentRace`.

Behaviour met on the way that the models have, and that no property excludes. The
texts quoted promise more than the code does; no run is spent on them.

*Server.* Two executions of one run overwrite each other's progress, so a
completed run may show an unfinished step (`CompletedShowsAllSteps` is claimed
for runs that were executed once); a run left behind by a crash blocks its case
for good, as the unique index counts it as active; an evaluation subprocess
whose `communicate` raised is left alive when the slot is given up, and one
whose thread could not be started keeps the slot; a failure between the commits
of an upload leaves a document without event or file (`documents.py:128-131`
says so of the event), and a later upload of the same file takes it for a
complete duplicate, so that nothing repairs it.

*Rules.* A rule without its operands is silent: an invoice whose subtotal the
model misses loses its `incorrect_total` without a trace. Of invoices with one
number, totals of zero are not compared, and nothing is if one total is unknown
(`discrepancy/engine.py:328`); the finding says all the same that the number
"appears {len(records)} times with identical totals" (344). `load_documents` has
no ORDER BY (`services/compare.py:96`) and the first contract, order and policy
count, so that with two of a kind the findings depend on the database's order,
although the README calls the rules "Reproducible, explainable, testable" (34).

*Trail.* A case that an upload, or the queueing of findings, makes because it does
not exist (`repositories/documents.py:21-25`, `services/reviews.py:65-67`) has no
event: the trail shows it as projected, and forgets it when it is deleted. A deleted document, run or finding takes its projected events with it,
and rows beyond the newest 2000 of a table are not projected. The start of a run
"is fully recoverable from `workflow_runs.started_at`" (`services/compare.py:51`)
until its case is deleted; the ledger keeps the outcome. `review_events` projects
the action of the present status only (`services/audit.py:485`), so that an
approval from before the ledger is no longer shown when the finding is resolved,
although such events "are still projected from the live tables at read time"
(`README.md:201`).

*Index.* The README says that readiness is "computed from what has actually been
ingested and indexed" (107); `calculate_readiness` looks at the types of parsed
documents, and one whose indexing failed or was never scheduled counts. A suite
that indexes everything loses all its embeddings when one chunk conflicts, and a
run holds its connection while it waits for the model.

*Chunks.* The flush that makes room for a piece puts repeated text into the new
buffer, and the piece follows without asking again whether it fits
(`ingestion/chunking.py:131`), so that a chunk may exceed `max_tokens`.

*Case screen.* The refresh at the end of a run, an upload and an accepted
analysis of one case are shown when they are answered, although another case is
active by then (192, 294, 334); a case that cannot be loaded keeps the run of
the case before (162-167). The confirmation of a deletion stays ticked for the case
that is opened next (120). Between the detail of a case and its run, the report
and the exported dossier combine the new case with the old run. After a
deletion no case is active, even if the user has opened another one meanwhile
(354). One failed poll ends the polling (200).

*Review screen and audit trail.* Nothing cancels the request of the list before:
an older answer that comes last is shown under the newer filters, and an error
stays on display although a newer answer has come. After a decision the list is
fetched with the filters of the rendering the button was pressed in. A page
beyond the last one, after decisions, shows "no findings match" (582-588).
"Select all visible" is enabled while the list is loading and takes the rows
before; the selection keeps rows that were decided. An export during which
findings leave the list, because they are decided or their case is deleted, may
skip some, and one during which findings come repeats some, although it says that
it pages through "rather than silently truncating the export" (270-272). Approve and Reject of the viewer find the
row by its description (811-822), its index is not kept up to date when the
list is fetched again, and the late answer of `handleNavigateFinding` opens a
viewer that was closed. The audit trail shows "invalid" before the first answer.

*Chat, viewer, evaluation.* Clearing the conversation while an answer is on its
way is undone by the answer (299, 320). Previews are not cancelled (374-389).
The viewer that goes on to a finding with fewer than two matching documents
keeps those of the finding before (95-105 of `DocumentSplitViewer.tsx`). The icon
of the audit trail's banner asks for the verdict alone (259 of
`AuditTrailView.tsx`), so that it is the one of an invalid chain after an error; only
the banner's text is modelled. A
benchmark whose poll fails or times out is let go of: its reports are not
fetched, and the next start is refused while it goes on.

## 6. What the models leave out

- Data: the contents of documents, extractions, findings, prompts and answers;
  HTTP formats; logging.
- `CaseAnalysis` has no uploads and no decisions on findings; a deletion is one
  step there (its locks are in `ReviewQueue`). The failure event carries no
  findings, as in the code. Of a run that several requests execute, the row may
  combine columns of both; the properties therefore compare the *events* with
  the review queue. A progress report that changes no step is not written there; the
  code writes it, since the time of completion differs (`services/compare.py:379-387`),
  with the same steps. An analysis that is told to extract again (132) is not modelled:
  a document with a valid extraction keeps it.
- `ReviewQueue` takes the ledger lock and the append as the log that
  `AuditLedger` implements.
- `DocumentWorkspace` has no elements, chunks and embeddings (they live and die
  with their document; embeddings are in `Indexing`), no file types, size limits and names, and no analyses
  of the cases it deletes.
- `DiscrepancyEngine` has no floats (amounts are cents, tolerances 2 and 3 of
  them), descriptions, confidences and evidence, and of normalisation what its
  properties tell apart: names that are equal when normalised, or nothing.
- `AuditTrail` has no time stamps, hashes, filters, pages and exports; the chain
  of projected entries is recomputed over what is shown and says nothing of it.
- `ReviewsView` answers a request of the list at one moment; the server selects the
  page and counts the total in two statements (`list_tasks`, `count_tasks`).
- `CasesView` has one poll of an interval in flight. In the code (198-201) a poll
  that is still in flight when another one fails may be applied after that.
- `AskView` lets nothing be sent while the split viewer covers it; the key `/` still
  moves the focus to its text box.
- `Indexing` has no vectors. Rows are inserted one after another, and two runs
  over several documents, or a run and a deletion, could wait for each other in
  opposite orders: PostgreSQL aborts one, which is a failure here.
- Not modelled at all: parsing and chunking (sequential functions of one
  document), search with its fusion and context budget, the answering of
  questions with its citations, and extraction with its retries. They keep no
  state but the rows of `query_runs` and `extraction_runs`, and are next in the
  plan.
- `EvalsRunner` has no output tails, and of the reports only who wrote them when.
- The client's models have no texts, notes, toasts, menus, search in the list of
  cases, choice of files, quick look at a document, dossier, choice of documents
  by a finding, layout or translations; the list of cases and the health check
  of the shell, on which nothing else depends, are left out. Requests of screens
  that were left only matter by what they do to the shell. The client and the
  server are composed for evaluations; the other screens see what the server
  has as states that change on their own.
- Wiring, configuration, the MCP server (read-only wrappers, and one tool that
  calls the modelled `CompareService.run`), report formatting and the evaluation
  suite are not modelled: they keep no state that the
  server's correctness depends on.

## 7. Plan

Written in this order, most important behaviour first:

1. *(done)* AuditLedger with AppendOnlyLog and LedgerVerification; ReviewQueue;
   CaseAnalysis; EvalsRunner; the ledger's and the runner's theorems.
2. *(done)* **DocumentWorkspace**: uploads, deduplication, demo provisioning and
   deletions, with failures between their steps.
3. *(done)* **WebClient** and its screens; **EvaluationView** with the runner
   behind it; `AnswersInOrder` and `PanesShowSelection`.
4. *(done)* **AuditTrail** with `NothingOverlooked` and `ShownStays`; **Indexing** with
   `IndexedAsAWhole` and `LosersLeaveNothing`; **DiscrepancyEngine**.
5. **Question answering**: routing, abstention, citation checks and persistence;
   **extraction**: the validate, repair and retry loops as a state machine.
6. **Chunking**: limits, overlap and sections of `chunk_elements`; **search**:
   reciprocal rank fusion and the context budget against reference
   definitions; the evidence of findings.
7. *(done)* **Proofs** of ReviewQueue, DocumentWorkspace, EvaluationView,
   AuditTrail and DiscrepancyEngine; of the client, all safety and action
   properties of its screens; `CompletedShowsAllSteps`; `TamperingIsReported`.
