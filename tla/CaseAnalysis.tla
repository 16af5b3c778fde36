----------------------------- MODULE CaseAnalysis -----------------------------
(***************************************************************************)
(* The analysis of a case: CompareService of app/services/compare.py, the  *)
(* LangGraph workflow of app/agents/graph.py that it runs, and the routes  *)
(* POST /cases/{id}/analyses and POST /compare that start it.              *)
(*                                                                         *)
(* One request of the model is one request of the API together with the    *)
(* background task it leaves behind: both live in the server's process,    *)
(* and a crash ends them.  The database survives it.  Between two database *)
(* calls of a request, other requests run.  A transaction that changes a   *)
(* workflow_runs row reads the row first and locks it only when it writes; *)
(* SQLAlchemy writes the columns that differ from what was read.  A        *)
(* transaction is therefore a step that reads and a step that commits.     *)
(*                                                                         *)
(* Of a document the model keeps whether it exists and whether a valid     *)
(* extraction of it is stored; of a finding, whether its severity is high. *)
(* The runs table, review queue and ledger keep what the workflow tells    *)
(* them of these.  Uploads and decisions on findings are not part of it.   *)
(***************************************************************************)
EXTENDS Integers, Sequences, FiniteSets

CONSTANTS Requests,     \* API requests that may be in progress at the same time
          Runs,         \* identifiers of workflow runs
          Cases,
          Documents,    \* the parsed documents there are in the beginning
          DocumentCase, \* DocumentCase[d]: the case of document d
          Required,     \* the documents that are a contract or an invoice
          Findings,     \* what the rules may find
          HighSeverity, \* the findings that make a report require a review
          NoCase, NoRun, NoRow, NoDocument,
          MaxFaults     \* bound: failures of the server, the database or the model

ASSUME PackAssumption ==
  DocumentCase \in [Documents -> Cases] /\ Required \subseteq Documents
ASSUME SeverityAssumption == HighSeverity \subseteq Findings
ASSUME FaultsAssumption == MaxFaults \in Nat

VARIABLES caseExists, \* the cases that have a row
          docs,       \* documents that exist
          extracted,  \* documents with a schema-valid extraction run
          runs,       \* runs[w]: row of workflow_runs
          tasks,      \* tasks[w]: what the review tasks of run w are about
          ledger,     \* terminal workflow events of audit_events, oldest first
          req,        \* req[q]: what request q is doing
          faults      \* failures so far

vars == <<caseExists, docs, extracted, runs, tasks, ledger, req, faults>>
database == <<caseExists, docs, extracted, runs, tasks, ledger>>

(***************************************************************************)
(* WORKFLOW_STEPS, by position.                                            *)
(***************************************************************************)
LoadDocuments == 1
ExtractFields == 2
RunRules      == 3
CreateTasks   == 4
BuildReport   == 5
WORKFLOW_STEPS == 1..5

Active == {"queued", "running"}
Terminal == {"completed", "failed"}

initial_workflow_steps == [i \in WORKFLOW_STEPS |-> "pending"]
AbsentRun == [status |-> "absent", case |-> NoCase, steps |-> initial_workflow_steps]
IdleRequest == [pc |-> "idle", run |-> NoRun, case |-> NoCase, row |-> NoRow,
                doc |-> NoDocument, todo |-> {}, loaded |-> {}, failed |-> {},
                found |-> {}, done |-> 0]

Waiting == {"select", "insert", "reselect"}                 \* create_analysis
Working == {"load_documents", "extract_fields", "llm", "run_rules",
            "create_review_tasks", "notify"}                \* inside graph.ainvoke
Ending  == {"finish", "failure"}
Steps   == {"idle", "begin"} \cup Waiting \cup Working \cup Ending

StepTrace == [WORKFLOW_STEPS -> {"pending", "running", "completed"}]

TypeOK ==
  /\ caseExists \subseteq Cases
  /\ docs \subseteq Documents /\ extracted \subseteq docs
  /\ runs \in [Runs -> [status : {"absent", "deleted"} \cup Active \cup Terminal,
                        case : Cases \cup {NoCase}, steps : StepTrace]]
  /\ tasks \in [Runs -> SUBSET (Documents \cup Findings)]
  /\ \A i \in DOMAIN ledger :
       ledger[i] \in [run : Runs, status : Terminal, review : BOOLEAN,
                      failed : SUBSET Documents, found : SUBSET Findings]
  /\ \A q \in Requests :
       /\ req[q].pc \in Steps
       /\ req[q].run \in Runs \cup {NoRun} /\ req[q].case \in Cases \cup {NoCase}
       /\ req[q].pc \in {"begin"} \cup Working \cup Ending => req[q].run # NoRun
       /\ req[q].pc = "notify" => req[q].done \in WORKFLOW_STEPS
       /\ req[q].pc = "llm" => req[q].doc \in Documents
  /\ faults \in 0..MaxFaults

Init ==
  /\ caseExists = Cases
  /\ docs = Documents
  /\ extracted = {}
  /\ runs = [w \in Runs |-> AbsentRun]
  /\ tasks = [w \in Runs |-> {}]
  /\ ledger = <<>>
  /\ req = [q \in Requests |-> IdleRequest]
  /\ faults = 0

------------------------------------------------------------------------------
Exists(w) == runs[w].status \notin {"absent", "deleted"}
ActiveRuns(c) == {w \in Runs : runs[w].case = c /\ runs[w].status \in Active}

(***************************************************************************)
(* Runs bounds the rows ever inserted: when no identifier is left, a       *)
(* request that would insert one stays where it is.                        *)
(***************************************************************************)
Unused == {w \in Runs : runs[w].status = "absent"}
NewRun(status, c) == [AbsentRun EXCEPT !.status = status, !.case = c]

(***************************************************************************)
(* uq_workflow_runs_active_case: a case other than NULL has at most one    *)
(* active run; cases(case_id) is a foreign key.                            *)
(***************************************************************************)
MayInsert(c) == c # NoCase => c \in caseExists /\ ActiveRuns(c) = {}
MayReactivate(w, c) == c # NoCase => ActiveRuns(c) \subseteq {w}

Become(q, r) == req' = [req EXCEPT ![q] = r]
GoTo(q, pc) == Become(q, [req[q] EXCEPT !.pc = pc, !.row = NoRow])
End(q) == Become(q, IdleRequest)
Notify(q, i, r) == Become(q, [r EXCEPT !.pc = "notify", !.done = i, !.row = NoRow])

(***************************************************************************)
(* POST /cases/{id}/analyses answers 409 when a contract or an invoice is  *)
(* missing; otherwise it goes on to create_analysis.                       *)
(***************************************************************************)
Ready(c) == c \in caseExists /\ {d \in Required : DocumentCase[d] = c} \subseteq docs

AnalyzeCase(q, c) ==
  /\ req[q].pc = "idle"
  /\ Ready(c)
  /\ Become(q, [IdleRequest EXCEPT !.pc = "select", !.case = c])
  /\ UNCHANGED <<database, faults>>

(***************************************************************************)
(* What the route does with the run that create_analysis returns: a run    *)
(* that is queued, whoever queued it, is scheduled on the background tasks *)
(* of this request; a running one is left to the request that runs it.     *)
(***************************************************************************)
\* Mutant: the test of the route the wrong way round.
ReturnSwapped(q, w, status) ==
  IF status # "queued" THEN Become(q, [req[q] EXCEPT !.pc = "begin", !.run = w])
                       ELSE End(q)
Return(q, w, status) ==
  IF status = "queued" THEN Become(q, [req[q] EXCEPT !.pc = "begin", !.run = w])
                       ELSE End(q)

SelectActive(q) ==
  /\ req[q].pc = "select"
  /\ IF ActiveRuns(req[q].case) = {}
     THEN GoTo(q, "insert")
     ELSE \E w \in ActiveRuns(req[q].case) : Return(q, w, runs[w].status)
  /\ UNCHANGED <<database, faults>>

(***************************************************************************)
(* INSERT and COMMIT.  A violated constraint is an IntegrityError, which   *)
(* selects again; a case that was deleted fails the update of its          *)
(* updated_at or the foreign key, and nothing is found then either.        *)
(***************************************************************************)
InsertRun(q) ==
  LET c == req[q].case
  IN  /\ req[q].pc = "insert"
      /\ IF MayInsert(c)
         THEN \E w \in Unused :
                /\ runs' = [runs EXCEPT ![w] = NewRun("queued", c)]
                /\ Return(q, w, "queued")
         ELSE GoTo(q, "reselect") /\ UNCHANGED runs
      /\ UNCHANGED <<caseExists, docs, extracted, tasks, ledger, faults>>

(***************************************************************************)
(* scalar_one raises NoResultFound when the active run is gone: a 500.     *)
(***************************************************************************)
Reselect(q) ==
  /\ req[q].pc = "reselect"
  /\ IF ActiveRuns(req[q].case) = {}
     THEN End(q)
     ELSE \E w \in ActiveRuns(req[q].case) : Return(q, w, runs[w].status)
  /\ UNCHANGED <<database, faults>>

(***************************************************************************)
(* POST /compare: the run is inserted as running and executed before the   *)
(* response.  The scope is a case, or (NoCase) all documents by their ids. *)
(***************************************************************************)
Compare(q, c) ==
  /\ req[q].pc = "idle"
  /\ MayInsert(c)
  /\ \E w \in Unused :
       /\ runs' = [runs EXCEPT ![w] = NewRun("running", c)]
       /\ Become(q, [IdleRequest EXCEPT !.pc = "begin", !.run = w, !.case = c])
  /\ UNCHANGED <<caseExists, docs, extracted, tasks, ledger, faults>>

------------------------------------------------------------------------------
(***************************************************************************)
(* session.get(WorkflowRun) at the start of the four transactions that     *)
(* change the row.  In three of them a missing row ends the transaction;   *)
(* _execute raises at once when its run is missing.                        *)
(***************************************************************************)
Writing == {"begin", "notify"} \cup Ending

(***************************************************************************)
(* Where a node that has reported step i leads to: the conditional edge    *)
(* skips create_review_tasks when there is nothing to review, and          *)
(* generate_report then reports that step as completed too.                *)
(***************************************************************************)
\* Mutant: extraction failures are not put up for review.
ItemsWithoutFailures(q) == req[q].found
Items(q) == req[q].failed \cup req[q].found

\* Mutant: a skipped create_review_tasks is not reported.
ProceedUnreported(q) ==
  LET i == req[q].done
  IN  \/ i = LoadDocuments /\ GoTo(q, "extract_fields")
      \/ i = ExtractFields /\ GoTo(q, "run_rules")
      \/ i = RunRules /\ Items(q) # {} /\ GoTo(q, "create_review_tasks")
      \/ i = RunRules /\ Items(q) = {} /\ Notify(q, BuildReport, req[q])
      \/ i = CreateTasks /\ Notify(q, BuildReport, req[q])
      \/ i = BuildReport /\ GoTo(q, "finish")

Proceed(q) ==
  LET i == req[q].done
  IN  \/ i = LoadDocuments /\ GoTo(q, "extract_fields")
      \/ i = ExtractFields /\ GoTo(q, "run_rules")
      \/ i = RunRules /\ Items(q) # {} /\ GoTo(q, "create_review_tasks")
      \/ i = RunRules /\ Items(q) = {} /\ Notify(q, CreateTasks, req[q])
      \/ i = CreateTasks /\ Notify(q, BuildReport, req[q])
      \/ i = BuildReport /\ GoTo(q, "finish")

ReadRow(q) ==
  /\ req[q].pc \in Writing
  /\ req[q].row = NoRow
  /\ \/ /\ Exists(req[q].run)
        /\ Become(q, [req[q] EXCEPT !.row = runs[req[q].run]])
     \/ ~Exists(req[q].run) /\ req[q].pc = "notify" /\ Proceed(q)
     \/ ~Exists(req[q].run) /\ req[q].pc # "notify" /\ End(q)
  /\ UNCHANGED <<database, faults>>

HasRow(q, pc) == req[q].pc = pc /\ req[q].row # NoRow

(***************************************************************************)
(* UPDATE of the row that was read: only what differs from it is written.  *)
(***************************************************************************)
Update(w, row, status, steps) ==
  runs' = [runs EXCEPT ![w].status = IF status = row.status THEN @ ELSE status,
                       ![w].steps  = IF steps  = row.steps  THEN @ ELSE steps]

(***************************************************************************)
(* The row was deleted after it was read: StaleDataError, rolled back.  In *)
(* the graph the error takes the failure path; outside it, it ends the     *)
(* request.                                                                *)
(***************************************************************************)
Lost(q) ==
  /\ req[q].row # NoRow
  /\ ~Exists(req[q].run)
  /\ IF req[q].pc = "notify" THEN GoTo(q, "failure") ELSE End(q)
  /\ UNCHANGED <<database, faults>>

(***************************************************************************)
(* First transaction of _execute.  Making a finished run active again is   *)
(* refused by the unique index when the case has another active run.       *)
(***************************************************************************)
Begin(q) ==
  LET w == req[q].run
      row == req[q].row
  IN  /\ HasRow(q, "begin")
      /\ Exists(w)
      /\ IF row.status # "running" /\ ~MayReactivate(w, runs[w].case)
         THEN End(q) /\ UNCHANGED runs
         ELSE /\ Update(w, row, "running", [row.steps EXCEPT ![LoadDocuments] = "running"])
              /\ GoTo(q, "load_documents")
      /\ UNCHANGED <<caseExists, docs, extracted, tasks, ledger, faults>>

(***************************************************************************)
(* _record_progress: the step is completed and the next one is running.    *)
(***************************************************************************)
WithProgress(steps, i) ==
  [j \in WORKFLOW_STEPS |-> CASE j = i     -> "completed"
                              [] j = i + 1 -> "running"
                              [] OTHER     -> steps[j]]

RecordProgress(q) ==
  LET row == req[q].row
  IN  /\ HasRow(q, "notify")
      /\ Exists(req[q].run)
      /\ Update(req[q].run, row, row.status, WithProgress(row.steps, req[q].done))
      /\ Proceed(q)
      /\ UNCHANGED <<caseExists, docs, extracted, tasks, ledger, faults>>

------------------------------------------------------------------------------
(***************************************************************************)
(* The nodes of the graph.                                                 *)
(***************************************************************************)
InScope(q) == {d \in docs : req[q].case # NoCase => DocumentCase[d] = req[q].case}

Load(q) ==
  /\ req[q].pc = "load_documents"
  /\ Notify(q, LoadDocuments, [req[q] EXCEPT !.loaded = InScope(q), !.todo = InScope(q)])
  /\ UNCHANGED <<database, faults>>

(***************************************************************************)
(* extract_document: a stored valid extraction is reused, otherwise the    *)
(* model is asked; one document after the other.                           *)
(***************************************************************************)
NextDocument(q) ==
  /\ req[q].pc = "extract_fields"
  /\ \/ req[q].todo = {} /\ Notify(q, ExtractFields, req[q])
     \/ \E d \in req[q].todo :
          Become(q, IF d \in extracted
                    THEN [req[q] EXCEPT !.todo = @ \ {d}]
                    ELSE [req[q] EXCEPT !.pc = "llm", !.doc = d])
  /\ UNCHANGED <<database, faults>>

(***************************************************************************)
(* The model answered: the extraction run is stored, valid or not.  The    *)
(* foreign key refuses one of a document that was deleted in the meantime. *)
(***************************************************************************)
Extract(q) ==
  LET d == req[q].doc
      rest == [req[q] EXCEPT !.pc = "extract_fields", !.todo = @ \ {d}]
  IN  /\ req[q].pc = "llm"
      /\ IF d \notin docs
         THEN GoTo(q, "failure") /\ UNCHANGED extracted
         ELSE \/ extracted' = extracted \cup {d} /\ Become(q, rest)
              \/ /\ Become(q, [rest EXCEPT !.failed = @ \cup {d}])
                 /\ UNCHANGED extracted
      /\ UNCHANGED <<caseExists, docs, runs, tasks, ledger, faults>>

(***************************************************************************)
(* The rules find nothing in an empty pack.                                *)
(***************************************************************************)
RunChecks(q) ==
  /\ req[q].pc = "run_rules"
  /\ \E found \in SUBSET Findings :
       /\ found # {} => req[q].loaded # req[q].failed
       /\ Notify(q, RunRules, [req[q] EXCEPT !.found = found])
  /\ UNCHANGED <<database, faults>>

(***************************************************************************)
(* create_many adds a case row that is missing and then the tasks, in one  *)
(* transaction; the foreign key to the run refuses all of it when the run  *)
(* is gone.                                                                *)
(***************************************************************************)
\* Mutant: review_tasks.workflow_run_id is not a foreign key.
CreateForAnyRun(q) ==
  /\ req[q].pc = "create_review_tasks"
  /\ caseExists' = caseExists \cup ({req[q].case} \ {NoCase})
  /\ tasks' = [tasks EXCEPT ![req[q].run] = @ \cup Items(q)]
  /\ Notify(q, CreateTasks, req[q])
  /\ UNCHANGED <<docs, extracted, runs, ledger, faults>>

CreateReviewTasks(q) ==
  LET w == req[q].run
  IN  /\ req[q].pc = "create_review_tasks"
      /\ IF Exists(w)
         THEN /\ caseExists' = caseExists \cup ({req[q].case} \ {NoCase})
              /\ tasks' = [tasks EXCEPT ![w] = @ \cup Items(q)]
              /\ Notify(q, CreateTasks, req[q])
         ELSE GoTo(q, "failure") /\ UNCHANGED <<caseExists, tasks>>
      /\ UNCHANGED <<docs, extracted, runs, ledger, faults>>

------------------------------------------------------------------------------
(***************************************************************************)
(* The terminal transaction: the row and the event that                    *)
(* _append_terminal_event builds from it, committed together.  The event   *)
(* of a workflow that raised has no findings to tell.                      *)
(***************************************************************************)
TerminalEvent(q, status) ==
  IF req[q].pc = "failure"
  THEN [run |-> req[q].run, status |-> status, review |-> FALSE,
        failed |-> {}, found |-> {}]
  ELSE [run |-> req[q].run, status |-> status,
        review |-> req[q].found \cap HighSeverity # {} \/ req[q].failed # {},
        failed |-> req[q].failed, found |-> req[q].found]

\* Mutant: the terminal event is not appended.
CloseUnrecorded(q, status) ==
  /\ Exists(req[q].run)
  /\ Update(req[q].run, req[q].row, status, req[q].row.steps)
  /\ End(q)
  /\ UNCHANGED <<caseExists, docs, extracted, tasks, ledger, faults>>

Close(q, status) ==
  /\ Exists(req[q].run)
  /\ Update(req[q].run, req[q].row, status, req[q].row.steps)
  /\ ledger' = Append(ledger, TerminalEvent(q, status))
  /\ End(q)
  /\ UNCHANGED <<caseExists, docs, extracted, tasks, faults>>

(***************************************************************************)
(* A pack without documents is an error, not a pass.                       *)
(***************************************************************************)
Finish(q) ==
  HasRow(q, "finish") /\ Close(q, IF req[q].loaded = {} THEN "failed" ELSE "completed")

RecordFailure(q) == HasRow(q, "failure") /\ Close(q, "failed")

------------------------------------------------------------------------------
(***************************************************************************)
(* DELETE /cases/{id} cascades to documents, runs and tasks; the ledger    *)
(* keeps its events.  DELETE /documents/{id} cascades to extractions.      *)
(***************************************************************************)
DeleteCase(c) ==
  LET gone == {d \in docs : DocumentCase[d] = c}
  IN  /\ c \in caseExists
      /\ caseExists' = caseExists \ {c}
      /\ docs' = docs \ gone
      /\ extracted' = extracted \ gone
      /\ runs' = [w \in Runs |-> IF runs[w].case = c
                                 THEN [AbsentRun EXCEPT !.status = "deleted"]
                                 ELSE runs[w]]
      /\ tasks' = [w \in Runs |-> IF runs[w].case = c THEN {} ELSE tasks[w]]
      /\ UNCHANGED <<ledger, req, faults>>

DeleteDocument(d) ==
  /\ d \in docs
  /\ docs' = docs \ {d}
  /\ extracted' = extracted \ {d}
  /\ UNCHANGED <<caseExists, runs, tasks, ledger, req, faults>>

(***************************************************************************)
(* A database call or a call of the model fails.  Within the graph the     *)
(* exception takes the failure path; _execute's own transactions are       *)
(* outside the try, so an exception there ends the request.                *)
(***************************************************************************)
Fault(q) ==
  /\ faults < MaxFaults
  /\ req[q].pc # "idle"
  /\ faults' = faults + 1
  /\ IF req[q].pc \in Working THEN GoTo(q, "failure") ELSE End(q)
  /\ UNCHANGED database

(***************************************************************************)
(* The server stops and starts again: requests and background tasks are    *)
(* gone, and nothing looks for the runs they left.                         *)
(***************************************************************************)
Crash ==
  /\ faults < MaxFaults
  /\ faults' = faults + 1
  /\ req' = [q \in Requests |-> IdleRequest]
  /\ UNCHANGED database

(***************************************************************************)
(* No request in progress, or none that the bound on runs lets go on:      *)
(* nothing has to happen.                                                  *)
(***************************************************************************)
Rest ==
  /\ \A q \in Requests : req[q].pc = "idle" \/ (req[q].pc = "insert" /\ Unused = {})
  /\ UNCHANGED vars

------------------------------------------------------------------------------
Step(q) ==
  \/ SelectActive(q) \/ InsertRun(q) \/ Reselect(q)
  \/ ReadRow(q) \/ Lost(q) \/ Begin(q) \/ RecordProgress(q)
  \/ Load(q) \/ NextDocument(q) \/ Extract(q) \/ RunChecks(q) \/ CreateReviewTasks(q)
  \/ Finish(q) \/ RecordFailure(q)

Next ==
  \/ \E q \in Requests :
       \/ \E c \in Cases : AnalyzeCase(q, c)
       \/ \E c \in Cases \cup {NoCase} : Compare(q, c)
       \/ Step(q)
       \/ Fault(q)
  \/ \E c \in Cases : DeleteCase(c)
  \/ \E d \in Documents : DeleteDocument(d)
  \/ Crash
  \/ Rest

Spec == Init /\ [][Next]_vars

(***************************************************************************)
(* A request in progress goes on: the event loop runs every coroutine, and *)
(* the calls of the database and of the model end or time out.             *)
(***************************************************************************)
FairSpec == Spec /\ \A q \in Requests : WF_vars(Step(q))

------------------------------------------------------------------------------
(***************************************************************************)
(* NothingPassesSilently: an analysis recorded as completed that met an    *)
(* extraction failure or a high finding asked for a review, and everything *)
(* it has to have reviewed is in the queue as long as its run exists,      *)
(* whoever else worked on the case or the run at the same time             *)
(* ("silence must never look like a pass").                                *)
(***************************************************************************)
NothingPassesSilently ==
  \A i \in DOMAIN ledger :
    LET e == ledger[i] IN
    e.status = "completed" =>
      /\ e.failed # {} \/ e.found \cap HighSeverity # {} => e.review
      /\ Exists(e.run) => e.failed \cup e.found \subseteq tasks[e.run]

(***************************************************************************)
(* TerminalIsRecorded: whatever requests share or overtake each other on a *)
(* run, a row that says completed or failed has an event that says so.     *)
(***************************************************************************)
TerminalIsRecorded ==
  \A w \in Runs : runs[w].status \in Terminal =>
    \E i \in DOMAIN ledger : ledger[i].run = w /\ ledger[i].status = runs[w].status

(***************************************************************************)
(* ReportedOnce: the ledger holds an action on a run once ("no action is   *)
(* reported twice").                                                       *)
(***************************************************************************)
ReportedOnce ==
  \A i, j \in DOMAIN ledger :
    ledger[i].run = ledger[j].run /\ ledger[i].status = ledger[j].status => i = j

(***************************************************************************)
(* CompletedShowsAllSteps: a completed run that was executed once, and     *)
(* without a fault, shows every step as completed, whatever requests that  *)
(* only looked at it and deletions came in between.  Two executions may    *)
(* overwrite each other's steps.                                           *)
(***************************************************************************)
ExecutedOnce(w) == Cardinality({i \in DOMAIN ledger : ledger[i].run = w}) = 1

CompletedShowsAllSteps ==
  \A w \in Runs :
    /\ runs[w].status = "completed" /\ ExecutedOnce(w) /\ faults = 0
    /\ \A q \in Requests : req[q].run # w
    => \A i \in WORKFLOW_STEPS : runs[w].steps[i] = "completed"

(***************************************************************************)
(* DeletedStaysDeleted: an analysis in progress never brings back a case   *)
(* that was deleted, although create_many adds missing cases.              *)
(***************************************************************************)
DeletedStaysDeleted == [][caseExists' \subseteq caseExists]_caseExists

(***************************************************************************)
(* AnalysesFinish: without faults, every run that was created ends, or is  *)
(* deleted with its case.                                                  *)
(***************************************************************************)
AnalysesFinish ==
  \A w \in Runs : runs[w].status \in Active ~> runs[w].status \notin Active \/ faults > 0
===============================================================================
