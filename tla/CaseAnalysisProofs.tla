--------------------------- MODULE CaseAnalysisProofs ---------------------------
(***************************************************************************)
(* For any number of requests, runs, documents, findings and failures: an  *)
(* analysis that is recorded as completed has what it met in the review    *)
(* queue, every outcome a run shows is recorded, no analysis brings a      *)
(* deleted case back, and a run that was executed once shows every step.   *)
(*                                                                         *)
(* None of them is inductive.  A request remembers the run it works on, its*)
(* case and what it found; between two of its transactions the run may be  *)
(* deleted, finished by another request, or given more tasks.  What makes  *)
(* the memory good enough is that a run is never created twice, keeps its  *)
(* case while it exists, and does not lose tasks.  That is Evolves, which  *)
(* every action satisfies; Carried is what a request may therefore rely on.*)
(***************************************************************************)
EXTENDS CaseAnalysis, FiniteSetTheorems, TLAPS

Row == [status : {"absent", "deleted"} \cup Active \cup Terminal,
        case : Cases \cup {NoCase}, steps : StepTrace]

Request == [pc : Steps, run : Runs \cup {NoRun}, case : Cases \cup {NoCase},
            row : Row \cup {NoRow}, doc : Documents \cup {NoDocument},
            todo : SUBSET Documents, loaded : SUBSET Documents,
            failed : SUBSET Documents, found : SUBSET Findings, done : 0..5]

TerminalEvents == [run : Runs, status : Terminal, review : BOOLEAN,
                   failed : SUBSET Documents, found : SUBSET Findings]

\* A request to the model is about a document, and a notification about a step.
Fit(r) ==
  /\ r.pc = "llm" => r.doc \in Documents
  /\ r.pc = "notify" => r.done \in WORKFLOW_STEPS

Types ==
  /\ docs \subseteq Documents
  /\ runs \in [Runs -> Row]
  /\ tasks \in [Runs -> SUBSET (Documents \cup Findings)]
  /\ ledger \in Seq(TerminalEvents)
  /\ req \in [Requests -> Request]
  /\ \A q \in Requests : Fit(req[q])

Gone == {"absent", "deleted"}

\* The request has been given a run.
Holds(r) == r.pc \in {"begin"} \cup Working \cup Ending

\* Its findings have been put up for review.
Reviewed(r) == r.pc = "finish" \/ (r.pc = "notify" /\ r.done \in {CreateTasks, BuildReport})

Carried(r, R, T) ==
  Holds(r) =>
    /\ r.run \in Runs /\ R[r.run].status # "absent"
    /\ R[r.run].status \notin Gone =>
         /\ r.case = R[r.run].case
         /\ Reviewed(r) => r.failed \cup r.found \subseteq T[r.run]

\* A run that is recorded exists or did, and a completed one passed nothing silently.
Sound(e, R, T) ==
  /\ R[e.run].status # "absent"
  /\ e.status = "completed" =>
       /\ e.failed # {} \/ e.found \cap HighSeverity # {} => e.review
       /\ R[e.run].status \notin Gone => e.failed \cup e.found \subseteq T[e.run]

RunsHaveCases == \A w \in Runs : Exists(w) => runs[w].case \in caseExists \cup {NoCase}

IInv ==
  /\ Types
  /\ \A q \in Requests : Carried(req[q], runs, tasks)
  /\ \A i \in DOMAIN ledger : Sound(ledger[i], runs, tasks)
  /\ RunsHaveCases
  /\ TerminalIsRecorded

\* What an action does to a run: it is not created twice, and while it exists
\* it keeps its case and its tasks.
Evolves ==
  \A w \in Runs : runs[w].status # "absent" =>
    /\ runs'[w].status # "absent"
    /\ runs'[w].status \notin Gone =>
         /\ runs[w].status \notin Gone
         /\ runs'[w].case = runs[w].case
         /\ tasks[w] \subseteq tasks'[w]

\* What every action of the workflow does, then: the requests it changes may rely
\* on what they remember, and the events it appends are sound.
Good ==
  /\ docs' \subseteq Documents
  /\ runs' \in [Runs -> Row]
  /\ tasks' \in [Runs -> SUBSET (Documents \cup Findings)]
  /\ req' \in [Requests -> Request]
  /\ Evolves
  /\ \A q \in Requests :
       \/ req'[q] = req[q]
       \/ Fit(req'[q]) /\ Carried(req'[q], runs', tasks')
  /\ \/ ledger' = ledger
     \/ \E e \in TerminalEvents : ledger' = Append(ledger, e) /\ Sound(e, runs', tasks')
  /\ RunsHaveCases'
  /\ \A w \in Runs : runs'[w].status \in Terminal =>
       \/ runs'[w].status = runs[w].status
       \/ \E e \in TerminalEvents : /\ ledger' = Append(ledger, e)
                                    /\ e.run = w /\ e.status = runs'[w].status
  /\ caseExists' \subseteq caseExists

LEMMA CarriedOn ==
  ASSUME Evolves, runs \in [Runs -> Row], NEW r, Carried(r, runs, tasks)
  PROVE  Carried(r, runs', tasks')
BY DEF Evolves, Carried

LEMMA SoundStays ==
  ASSUME Evolves, NEW e \in TerminalEvents, Sound(e, runs, tasks)
  PROVE  Sound(e, runs', tasks')
BY DEF Evolves, Sound, TerminalEvents

LEMMA GoodSteps == ASSUME IInv, Good PROVE IInv'
<1>1. Types'
  <2>1. ledger' \in Seq(TerminalEvents)
    <3>1. ledger \in Seq(TerminalEvents)
      BY DEF IInv, Types
    <3>2. ledger' = ledger \/ \E e \in TerminalEvents : ledger' = Append(ledger, e)
      BY DEF Good
    <3>3. ASSUME NEW s, s \in Seq(TerminalEvents), NEW e \in TerminalEvents
          PROVE  Append(s, e) \in Seq(TerminalEvents)
      BY <3>3
    <3> QED
      BY Zenon, <3>1, <3>2, <3>3
  <2>2. \A q \in Requests : Fit(req'[q])
    BY DEF IInv, Types, Good
  <2>3. /\ docs' \subseteq Documents
        /\ runs' \in [Runs -> Row]
        /\ tasks' \in [Runs -> SUBSET (Documents \cup Findings)]
        /\ req' \in [Requests -> Request]
    BY DEF Good
  <2> QED
    BY <2>1, <2>2, <2>3 DEF Types
<1>2. \A q \in Requests : Carried(req'[q], runs', tasks')
  <2> SUFFICES ASSUME NEW q \in Requests PROVE Carried(req'[q], runs', tasks')
    OBVIOUS
  <2>1. CASE req'[q] = req[q]
    <3>1. Evolves /\ runs \in [Runs -> Row] /\ Carried(req[q], runs, tasks)
      BY DEF IInv, Types, Good
    <3> QED
      BY <2>1, <3>1, CarriedOn
  <2>2. CASE req'[q] # req[q]
    BY <2>2 DEF Good
  <2> QED
    BY <2>1, <2>2
<1>3. \A i \in DOMAIN ledger' : Sound(ledger'[i], runs', tasks')
  <2> SUFFICES ASSUME NEW i \in DOMAIN ledger' PROVE Sound(ledger'[i], runs', tasks')
    OBVIOUS
  <2>1. \A j \in DOMAIN ledger : Sound(ledger[j], runs', tasks')
    <3> SUFFICES ASSUME NEW j \in DOMAIN ledger PROVE Sound(ledger[j], runs', tasks')
      OBVIOUS
    <3>1. Evolves /\ ledger[j] \in TerminalEvents /\ Sound(ledger[j], runs, tasks)
      BY DEF IInv, Types, Good
    <3> QED
      BY <3>1, SoundStays
  <2>2. CASE ledger' = ledger
    BY <2>1, <2>2
  <2>3. CASE \E e \in TerminalEvents : ledger' = Append(ledger, e) /\ Sound(e, runs', tasks')
    <3>1. PICK e \in TerminalEvents : ledger' = Append(ledger, e) /\ Sound(e, runs', tasks')
      BY <2>3
    <3>2. (i \in DOMAIN ledger /\ ledger'[i] = ledger[i]) \/ ledger'[i] = e
      BY <3>1 DEF IInv, Types
    <3> QED
      BY <2>1, <3>1, <3>2
  <2> QED
    BY <2>2, <2>3 DEF Good
<1>4. TerminalIsRecorded'
  <2> SUFFICES ASSUME NEW w \in Runs, runs'[w].status \in Terminal
               PROVE  \E i \in DOMAIN ledger' :
                        ledger'[i].run = w /\ ledger'[i].status = runs'[w].status
    BY DEF TerminalIsRecorded
  <2>1. CASE runs'[w].status = runs[w].status
    <3>1. PICK i \in DOMAIN ledger : ledger[i].run = w /\ ledger[i].status = runs[w].status
      BY <2>1 DEF IInv, TerminalIsRecorded
    <3>2. i \in DOMAIN ledger' /\ ledger'[i] = ledger[i]
      BY DEF IInv, Types, Good
    <3> QED
      BY <2>1, <3>1, <3>2
  <2>2. CASE \E e \in TerminalEvents : /\ ledger' = Append(ledger, e)
                                       /\ e.run = w /\ e.status = runs'[w].status
    <3>1. PICK e \in TerminalEvents : /\ ledger' = Append(ledger, e)
                                     /\ e.run = w /\ e.status = runs'[w].status
      BY <2>2
    <3>2. Len(ledger) + 1 \in DOMAIN ledger' /\ ledger'[Len(ledger) + 1] = e
      BY <3>1 DEF IInv, Types
    <3> QED
      BY <3>1, <3>2
  <2> QED
    BY <2>1, <2>2 DEF Good
<1> QED
  BY <1>1, <1>2, <1>3, <1>4 DEF IInv, Good
------------------------------------------------------------------------------
(***************************************************************************)
(* What a request is told to do next.                                      *)
(***************************************************************************)
Instructed(q) == \E r \in Request : Become(q, r) /\ Fit(r) /\ Carried(r, runs, tasks)

RequestsObey ==
  /\ req' \in [Requests -> Request]
  /\ \A q \in Requests : \/ req'[q] = req[q]
                         \/ Fit(req'[q]) /\ Carried(req'[q], runs', tasks')

LEMMA OneObeys ==
  ASSUME IInv, NEW q \in Requests, NEW r \in Request, Become(q, r), Fit(r),
         Carried(r, runs', tasks')
  PROVE  RequestsObey
BY DEF IInv, Types, Become, RequestsObey

LEMMA InstructedObey ==
  ASSUME IInv, Evolves, NEW q \in Requests, Instructed(q)
  PROVE  RequestsObey
<1>1. PICK r \in Request : Become(q, r) /\ Fit(r) /\ Carried(r, runs, tasks)
  BY DEF Instructed
<1>2. Carried(r, runs', tasks')
  BY <1>1, CarriedOn DEF IInv, Types
<1> QED
  BY <1>1, <1>2, OneObeys

\* Steps that change one request, and nothing that requests rely on.
LEMMA Quietly ==
  ASSUME IInv, NEW q \in Requests, Instructed(q),
         UNCHANGED <<caseExists, docs, runs, tasks, ledger>>
  PROVE  Good
<1>1. Evolves
  BY DEF Evolves
<1>2. RequestsObey
  BY <1>1, InstructedObey
<1>3. RunsHaveCases'
  BY DEF IInv, RunsHaveCases, Exists
<1> QED
  BY <1>1, <1>2, <1>3 DEF Good, IInv, Types, RequestsObey

LEMMA Idle == IdleRequest \in Request /\ Fit(IdleRequest)
              /\ \A R, T : Carried(IdleRequest, R, T)
BY DEF IdleRequest, Request, Steps, Fit, Carried, Holds, Working, Ending

LEMMA Ended ==
  ASSUME IInv, NEW q \in Requests, End(q)
  PROVE  Instructed(q)
BY Idle DEF End, Instructed

LEMMA Told ==
  ASSUME IInv, NEW q \in Requests, Holds(req[q]),
         NEW pc \in {"load_documents", "extract_fields", "run_rules",
                     "create_review_tasks", "finish", "failure"},
         pc = "finish" => Reviewed(req[q]), GoTo(q, pc)
  PROVE  Instructed(q)
<1> DEFINE r == [req[q] EXCEPT !.pc = pc, !.row = NoRow]
<1>1. req[q] \in Request /\ Carried(req[q], runs, tasks)
  BY DEF IInv, Types
<1>3. /\ r.pc = pc /\ r.run = req[q].run /\ r.case = req[q].case
      /\ r.failed = req[q].failed /\ r.found = req[q].found
  BY <1>1 DEF Request
<1>2. r \in Request /\ Fit(r)
  <2>1. pc \in Steps BY DEF Steps, Working, Ending
  <2>2. r \in Request BY <1>1, <2>1 DEF Request
  <2> QED BY <2>2, <1>3 DEF Fit
<1>4. Reviewed(r) => Reviewed(req[q])
  BY <1>3 DEF Reviewed
<1>5. Carried(r, runs, tasks)
  BY <1>1, <1>3, <1>4 DEF Carried
<1> QED
  BY <1>2, <1>5 DEF GoTo, Instructed

LEMMA Reports ==
  ASSUME IInv, NEW q \in Requests, Holds(req[q]), NEW n \in WORKFLOW_STEPS,
         NEW old \in Request, old.run = req[q].run, old.case = req[q].case,
         n \in {CreateTasks, BuildReport} =>
           old = req[q] /\ (Reviewed(req[q]) \/ Items(q) = {}),
         Notify(q, n, old)
  PROVE  Instructed(q)
<1> DEFINE r == [old EXCEPT !.pc = "notify", !.done = n, !.row = NoRow]
<1>1. Carried(req[q], runs, tasks)
  BY DEF IInv
<1>2. n \in 0..5 /\ "notify" \in Steps
  BY DEF WORKFLOW_STEPS, Steps, Working
<1>3. /\ r.pc = "notify" /\ r.done = n /\ r.run = req[q].run /\ r.case = req[q].case
      /\ r.failed = old.failed /\ r.found = old.found
  BY DEF Request
<1>4. r \in Request
  BY <1>2 DEF Request
<1>5. Fit(r)
  BY <1>3 DEF Fit
<1>6. Reviewed(r) => /\ r.failed = req[q].failed /\ r.found = req[q].found
                     /\ Reviewed(req[q]) \/ req[q].failed \cup req[q].found = {}
  BY <1>3 DEF Reviewed, Items
<1>7. /\ req[q].run \in Runs /\ runs[req[q].run].status # "absent"
      /\ runs[req[q].run].status \notin Gone =>
           /\ req[q].case = runs[req[q].run].case
           /\ Reviewed(req[q]) => req[q].failed \cup req[q].found \subseteq tasks[req[q].run]
  BY <1>1 DEF Carried
<1>8. runs[req[q].run].status \notin Gone /\ Reviewed(r) =>
        r.failed \cup r.found \subseteq tasks[req[q].run]
  BY <1>6, <1>7
<1>9. Carried(r, runs, tasks)
  BY <1>3, <1>7, <1>8 DEF Carried
<1> QED
  BY <1>4, <1>5, <1>9 DEF Instructed, Notify

LEMMA ProceedsWell ==
  ASSUME IInv, NEW q \in Requests, req[q].pc = "notify", Proceed(q)
  PROVE  Instructed(q)
<1>1. Holds(req[q]) /\ req[q] \in Request
  BY DEF Holds, Working, IInv, Types
<1>2. CASE GoTo(q, "extract_fields") \/ GoTo(q, "run_rules") \/ GoTo(q, "create_review_tasks")
  BY <1>1, <1>2, Told
<1>3. CASE req[q].done = RunRules /\ Items(q) = {} /\ Notify(q, CreateTasks, req[q])
  BY <1>1, <1>3, Reports DEF CreateTasks, WORKFLOW_STEPS
<1>4. CASE req[q].done = CreateTasks /\ Notify(q, BuildReport, req[q])
  <2>1. Reviewed(req[q]) /\ BuildReport \in WORKFLOW_STEPS
    BY <1>4 DEF Reviewed, BuildReport, WORKFLOW_STEPS
  <2> QED
    BY <1>1, <1>4, <2>1, Reports
<1>5. CASE req[q].done = BuildReport /\ GoTo(q, "finish")
  <2>1. Reviewed(req[q])
    BY <1>5 DEF Reviewed
  <2> QED
    BY <1>1, <1>5, <2>1, Told
<1> QED
  BY <1>2, <1>3, <1>4, <1>5 DEF Proceed

(***************************************************************************)
(* The routes.                                                             *)
(***************************************************************************)
\* A run that a waiting request finds, or inserts, for its case.
LEMMA ReturnsWell ==
  ASSUME IInv, NEW q \in Requests, NEW w \in Runs, NEW status, Return(q, w, status),
         NEW R, R[w].status # "absent", R[w].case = req[q].case, req[q].pc \in Waiting
  PROVE  \E r \in Request : Become(q, r) /\ Fit(r) /\ Carried(r, R, tasks)
<1>1. CASE status = "queued"
  <2> DEFINE r == [req[q] EXCEPT !.pc = "begin", !.run = w]
  <2>1. req[q] \in Request
    BY DEF IInv, Types
  <2>2. /\ r \in Request /\ r.pc = "begin" /\ r.run = w /\ r.case = req[q].case
    BY <2>1 DEF Request, Steps
  <2>3. Fit(r) /\ Carried(r, R, tasks)
    BY <2>2 DEF Fit, Carried, Reviewed
  <2> QED
    BY <1>1, <2>2, <2>3 DEF Return
<1>2. CASE status # "queued"
  BY <1>2, Idle DEF Return, End
<1> QED
  BY <1>1, <1>2

LEMMA WaitsWell ==
  ASSUME IInv, NEW q \in Requests, req[q].pc \in Waiting, NEW pc \in Waiting, GoTo(q, pc)
  PROVE  Instructed(q)
<1> DEFINE r == [req[q] EXCEPT !.pc = pc, !.row = NoRow]
<1>1. req[q] \in Request
  BY DEF IInv, Types
<1>2. r \in Request /\ Fit(r) /\ Carried(r, runs, tasks)
  BY <1>1 DEF Request, Fit, Carried, Holds, Steps, Waiting, Working, Ending
<1> QED
  BY <1>2 DEF GoTo, Instructed

LEMMA AnalyzeGood ==
  ASSUME IInv, NEW q \in Requests, NEW c \in Cases, AnalyzeCase(q, c)
  PROVE  Good
<1> DEFINE r == [IdleRequest EXCEPT !.pc = "select", !.case = c]
<1>1. Become(q, r)
  BY DEF AnalyzeCase
<1>2. r \in Request /\ r.pc = "select"
  BY Idle DEF Request, Steps, Waiting, IdleRequest
<1>3. Fit(r) /\ Carried(r, runs, tasks)
  BY <1>2 DEF Fit, Carried, Holds, Working, Ending
<1>4. Instructed(q)
  BY <1>1, <1>2, <1>3 DEF Instructed
<1> QED
  BY <1>4, Quietly DEF AnalyzeCase, database

LEMMA SelectGood ==
  ASSUME IInv, NEW q \in Requests, SelectActive(q) \/ Reselect(q)
  PROVE  Good
<1> SUFFICES Instructed(q)
  BY Quietly DEF SelectActive, Reselect, database
<1>1. req[q].pc \in Waiting /\ "insert" \in Waiting
  BY DEF SelectActive, Reselect, Waiting
<1>2. CASE GoTo(q, "insert")
  BY <1>1, <1>2, WaitsWell
<1>3. CASE End(q)
  BY <1>3, Ended
<1>4. CASE \E w \in ActiveRuns(req[q].case) : Return(q, w, runs[w].status)
  <2>1. PICK w \in ActiveRuns(req[q].case) : Return(q, w, runs[w].status)
    BY <1>4
  <2>2. w \in Runs /\ runs[w].status # "absent" /\ runs[w].case = req[q].case
    BY <2>1 DEF ActiveRuns, Active
  <2> QED
    BY <1>1, <2>1, <2>2, ReturnsWell DEF Instructed
<1> QED
  BY <1>2, <1>3, <1>4 DEF SelectActive, Reselect

\* The row that create_analysis or compare inserts.
LEMMA Inserted ==
  ASSUME IInv, NEW c \in Cases \cup {NoCase}, MayInsert(c), NEW status \in Active,
         NEW w \in Unused, runs' = [runs EXCEPT ![w] = NewRun(status, c)],
         UNCHANGED <<caseExists, tasks>>
  PROVE  /\ runs' \in [Runs -> Row] /\ Evolves /\ RunsHaveCases'
         /\ w \in Runs /\ runs'[w].status = status /\ runs'[w].case = c
         /\ \A v \in Runs : runs'[v].status \in Terminal => runs'[v].status = runs[v].status
<1>1. w \in Runs /\ runs[w].status = "absent"
  BY DEF Unused
<1>2. /\ NewRun(status, c) \in Row
      /\ NewRun(status, c).status = status /\ NewRun(status, c).case = c
  BY DEF NewRun, AbsentRun, Row, StepTrace, initial_workflow_steps
<1>3. runs' \in [Runs -> Row] /\ runs'[w] = NewRun(status, c)
      /\ \A v \in Runs \ {w} : runs'[v] = runs[v]
  BY <1>1, <1>2 DEF IInv, Types
<1>4. Evolves
  BY <1>1, <1>3 DEF Evolves
<1>5. c \in caseExists \cup {NoCase}
  BY DEF MayInsert
<1>6. RunsHaveCases'
  BY <1>2, <1>3, <1>5 DEF IInv, RunsHaveCases, Exists
<1>7. status \notin Terminal
  BY DEF Active, Terminal
<1> QED
  BY <1>1, <1>2, <1>3, <1>4, <1>6, <1>7

LEMMA InsertGood ==
  ASSUME IInv, NEW q \in Requests, InsertRun(q)
  PROVE  Good
<1> DEFINE c == req[q].case
<1>1. req[q].pc \in Waiting /\ "reselect" \in Waiting /\ c \in Cases \cup {NoCase}
  BY DEF InsertRun, Waiting, IInv, Types, Request
<1>2. CASE MayInsert(c)
  <2>1. PICK w \in Unused : /\ runs' = [runs EXCEPT ![w] = NewRun("queued", c)]
                            /\ Return(q, w, "queued")
    BY <1>2 DEF InsertRun
  <2>2. UNCHANGED <<caseExists, docs, tasks, ledger>> /\ "queued" \in Active
    BY DEF InsertRun, Active
  <2>3. /\ runs' \in [Runs -> Row] /\ Evolves /\ RunsHaveCases'
        /\ w \in Runs /\ runs'[w].status = "queued" /\ runs'[w].case = c
        /\ \A v \in Runs : runs'[v].status \in Terminal => runs'[v].status = runs[v].status
    BY <1>1, <1>2, <2>1, <2>2, Inserted
  <2>4. \E r \in Request : Become(q, r) /\ Fit(r) /\ Carried(r, runs', tasks)
    BY <1>1, <2>1, <2>3, ReturnsWell
  <2>5. RequestsObey
    BY <2>2, <2>4, OneObeys
  <2> QED
    BY <2>2, <2>3, <2>5 DEF Good, IInv, Types, RequestsObey
<1>3. CASE ~MayInsert(c)
  <2>1. GoTo(q, "reselect") /\ UNCHANGED <<caseExists, docs, runs, tasks, ledger>>
    BY <1>3 DEF InsertRun
  <2> QED
    BY <1>1, <2>1, WaitsWell, Quietly
<1> QED
  BY <1>2, <1>3

LEMMA CompareGood ==
  ASSUME IInv, NEW q \in Requests, NEW c \in Cases \cup {NoCase}, Compare(q, c)
  PROVE  Good
<1>1. PICK w \in Unused :
        /\ runs' = [runs EXCEPT ![w] = NewRun("running", c)]
        /\ Become(q, [IdleRequest EXCEPT !.pc = "begin", !.run = w, !.case = c])
  BY DEF Compare
<1> DEFINE r == [IdleRequest EXCEPT !.pc = "begin", !.run = w, !.case = c]
<1>2. UNCHANGED <<caseExists, docs, tasks, ledger>> /\ "running" \in Active /\ MayInsert(c)
  BY DEF Compare, Active
<1>3. /\ runs' \in [Runs -> Row] /\ Evolves /\ RunsHaveCases'
      /\ w \in Runs /\ runs'[w].status = "running" /\ runs'[w].case = c
      /\ \A v \in Runs : runs'[v].status \in Terminal => runs'[v].status = runs[v].status
  BY <1>1, <1>2, Inserted
<1>4. r \in Request /\ r.pc = "begin" /\ r.run = w /\ r.case = c
  BY <1>3, Idle DEF Request, Steps, IdleRequest
<1>5. Fit(r) /\ Carried(r, runs', tasks')
  BY <1>3, <1>4 DEF Fit, Carried, Reviewed
<1>6. RequestsObey
  BY <1>1, <1>4, <1>5, OneObeys
<1> QED
  BY <1>2, <1>3, <1>6 DEF Good, IInv, Types, RequestsObey

------------------------------------------------------------------------------
(***************************************************************************)
(* The transactions that read the row of the run and then write it.        *)
(***************************************************************************)
LEMMA ReadGood ==
  ASSUME IInv, NEW q \in Requests, ReadRow(q)
  PROVE  Good
<1> SUFFICES Instructed(q)
  BY Quietly DEF ReadRow, database
<1>1. CASE Exists(req[q].run) /\ Become(q, [req[q] EXCEPT !.row = runs[req[q].run]])
  <2> DEFINE r == [req[q] EXCEPT !.row = runs[req[q].run]]
  <2>1. req[q] \in Request /\ Fit(req[q]) /\ Carried(req[q], runs, tasks)
    BY DEF IInv, Types
  <2>2. Holds(req[q])
    BY DEF ReadRow, Writing, Holds, Working
  <2>3. runs[req[q].run] \in Row
    BY <2>1, <2>2 DEF Carried, IInv, Types
  <2>4. r \in Request
    BY <2>1, <2>3 DEF Request
  <2>5. /\ r.pc = req[q].pc /\ r.run = req[q].run /\ r.case = req[q].case
        /\ r.failed = req[q].failed /\ r.found = req[q].found
        /\ r.doc = req[q].doc /\ r.done = req[q].done
    BY <2>1 DEF Request
  <2>6. Fit(r) /\ Carried(r, runs, tasks)
    BY <2>1, <2>2, <2>5 DEF Fit, Carried, Reviewed
  <2> QED
    BY <1>1, <2>4, <2>6 DEF Instructed
<1>2. CASE req[q].pc = "notify" /\ Proceed(q)
  BY <1>2, ProceedsWell
<1>3. CASE End(q)
  BY <1>3, Ended
<1> QED
  BY <1>1, <1>2, <1>3 DEF ReadRow

LEMMA LostGood ==
  ASSUME IInv, NEW q \in Requests, Lost(q)
  PROVE  Good
<1> SUFFICES Instructed(q)
  BY Quietly DEF Lost, database
<1>1. CASE req[q].pc = "notify" /\ GoTo(q, "failure")
  <2>1. Holds(req[q])
    BY <1>1 DEF Holds, Working
  <2> QED
    BY <1>1, <2>1, Told
<1>2. CASE End(q)
  BY <1>2, Ended
<1> QED
  BY <1>1, <1>2 DEF Lost

LEMMA Updated ==
  ASSUME IInv, NEW w \in Runs, Exists(w), NEW row \in Row, NEW steps \in StepTrace,
         NEW status, status \in Active \cup Terminal \/ status = row.status,
         Update(w, row, status, steps), UNCHANGED <<caseExists, tasks>>
  PROVE  /\ runs' \in [Runs -> Row] /\ Evolves /\ RunsHaveCases'
         /\ \A v \in Runs : \/ runs'[v].status = runs[v].status
                            \/ v = w /\ runs'[v].status = status
<1>1. runs \in [Runs -> Row] /\ runs[w] \in Row
  BY DEF IInv, Types
<1> DEFINE new == [runs[w] EXCEPT !.status = IF status = row.status THEN @ ELSE status,
                                  !.steps  = IF steps  = row.steps  THEN @ ELSE steps]
<1>2. runs' = [runs EXCEPT ![w] = new]
  BY <1>1 DEF Update, Row
<1>3. new \in Row
  BY <1>1 DEF Row
<1>4. /\ new.status = runs[w].status \/ (new.status = status /\ status \in Active \cup Terminal)
      /\ new.case = runs[w].case
  BY <1>1 DEF Row
<1> HIDE DEF new
<1>5. runs' \in [Runs -> Row] /\ runs'[w] = new /\ \A v \in Runs \ {w} : runs'[v] = runs[v]
  BY <1>1, <1>2, <1>3
<1>6. new.status \notin Gone
  BY <1>4 DEF Exists, Gone, Active, Terminal
<1>7. Evolves
  BY <1>4, <1>5, <1>6 DEF Evolves, Exists, Gone
<1>8. RunsHaveCases'
  BY <1>4, <1>5 DEF IInv, RunsHaveCases, Exists
<1> QED
  BY <1>4, <1>5, <1>7, <1>8

\* The row a request has read, and the run it is a row of.
LEMMA Read ==
  ASSUME IInv, NEW q \in Requests, NEW pc \in Writing, HasRow(q, pc)
  PROVE  /\ req[q].row \in Row /\ req[q].row.steps \in StepTrace
         /\ req[q] \in Request /\ Holds(req[q]) /\ req[q].run \in Runs
<1>1. req[q] \in Request /\ Carried(req[q], runs, tasks)
  BY DEF IInv, Types
<1>2. req[q].row \in Row
  BY <1>1 DEF HasRow, Request
<1>3. Holds(req[q])
  BY DEF HasRow, Writing, Holds, Working
<1> QED
  BY <1>1, <1>2, <1>3 DEF Row, Carried

LEMMA BeginGood ==
  ASSUME IInv, NEW q \in Requests, Begin(q)
  PROVE  Good
<1> DEFINE w == req[q].run
           row == req[q].row
           steps == [row.steps EXCEPT ![LoadDocuments] = "running"]
<1>1. HasRow(q, "begin") /\ "begin" \in Writing /\ Exists(w)
      /\ UNCHANGED <<caseExists, docs, tasks, ledger>>
  BY DEF Begin, Writing
<1>2. row \in Row /\ row.steps \in StepTrace /\ Holds(req[q]) /\ w \in Runs
  BY <1>1, Read
<1>3. CASE End(q) /\ UNCHANGED runs
  BY <1>1, <1>3, Ended, Quietly
<1>4. CASE Update(w, row, "running", steps) /\ GoTo(q, "load_documents")
  <2>1. steps \in StepTrace /\ "running" \in Active /\ "running" \notin Terminal
    BY <1>2 DEF StepTrace, Active, Terminal
  <2>2. /\ runs' \in [Runs -> Row] /\ Evolves /\ RunsHaveCases'
        /\ \A v \in Runs : \/ runs'[v].status = runs[v].status
                           \/ v = w /\ runs'[v].status = "running"
    BY <1>1, <1>2, <1>4, <2>1, Updated
  <2>3. RequestsObey
    BY <1>2, <1>4, <2>2, Told, InstructedObey
  <2> QED
    BY <1>1, <2>1, <2>2, <2>3 DEF Good, IInv, Types, RequestsObey
<1> QED
  BY <1>3, <1>4 DEF Begin

LEMMA ProgressGood ==
  ASSUME IInv, NEW q \in Requests, RecordProgress(q)
  PROVE  Good
<1> DEFINE w == req[q].run
           row == req[q].row
           steps == WithProgress(row.steps, req[q].done)
<1>1. HasRow(q, "notify") /\ "notify" \in Writing /\ Exists(w)
      /\ UNCHANGED <<caseExists, docs, tasks, ledger>>
      /\ Update(w, row, row.status, steps) /\ Proceed(q)
  BY DEF RecordProgress, Writing
<1>2. row \in Row /\ row.steps \in StepTrace /\ w \in Runs
  BY <1>1, Read
<1>3. steps \in StepTrace
  BY <1>2 DEF StepTrace, WithProgress
<1> HIDE DEF steps
<1>4. /\ runs' \in [Runs -> Row] /\ Evolves /\ RunsHaveCases'
      /\ \A v \in Runs : \/ runs'[v].status = runs[v].status
                         \/ v = w /\ runs'[v].status = row.status
  BY <1>1, <1>2, <1>3, Updated
<1>5. runs'[w].status = runs[w].status
  BY <1>1, <1>2 DEF Update, IInv, Types, Row
<1>6. RequestsObey
  BY <1>1, <1>4, ProceedsWell, InstructedObey DEF HasRow
<1> QED
  BY <1>1, <1>4, <1>5, <1>6 DEF Good, IInv, Types, RequestsObey

------------------------------------------------------------------------------
(***************************************************************************)
(* The nodes of the graph.                                                 *)
(***************************************************************************)
LEMMA LoadGood ==
  ASSUME IInv, NEW q \in Requests, Load(q)
  PROVE  Good
<1> DEFINE old == [req[q] EXCEPT !.loaded = InScope(q), !.todo = InScope(q)]
<1>1. req[q] \in Request /\ Holds(req[q]) /\ InScope(q) \subseteq Documents
  BY DEF Load, Holds, Working, InScope, IInv, Types
<1>2. old \in Request /\ old.run = req[q].run /\ old.case = req[q].case
  BY <1>1 DEF Request
<1>3. /\ LoadDocuments \in WORKFLOW_STEPS /\ LoadDocuments \notin {CreateTasks, BuildReport}
      /\ Notify(q, LoadDocuments, old)
  BY DEF Load, LoadDocuments, CreateTasks, BuildReport, WORKFLOW_STEPS
<1>4. Instructed(q)
  BY <1>1, <1>2, <1>3, Reports
<1> QED
  BY <1>4, Quietly DEF Load, database

LEMMA NextDocumentGood ==
  ASSUME IInv, NEW q \in Requests, NextDocument(q)
  PROVE  Good
<1> SUFFICES Instructed(q)
  BY Quietly DEF NextDocument, database
<1>1. req[q] \in Request /\ Holds(req[q]) /\ req[q].pc = "extract_fields"
      /\ Carried(req[q], runs, tasks)
  BY DEF NextDocument, Holds, Working, IInv, Types
<1>2. CASE Notify(q, ExtractFields, req[q])
  <2>1. ExtractFields \in WORKFLOW_STEPS /\ ExtractFields \notin {CreateTasks, BuildReport}
    BY DEF ExtractFields, CreateTasks, BuildReport, WORKFLOW_STEPS
  <2> QED
    BY <1>1, <1>2, <2>1, Reports
<1>3. ASSUME NEW r \in Request, Become(q, r), Fit(r), r.pc \in {"extract_fields", "llm"},
             r.run = req[q].run, r.case = req[q].case
      PROVE  Instructed(q)
  <2>1. Carried(r, runs, tasks)
    BY <1>1, <1>3 DEF Carried, Reviewed
  <2> QED
    BY <1>3, <2>1 DEF Instructed
<1>4. ASSUME NEW d \in req[q].todo,
             Become(q, IF d \in extracted THEN [req[q] EXCEPT !.todo = @ \ {d}]
                                          ELSE [req[q] EXCEPT !.pc = "llm", !.doc = d])
      PROVE  Instructed(q)
  <2> DEFINE skipped == [req[q] EXCEPT !.todo = @ \ {d}]
             asked == [req[q] EXCEPT !.pc = "llm", !.doc = d]
  <2>1. /\ skipped \in Request /\ skipped.pc = "extract_fields"
        /\ skipped.run = req[q].run /\ skipped.case = req[q].case
    BY <1>1 DEF Request
  <2>2. d \in Documents /\ "llm" \in Steps
    BY <1>1 DEF Request, Steps, Working
  <2>3. /\ asked \in Request /\ asked.pc = "llm" /\ asked.doc = d
        /\ asked.run = req[q].run /\ asked.case = req[q].case
    BY <1>1, <2>2 DEF Request
  <2>4. Fit(skipped) /\ Fit(asked)
    BY <2>1, <2>2, <2>3 DEF Fit
  <2>5. Become(q, skipped) \/ Become(q, asked)
    BY <1>4
  <2> QED
    BY <1>3, <2>1, <2>3, <2>4, <2>5
<1> QED
  BY <1>2, <1>4 DEF NextDocument

LEMMA ExtractGood ==
  ASSUME IInv, NEW q \in Requests, Extract(q)
  PROVE  Good
<1> SUFFICES Instructed(q)
  BY Quietly DEF Extract
<1> DEFINE d == req[q].doc
           rest == [req[q] EXCEPT !.pc = "extract_fields", !.todo = @ \ {d}]
           failing == [rest EXCEPT !.failed = @ \cup {d}]
<1>1. req[q] \in Request /\ Holds(req[q]) /\ Carried(req[q], runs, tasks) /\ d \in Documents
  BY DEF Extract, Holds, Working, IInv, Types, Fit
<1>2. CASE GoTo(q, "failure")
  BY <1>1, <1>2, Told
<1>3. ASSUME NEW r \in Request, Become(q, r), r.pc = "extract_fields",
             r.run = req[q].run, r.case = req[q].case
      PROVE  Instructed(q)
  <2>1. Fit(r) /\ Carried(r, runs, tasks)
    BY <1>1, <1>3 DEF Fit, Carried, Reviewed
  <2> QED
    BY <1>3, <2>1 DEF Instructed
<1>4. /\ rest \in Request /\ rest.pc = "extract_fields"
      /\ rest.run = req[q].run /\ rest.case = req[q].case
  BY <1>1 DEF Request, Steps, Working
<1>5. /\ failing \in Request /\ failing.pc = "extract_fields"
      /\ failing.run = req[q].run /\ failing.case = req[q].case
  BY <1>1, <1>4 DEF Request
<1>6. GoTo(q, "failure") \/ Become(q, rest) \/ Become(q, failing)
  BY DEF Extract
<1> QED
  BY <1>2, <1>3, <1>4, <1>5, <1>6

LEMMA RunChecksGood ==
  ASSUME IInv, NEW q \in Requests, RunChecks(q)
  PROVE  Good
<1>1. req[q] \in Request /\ Holds(req[q])
  BY DEF RunChecks, Holds, Working, IInv, Types
<1>2. PICK found \in SUBSET Findings : Notify(q, RunRules, [req[q] EXCEPT !.found = found])
  BY DEF RunChecks
<1> DEFINE old == [req[q] EXCEPT !.found = found]
<1>3. old \in Request /\ old.run = req[q].run /\ old.case = req[q].case
  BY <1>1 DEF Request
<1>4. RunRules \in WORKFLOW_STEPS /\ RunRules \notin {CreateTasks, BuildReport}
  BY DEF RunRules, CreateTasks, BuildReport, WORKFLOW_STEPS
<1>5. Instructed(q)
  BY <1>1, <1>2, <1>3, <1>4, Reports
<1> QED
  BY <1>5, Quietly DEF RunChecks, database

LEMMA CreateGood ==
  ASSUME IInv, NEW q \in Requests, CreateReviewTasks(q)
  PROVE  Good
<1> DEFINE w == req[q].run
<1>1. /\ req[q] \in Request /\ Holds(req[q]) /\ Carried(req[q], runs, tasks)
      /\ UNCHANGED <<docs, runs, ledger>>
  BY DEF CreateReviewTasks, Holds, Working, IInv, Types
<1>2. CASE Exists(w)
  <2>1. /\ caseExists' = caseExists \cup ({req[q].case} \ {NoCase})
        /\ tasks' = [tasks EXCEPT ![w] = @ \cup Items(q)]
        /\ Notify(q, CreateTasks, req[q])
    BY <1>2 DEF CreateReviewTasks
  <2>2. w \in Runs /\ runs[w].status \notin Gone /\ req[q].case = runs[w].case
    BY <1>1, <1>2 DEF Carried, Exists, Gone
  <2>3. caseExists' = caseExists
    BY <1>2, <2>1, <2>2 DEF IInv, RunsHaveCases
  <2>4. Items(q) \subseteq Documents \cup Findings
    BY <1>1 DEF Items, Request
  <2>5. /\ tasks' \in [Runs -> SUBSET (Documents \cup Findings)]
        /\ tasks'[w] = tasks[w] \cup Items(q) /\ \A v \in Runs : tasks[v] \subseteq tasks'[v]
    BY <2>1, <2>2, <2>4 DEF IInv, Types
  <2>6. Evolves
    BY <1>1, <2>5 DEF Evolves
  <2> DEFINE r == [req[q] EXCEPT !.pc = "notify", !.done = CreateTasks, !.row = NoRow]
  <2>7. CreateTasks \in 0..5 /\ CreateTasks \in WORKFLOW_STEPS /\ "notify" \in Steps
    BY DEF CreateTasks, WORKFLOW_STEPS, Steps, Working
  <2>8. /\ r \in Request /\ r.pc = "notify" /\ r.done = CreateTasks
        /\ r.run = w /\ r.case = req[q].case
        /\ r.failed = req[q].failed /\ r.found = req[q].found
    BY <1>1, <2>7 DEF Request
  <2>9. Fit(r) /\ Carried(r, runs', tasks')
    BY <1>1, <2>2, <2>5, <2>7, <2>8 DEF Fit, Carried, Items, Gone
  <2>10. RequestsObey
    BY <2>1, <2>8, <2>9, OneObeys DEF Notify
  <2>11. RunsHaveCases'
    BY <1>1, <2>3 DEF IInv, RunsHaveCases, Exists
  <2> QED
    BY <1>1, <2>3, <2>5, <2>6, <2>10, <2>11 DEF Good, IInv, Types, RequestsObey
<1>3. CASE ~Exists(w)
  <2>1. GoTo(q, "failure") /\ UNCHANGED <<caseExists, tasks>>
    BY <1>3 DEF CreateReviewTasks
  <2>2. Instructed(q)
    BY <1>1, <2>1, Told
  <2> QED
    BY <1>1, <2>1, <2>2, Quietly
<1> QED
  BY <1>2, <1>3

(***************************************************************************)
(* The terminal transaction.                                               *)
(***************************************************************************)
LEMMA CloseGood ==
  ASSUME IInv, NEW q \in Requests, Finish(q) \/ RecordFailure(q)
  PROVE  Good
<1> DEFINE w == req[q].run
           row == req[q].row
<1>1. PICK status \in Terminal : /\ Close(q, status)
                                 /\ HasRow(q, "finish") \/ (HasRow(q, "failure") /\ status = "failed")
  BY DEF Finish, RecordFailure, Terminal
<1> DEFINE e == TerminalEvent(q, status)
<1>2. /\ Exists(w) /\ Update(w, row, status, row.steps) /\ ledger' = Append(ledger, e)
      /\ End(q) /\ UNCHANGED <<caseExists, docs, tasks>>
  BY <1>1 DEF Close
<1>3. /\ row \in Row /\ row.steps \in StepTrace
      /\ req[q] \in Request /\ Holds(req[q]) /\ w \in Runs
  BY <1>1, Read DEF Writing, Ending
<1>4. /\ runs' \in [Runs -> Row] /\ Evolves /\ RunsHaveCases'
      /\ \A v \in Runs : \/ runs'[v].status = runs[v].status
                         \/ v = w /\ runs'[v].status = status
  BY <1>2, <1>3, Updated
<1>5. e \in TerminalEvents /\ e.run = w /\ e.status = status
  BY <1>3 DEF TerminalEvent, TerminalEvents, Request
<1>6. Sound(e, runs, tasks)
  <2>1. runs[w].status # "absent"
    BY <1>2 DEF Exists
  <2>2. CASE HasRow(q, "finish")
    <3>1. /\ e.failed = req[q].failed /\ e.found = req[q].found
          /\ e.review = (req[q].found \cap HighSeverity # {} \/ req[q].failed # {})
      BY <2>2 DEF TerminalEvent, HasRow
    <3>2. Reviewed(req[q]) /\ Carried(req[q], runs, tasks)
      BY <2>2 DEF HasRow, Reviewed, IInv
    <3>3. runs[w].status \notin Gone => e.failed \cup e.found \subseteq tasks[w]
      BY <1>3, <3>1, <3>2 DEF Carried
    <3> QED
      BY <1>5, <2>1, <3>1, <3>3 DEF Sound
  <2>3. CASE status = "failed"
    BY <1>5, <2>1, <2>3 DEF Sound
  <2> QED
    BY <1>1, <2>2, <2>3
<1>7. Sound(e, runs', tasks')
  BY <1>4, <1>5, <1>6, SoundStays
<1>8. RequestsObey
  BY <1>2, <1>4, Ended, InstructedObey
<1> HIDE DEF e
<1> QED
  BY <1>2, <1>4, <1>5, <1>7, <1>8 DEF Good, IInv, Types, RequestsObey

------------------------------------------------------------------------------
(***************************************************************************)
(* Deletions and failures.                                                 *)
(***************************************************************************)
LEMMA DeleteCaseGood ==
  ASSUME IInv, NEW c \in Cases, DeleteCase(c)
  PROVE  Good
<1> DEFINE gone == [AbsentRun EXCEPT !.status = "deleted"]
<1>1. /\ caseExists' = caseExists \ {c} /\ docs' \subseteq docs
      /\ runs' = [w \in Runs |-> IF runs[w].case = c THEN gone ELSE runs[w]]
      /\ tasks' = [w \in Runs |-> IF runs[w].case = c THEN {} ELSE tasks[w]]
      /\ UNCHANGED <<ledger, req>>
  BY DEF DeleteCase
<1>2. gone \in Row /\ gone.status = "deleted"
  BY DEF AbsentRun, Row, StepTrace, initial_workflow_steps
<1> HIDE DEF gone
<1>3. /\ runs' \in [Runs -> Row]
      /\ tasks' \in [Runs -> SUBSET (Documents \cup Findings)]
      /\ \A w \in Runs : \/ runs'[w].status = "deleted"
                         \/ /\ runs'[w] = runs[w] /\ runs[w].case # c
                            /\ tasks'[w] = tasks[w]
  BY <1>1, <1>2 DEF IInv, Types
<1>4. Evolves
  BY <1>3 DEF Evolves, Gone
<1>5. RunsHaveCases'
  BY <1>1, <1>3 DEF IInv, RunsHaveCases, Exists
<1>6. \A w \in Runs : runs'[w].status \in Terminal => runs'[w].status = runs[w].status
  BY <1>3 DEF Terminal
<1> QED
  BY <1>1, <1>3, <1>4, <1>5, <1>6 DEF Good, IInv, Types

LEMMA DeleteDocumentGood ==
  ASSUME IInv, NEW d \in Documents, DeleteDocument(d)
  PROVE  Good
<1>1. docs' \subseteq docs /\ UNCHANGED <<caseExists, runs, tasks, ledger, req>>
  BY DEF DeleteDocument
<1>2. Evolves
  BY <1>1 DEF Evolves
<1>3. RunsHaveCases'
  BY <1>1 DEF IInv, RunsHaveCases, Exists
<1> QED
  BY <1>1, <1>2, <1>3 DEF Good, IInv, Types

LEMMA FaultGood ==
  ASSUME IInv, NEW q \in Requests, Fault(q)
  PROVE  Good
<1>1. CASE req[q].pc \in Working /\ GoTo(q, "failure")
  <2>1. Holds(req[q])
    BY <1>1 DEF Holds
  <2>2. Instructed(q)
    BY <1>1, <2>1, Told
  <2> QED
    BY <2>2, Quietly DEF Fault, database
<1>2. CASE End(q)
  BY <1>2, Ended, Quietly DEF Fault, database
<1> QED
  BY <1>1, <1>2 DEF Fault

LEMMA CrashGood == ASSUME IInv, Crash PROVE Good
<1>1. /\ req' = [q \in Requests |-> IdleRequest]
      /\ UNCHANGED <<caseExists, docs, runs, tasks, ledger>>
  BY DEF Crash, database
<1>2. RequestsObey
  BY <1>1, Idle DEF RequestsObey
<1>3. Evolves
  BY <1>1 DEF Evolves
<1>4. RunsHaveCases'
  BY <1>1 DEF IInv, RunsHaveCases, Exists
<1> QED
  BY <1>1, <1>2, <1>3, <1>4 DEF Good, IInv, Types, RequestsObey

LEMMA StutterGood == ASSUME IInv, UNCHANGED vars PROVE Good
<1>1. Evolves
  BY DEF Evolves, vars
<1>2. RunsHaveCases'
  BY DEF IInv, RunsHaveCases, Exists, vars
<1> QED
  BY <1>1, <1>2 DEF Good, IInv, Types, vars

------------------------------------------------------------------------------
LEMMA InitIInv == ASSUME Init PROVE IInv
<1>1. AbsentRun \in Row /\ AbsentRun.status = "absent"
  BY DEF AbsentRun, Row, StepTrace, initial_workflow_steps
<1>2. Types
  BY <1>1, Idle DEF Init, Types
<1>3. \A q \in Requests : Carried(req[q], runs, tasks)
  BY Idle DEF Init
<1>4. RunsHaveCases /\ TerminalIsRecorded
  BY <1>1 DEF Init, RunsHaveCases, TerminalIsRecorded, Exists, Terminal
<1>5. DOMAIN ledger = {}
  BY DEF Init
<1> QED
  BY <1>2, <1>3, <1>4, <1>5 DEF IInv

LEMMA NextGood == ASSUME IInv, [Next]_vars PROVE Good
<1>1. CASE UNCHANGED vars
  BY <1>1, StutterGood
<1>2. ASSUME NEW q \in Requests, NEW c \in Cases, AnalyzeCase(q, c) PROVE Good
  BY <1>2, AnalyzeGood
<1>3. ASSUME NEW q \in Requests, NEW c \in Cases \cup {NoCase}, Compare(q, c) PROVE Good
  BY <1>3, CompareGood
<1>4. ASSUME NEW q \in Requests, Step(q) PROVE Good
  BY <1>4, SelectGood, InsertGood, ReadGood, LostGood, BeginGood, ProgressGood, LoadGood,
     NextDocumentGood, ExtractGood, RunChecksGood, CreateGood, CloseGood DEF Step
<1>5. ASSUME NEW q \in Requests, Fault(q) PROVE Good
  BY <1>5, FaultGood
<1>6. ASSUME NEW c \in Cases, DeleteCase(c) PROVE Good
  BY <1>6, DeleteCaseGood
<1>7. ASSUME NEW d \in Documents, DeleteDocument(d) PROVE Good
  BY <1>7, DeleteDocumentGood
<1>8. CASE Crash
  BY <1>8, CrashGood
<1>9. CASE Rest
  BY <1>9, StutterGood DEF Rest
<1> QED
  BY <1>1, <1>2, <1>3, <1>4, <1>5, <1>6, <1>7, <1>8, <1>9 DEF Next

LEMMA Invariance == Spec => []IInv
<1>1. Init => IInv
  BY InitIInv
<1>2. IInv /\ [Next]_vars => IInv'
  BY NextGood, GoodSteps
<1> QED
  BY <1>1, <1>2, PTL DEF Spec

(***************************************************************************)
(* An analysis recorded as completed asked for a review of what it met,    *)
(* and has it in the queue while its run exists (create_review_tasks_node  *)
(* and _append_terminal_event), however requests, deletions, failures and  *)
(* restarts interleave.                                                    *)
(***************************************************************************)
THEOREM NothingEverPassesSilently == Spec => []NothingPassesSilently
<1>1. IInv => NothingPassesSilently
  BY DEF IInv, Sound, NothingPassesSilently, Exists, Gone
<1> QED
  BY Invariance, <1>1, PTL

(***************************************************************************)
(* A run that says completed or failed has an event that says so: the row  *)
(* and the event are one transaction of _execute, and no other write of a  *)
(* request that shares the run can invent the outcome.                     *)
(***************************************************************************)
THEOREM OutcomesAreRecorded == Spec => []TerminalIsRecorded
<1>1. IInv => TerminalIsRecorded
  BY DEF IInv
<1> QED
  BY Invariance, <1>1, PTL

(***************************************************************************)
(* No analysis brings a deleted case back, although create_many adds case  *)
(* rows that are missing: the foreign key from the tasks to their run, and *)
(* from the run to its case, refuse the transaction.                       *)
(***************************************************************************)
THEOREM CasesStayDeleted == Spec => DeletedStaysDeleted
<1>1. IInv /\ [Next]_vars => [caseExists' \subseteq caseExists]_caseExists
  BY NextGood DEF Good
<1> QED
  BY Invariance, <1>1, PTL DEF Spec, DeletedStaysDeleted

------------------------------------------------------------------------------
(***************************************************************************)
(* The steps a completed run shows.  Without faults, who has begun to      *)
(* execute a run that is not deleted leaves an event of it.  So if there   *)
(* is one event in the end, there was one execution, and nobody else wrote *)
(* the steps between its reading of the row and its writing.               *)
(***************************************************************************)
Executes(r, w) == r.run = w /\ r.pc \in Working \cup Ending
Executing(w) == {q \in Requests : Executes(req[q], w)}
EventsOf(w) == {i \in DOMAIN ledger : ledger[i].run = w}

\* The steps that a request has reported.
Reported(r) ==
  CASE r.pc \in {"extract_fields", "llm"} -> LoadDocuments
    [] r.pc = "run_rules"                 -> ExtractFields
    [] r.pc = "create_review_tasks"       -> RunRules
    [] r.pc = "notify"                    -> r.done - 1
    [] r.pc = "finish"                    -> BuildReport
    [] OTHER                              -> 0

Shows(steps, r) ==
  /\ \A i \in 1..Reported(r) : steps[i] = "completed"
  /\ r.row # NoRow => r.row.steps = steps

ShownInv ==
  /\ faults \in Nat
  /\ faults = 0 => \A w \in Runs : Exists(w) =>
       /\ \A q \in Requests :
            Executing(w) = {q} /\ EventsOf(w) = {} => Shows(runs[w].steps, req[q])
       /\ \A i \in DOMAIN ledger :
            Executing(w) = {} /\ EventsOf(w) = {i} /\ runs[w].status = "completed" =>
              \A j \in WORKFLOW_STEPS : runs[w].steps[j] = "completed"

\* A run with which nothing happens.
Undisturbed(w) ==
  /\ runs'[w] = runs[w]
  /\ \A q \in Requests : /\ Executes(req'[q], w) <=> Executes(req[q], w)
                         /\ Executes(req[q], w) /\ Shows(runs[w].steps, req[q]) =>
                              Shows(runs[w].steps, req'[q])

LEMMA Shown ==
  ASSUME IInv, ShownInv, UNCHANGED faults,
         NEW others \in SUBSET Runs,
         \A w \in others : Exists(w)' => Exists(w) /\ Undisturbed(w),
         \/ ledger' = ledger
         \/ \E e : ledger' = Append(ledger, e) /\ e.run \notin others,
         \A w \in Runs \ others : faults = 0 /\ Exists(w)' =>
           /\ \A q \in Requests :
                Executing(w)' = {q} /\ EventsOf(w)' = {} => Shows(runs'[w].steps, req'[q])
           /\ \A i \in DOMAIN ledger' :
                Executing(w)' = {} /\ EventsOf(w)' = {i} /\ runs'[w].status = "completed" =>
                  \A j \in WORKFLOW_STEPS : runs'[w].steps[j] = "completed"
  PROVE  ShownInv'
<1>1. ASSUME NEW w \in others, faults = 0, Exists(w)'
      PROVE  /\ \A q \in Requests :
                  Executing(w)' = {q} /\ EventsOf(w)' = {} => Shows(runs'[w].steps, req'[q])
             /\ \A i \in DOMAIN ledger' :
                  Executing(w)' = {} /\ EventsOf(w)' = {i} /\ runs'[w].status = "completed" =>
                    \A j \in WORKFLOW_STEPS : runs'[w].steps[j] = "completed"
  <2>1. w \in Runs /\ Exists(w) /\ Undisturbed(w)
    BY <1>1
  <2>2. Executing(w)' = Executing(w)
    BY <2>1 DEF Executing, Undisturbed
  <2>3. EventsOf(w)' = EventsOf(w)
    <3>1. CASE ledger' = ledger
      BY <3>1 DEF EventsOf
    <3>2. CASE \E e : ledger' = Append(ledger, e) /\ e.run \notin others
      <4>1. PICK e : ledger' = Append(ledger, e) /\ e.run \notin others
        BY <3>2
      <4>2. ledger \in Seq(TerminalEvents)
        BY DEF IInv, Types
      <4>3. /\ DOMAIN ledger' = DOMAIN ledger \cup {Len(ledger) + 1}
            /\ ledger'[Len(ledger) + 1] = e
            /\ \A i \in DOMAIN ledger : ledger'[i] = ledger[i]
        BY <4>1, <4>2
      <4> QED BY <1>1, <4>1, <4>3 DEF EventsOf
    <3> QED BY <3>1, <3>2
  <2>4. ASSUME NEW q \in Requests, Executing(w)' = {q}, EventsOf(w)' = {}
        PROVE  Shows(runs'[w].steps, req'[q])
    <3>1. Shows(runs[w].steps, req[q]) /\ Executes(req[q], w)
      BY <1>1, <2>1, <2>2, <2>3, <2>4 DEF ShownInv, Executing
    <3> QED BY <2>1, <3>1 DEF Undisturbed
  <2>5. ASSUME NEW i \in DOMAIN ledger', Executing(w)' = {}, EventsOf(w)' = {i},
               runs'[w].status = "completed"
        PROVE  \A j \in WORKFLOW_STEPS : runs'[w].steps[j] = "completed"
    <3>1. i \in DOMAIN ledger
      BY <2>3, <2>5 DEF EventsOf
    <3> QED BY <1>1, <2>1, <2>2, <2>3, <2>5, <3>1 DEF ShownInv, Undisturbed
  <2> QED BY <2>4, <2>5
<1> QED BY <1>1 DEF ShownInv

\* A step that concerns one run.
LEMMA OneRunShows ==
  ASSUME IInv, ShownInv, UNCHANGED faults, NEW w \in Runs,
         \A v \in Runs \ {w} : Exists(v)' => Exists(v) /\ Undisturbed(v),
         \/ ledger' = ledger
         \/ \E e : ledger' = Append(ledger, e) /\ e.run = w,
         faults = 0 /\ Exists(w)' =>
           /\ \A q \in Requests :
                Executing(w)' = {q} /\ EventsOf(w)' = {} => Shows(runs'[w].steps, req'[q])
           /\ \A i \in DOMAIN ledger' :
                Executing(w)' = {} /\ EventsOf(w)' = {i} /\ runs'[w].status = "completed" =>
                  \A j \in WORKFLOW_STEPS : runs'[w].steps[j] = "completed"
  PROVE  ShownInv'
<1>1. \A v \in Runs \ (Runs \ {w}) : faults = 0 /\ Exists(v)' =>
        /\ \A q \in Requests :
             Executing(v)' = {q} /\ EventsOf(v)' = {} => Shows(runs'[v].steps, req'[q])
        /\ \A i \in DOMAIN ledger' :
             Executing(v)' = {} /\ EventsOf(v)' = {i} /\ runs'[v].status = "completed" =>
               \A j \in WORKFLOW_STEPS : runs'[v].steps[j] = "completed"
  <2> SUFFICES ASSUME NEW v \in Runs \ (Runs \ {w}) PROVE v = w
    OBVIOUS
  <2> QED OBVIOUS
<1>2. ledger' = ledger \/ \E e : ledger' = Append(ledger, e) /\ e.run \notin Runs \ {w}
  OBVIOUS
<1>3. Runs \ {w} \in SUBSET Runs
  OBVIOUS
<1> QED BY <1>1, <1>2, <1>3, Shown

\* A step of one request that leaves the rows and events of runs alone.
LEMMA OneShows ==
  ASSUME IInv, ShownInv, NEW q \in Requests, NEW r, Become(q, r),
         UNCHANGED <<runs, ledger, faults>>,
         \A w \in Runs : Exists(w) =>
           /\ Executes(r, w) <=> Executes(req[q], w)
           /\ Executes(r, w) /\ Shows(runs[w].steps, req[q]) => Shows(runs[w].steps, r)
  PROVE  ShownInv'
<1>1. req' = [req EXCEPT ![q] = r] /\ req \in [Requests -> Request]
  BY DEF Become, IInv, Types
<1>2. \A w \in Runs : Exists(w)' => Exists(w) /\ Undisturbed(w)
  BY <1>1 DEF Undisturbed, Exists
<1> QED BY <1>2, Shown

(***************************************************************************)
(* The actions.                                                            *)
(***************************************************************************)
\* Where a report leads to, the steps up to it are reported.
LEMMA ProceedShows ==
  ASSUME IInv, NEW q \in Requests, req[q].pc = "notify", Proceed(q)
  PROVE  \E r : /\ Become(q, r) /\ r.run = req[q].run /\ r.pc \in Working \cup Ending
               /\ r.row = NoRow /\ Reported(r) = req[q].done
<1>1. req[q] \in Request
  BY DEF IInv, Types
<1>2. ASSUME NEW pc, GoTo(q, pc)
      PROVE  \E r : Become(q, r) /\ r.run = req[q].run /\ r.pc = pc /\ r.row = NoRow
  <2> DEFINE r == [req[q] EXCEPT !.pc = pc, !.row = NoRow]
  <2>1. Become(q, r) /\ r.run = req[q].run /\ r.pc = pc /\ r.row = NoRow
    BY <1>1, <1>2 DEF GoTo, Request
  <2> QED BY <2>1
<1>3. ASSUME NEW n, Notify(q, n, req[q])
      PROVE  \E r : /\ Become(q, r) /\ r.run = req[q].run /\ r.pc = "notify"
                   /\ r.row = NoRow /\ r.done = n
  <2> DEFINE r == [req[q] EXCEPT !.pc = "notify", !.done = n, !.row = NoRow]
  <2>1. /\ Become(q, r) /\ r.run = req[q].run /\ r.pc = "notify"
        /\ r.row = NoRow /\ r.done = n
    BY <1>1, <1>3 DEF Notify, Request
  <2> QED BY <2>1
<1> USE DEF Working, Ending, Reported, LoadDocuments, ExtractFields, RunRules, CreateTasks,
            BuildReport
<1>4. CASE req[q].done = LoadDocuments /\ GoTo(q, "extract_fields")
  BY <1>2, <1>4
<1>5. CASE req[q].done = ExtractFields /\ GoTo(q, "run_rules")
  BY <1>2, <1>5
<1>6. CASE req[q].done = RunRules /\ GoTo(q, "create_review_tasks")
  BY <1>2, <1>6
<1>7. CASE req[q].done = RunRules /\ Notify(q, CreateTasks, req[q])
  BY <1>3, <1>7
<1>8. CASE req[q].done = CreateTasks /\ Notify(q, BuildReport, req[q])
  BY <1>3, <1>8
<1>9. CASE req[q].done = BuildReport /\ GoTo(q, "finish")
  BY <1>2, <1>9
<1> QED BY <1>4, <1>5, <1>6, <1>7, <1>8, <1>9 DEF Proceed

\* A request that executes nothing before and after.
LEMMA IdleShows ==
  ASSUME IInv, ShownInv, NEW q \in Requests, NEW r, Become(q, r),
         UNCHANGED <<runs, ledger, faults>>,
         req[q].pc \notin Working \cup Ending, r.pc \notin Working \cup Ending
  PROVE  ShownInv'
BY OneShows DEF Executes

Waits(q) == \E r : Become(q, r) /\ r.pc \notin Working \cup Ending

LEMMA RoutesShow ==
  ASSUME IInv, ShownInv, NEW q \in Requests,
         \/ \E c \in Cases : AnalyzeCase(q, c)
         \/ SelectActive(q) \/ Reselect(q)
         \/ InsertRun(q) /\ UNCHANGED runs
  PROVE  ShownInv'
<1>1. req[q] \in Request
  BY DEF IInv, Types
<1>2. req[q].pc \notin Working \cup Ending /\ UNCHANGED <<runs, ledger, faults>>
  BY DEF AnalyzeCase, SelectActive, Reselect, InsertRun, database, Working, Ending
<1> SUFFICES Waits(q)
  BY <1>2, IdleShows DEF Waits
<1>3. ASSUME NEW r, Become(q, r), r.pc \in {"select", "insert", "reselect", "begin", "idle"}
      PROVE  Waits(q)
  BY <1>3 DEF Waits, Working, Ending
<1>4. ASSUME NEW pc \in {"insert", "reselect"}, GoTo(q, pc) PROVE Waits(q)
  <2>1. [req[q] EXCEPT !.pc = pc, !.row = NoRow].pc = pc
    BY <1>1 DEF Request
  <2> QED BY <1>3, <1>4, <2>1 DEF GoTo
<1>5. CASE End(q)
  <2>1. IdleRequest.pc = "idle"
    BY DEF IdleRequest
  <2> QED BY <1>3, <1>5, <2>1 DEF End
<1>6. ASSUME NEW w, NEW status, Return(q, w, status) PROVE Waits(q)
  <2>1. [req[q] EXCEPT !.pc = "begin", !.run = w].pc = "begin"
    BY <1>1 DEF Request
  <2> QED BY <1>3, <1>5, <1>6, <2>1 DEF Return
<1>7. CASE \E c \in Cases : AnalyzeCase(q, c)
  <2>1. \A c : [IdleRequest EXCEPT !.pc = "select", !.case = c].pc = "select"
    BY DEF IdleRequest
  <2> QED BY <1>3, <1>7, <2>1 DEF AnalyzeCase
<1>8. CASE InsertRun(q)
  <2> QED BY <1>4, <1>6, <1>8 DEF InsertRun
<1>9. CASE SelectActive(q) \/ Reselect(q)
  <2> QED BY <1>4, <1>5, <1>6, <1>9 DEF SelectActive, Reselect
<1> QED BY <1>7, <1>8, <1>9

\* A run that is inserted was not there, so nobody executes it.
LEMMA InsertShows ==
  ASSUME IInv, ShownInv, NEW q \in Requests, NEW c, NEW status \in Active, NEW w \in Unused,
         runs' = [runs EXCEPT ![w] = NewRun(status, c)], UNCHANGED <<ledger, faults>>,
         req[q].pc \notin Working \cup Ending, NEW r, Become(q, r), r.pc = "begin"
  PROVE  ShownInv'
<1>1. /\ req' = [req EXCEPT ![q] = r] /\ req \in [Requests -> Request]
      /\ w \in Runs /\ runs[w].status = "absent" /\ runs \in [Runs -> Row]
  BY DEF Become, IInv, Types, Unused
<1>2. \A p \in Requests : \A v : Executes(req'[p], v) <=> Executes(req[p], v)
  BY <1>1 DEF Executes, Working, Ending
<1>3. \A p \in Requests : p # q => req'[p] = req[p]
  BY <1>1
<1>4. ASSUME NEW v \in Runs \ {w} PROVE Exists(v)' => Exists(v) /\ Undisturbed(v)
  BY <1>1, <1>2, <1>3 DEF Undisturbed, Exists, Executes
<1>5. Executing(w)' = {}
  <2>1. \A p \in Requests : ~Executes(req[p], w)
    BY <1>1 DEF IInv, Carried, Holds, Executes
  <2> QED BY <1>2, <2>1 DEF Executing
<1>6. runs'[w].status # "completed"
  BY <1>1 DEF NewRun, AbsentRun, Active
<1>7. \A p \in Requests : Executing(w)' # {p}
  BY <1>5
<1>8. ledger' = ledger /\ Runs \ {w} \in SUBSET Runs /\ Runs \ (Runs \ {w}) = {w}
  BY <1>1
<1> QED BY <1>4, <1>6, <1>7, <1>8, Shown

LEMMA InsertRunShows ==
  ASSUME IInv, ShownInv, NEW q \in Requests, InsertRun(q)
  PROVE  ShownInv'
<1>1. CASE MayInsert(req[q].case)
  <2>1. PICK w \in Unused : /\ runs' = [runs EXCEPT ![w] = NewRun("queued", req[q].case)]
                            /\ Return(q, w, "queued")
    BY <1>1 DEF InsertRun
  <2> DEFINE r == [req[q] EXCEPT !.pc = "begin", !.run = w]
  <2>2. Become(q, r) /\ r.pc = "begin"
    BY <2>1 DEF Return, IInv, Types, Request
  <2>3. /\ req[q].pc \notin Working \cup Ending /\ UNCHANGED <<ledger, faults>>
        /\ "queued" \in Active
    BY DEF InsertRun, Working, Ending, Active
  <2> QED BY <2>1, <2>2, <2>3, InsertShows
<1>2. CASE ~MayInsert(req[q].case)
  BY <1>2, RoutesShow DEF InsertRun
<1> QED BY <1>1, <1>2

LEMMA CompareShows ==
  ASSUME IInv, ShownInv, NEW q \in Requests, NEW c, Compare(q, c)
  PROVE  ShownInv'
<1>1. PICK w \in Unused :
        /\ runs' = [runs EXCEPT ![w] = NewRun("running", c)]
        /\ Become(q, [IdleRequest EXCEPT !.pc = "begin", !.run = w, !.case = c])
  BY DEF Compare
<1> DEFINE r == [IdleRequest EXCEPT !.pc = "begin", !.run = w, !.case = c]
<1>2. Become(q, r) /\ r.pc = "begin"
  BY <1>1 DEF IdleRequest
<1>3. /\ req[q].pc \notin Working \cup Ending /\ UNCHANGED <<ledger, faults>>
      /\ "running" \in Active
  BY DEF Compare, Working, Ending, Active
<1> QED BY <1>1, <1>2, <1>3, InsertShows

\* A request inside the graph that moves on without reporting a step.
LEMMA InsideShows ==
  ASSUME IInv, ShownInv, NEW q \in Requests, NEW r, Become(q, r),
         UNCHANGED <<runs, ledger, faults>>,
         req[q].pc \in Working \cup Ending, r.pc \in Working \cup Ending,
         r.run = req[q].run, r.row = NoRow, Reported(r) = Reported(req[q])
  PROVE  ShownInv'
BY OneShows DEF Executes, Shows

\* A request that leaves a run which was deleted.
LEMMA LeavingShows ==
  ASSUME IInv, ShownInv, NEW q \in Requests, NEW r, Become(q, r),
         UNCHANGED <<runs, ledger, faults>>,
         ~Exists(req[q].run), r.run = req[q].run \/ r.pc \notin Working \cup Ending
  PROVE  ShownInv'
BY OneShows DEF Executes

LEMMA IdleEnds == IdleRequest.pc \notin Working \cup Ending
BY DEF IdleRequest, Working, Ending

LEMMA ReadShows ==
  ASSUME IInv, ShownInv, NEW q \in Requests, ReadRow(q)
  PROVE  ShownInv'
<1>1. req[q] \in Request /\ UNCHANGED <<runs, ledger, faults>>
  BY DEF IInv, Types, ReadRow, database
<1>2. CASE Exists(req[q].run) /\ Become(q, [req[q] EXCEPT !.row = runs[req[q].run]])
  <2> DEFINE r == [req[q] EXCEPT !.row = runs[req[q].run]]
  <2>1. /\ r.pc = req[q].pc /\ r.run = req[q].run /\ r.done = req[q].done
        /\ r.row = runs[req[q].run]
    BY <1>1 DEF Request
  <2>2. Become(q, r) /\ Reported(r) = Reported(req[q])
    BY <1>2, <2>1 DEF Reported
  <2> HIDE DEF r
  <2> QED BY <1>1, <2>1, <2>2, OneShows DEF Executes, Shows
<1>3. CASE ~Exists(req[q].run) /\ req[q].pc = "notify" /\ Proceed(q)
  <2>1. PICK r : Become(q, r) /\ r.run = req[q].run
    BY <1>3, ProceedShows
  <2> QED BY <1>1, <1>3, <2>1, LeavingShows
<1>4. CASE ~Exists(req[q].run) /\ End(q)
  BY <1>1, <1>4, LeavingShows, IdleEnds DEF End
<1> QED BY <1>2, <1>3, <1>4 DEF ReadRow

LEMMA LostShows ==
  ASSUME IInv, ShownInv, NEW q \in Requests, Lost(q)
  PROVE  ShownInv'
<1>1. req[q] \in Request /\ UNCHANGED <<runs, ledger, faults>> /\ ~Exists(req[q].run)
  BY DEF IInv, Types, Lost, database
<1>2. CASE GoTo(q, "failure")
  <2> DEFINE r == [req[q] EXCEPT !.pc = "failure", !.row = NoRow]
  <2>1. Become(q, r) /\ r.run = req[q].run
    BY <1>1, <1>2 DEF GoTo, Request
  <2> QED BY <1>1, <2>1, LeavingShows
<1>3. CASE End(q)
  BY <1>1, <1>3, LeavingShows, IdleEnds DEF End
<1> QED BY <1>2, <1>3 DEF Lost

LEMMA NodesShow ==
  ASSUME IInv, ShownInv, NEW q \in Requests,
         Load(q) \/ NextDocument(q) \/ Extract(q) \/ RunChecks(q) \/ CreateReviewTasks(q)
  PROVE  ShownInv'
<1>1. /\ req[q] \in Request /\ UNCHANGED <<runs, ledger, faults>>
      /\ req[q].pc \in Working \cup Ending
  BY DEF IInv, Types, Load, NextDocument, Extract, RunChecks, CreateReviewTasks, database, Working
<1>2. ASSUME NEW old \in Request, NEW n \in 1..5, Notify(q, n, old),
             old.run = req[q].run, Reported(req[q]) = n - 1
      PROVE  ShownInv'
  <2> DEFINE r == [old EXCEPT !.pc = "notify", !.done = n, !.row = NoRow]
  <2>1. /\ Become(q, r) /\ r.pc = "notify" /\ r.run = req[q].run /\ r.row = NoRow
        /\ r.done = n
    BY <1>2 DEF Notify, Request
  <2>2. Reported(r) = n - 1 /\ r.pc \in Working \cup Ending
    BY <2>1 DEF Reported, Working
  <2> HIDE DEF r
  <2> QED BY <1>1, <1>2, <2>1, <2>2, InsideShows
<1>3. CASE GoTo(q, "failure")
  <2> DEFINE r == [req[q] EXCEPT !.pc = "failure", !.row = NoRow]
  <2>1. Become(q, r) /\ r.pc = "failure" /\ r.run = req[q].run /\ r.row = NoRow
    BY <1>1, <1>3 DEF GoTo, Request
  <2>2. \A steps : Shows(steps, r)
    BY <2>1 DEF Shows, Reported
  <2>3. r.pc \in Working \cup Ending
    BY <2>1 DEF Ending
  <2> HIDE DEF r
  <2> QED BY <1>1, <2>1, <2>2, <2>3, OneShows DEF Executes
<1>4. ASSUME NEW r, Become(q, r), r.run = req[q].run, r.row = req[q].row,
             r.pc \in {"extract_fields", "llm"}, req[q].pc \in {"extract_fields", "llm"}
      PROVE  ShownInv'
  <2>1. \A steps : Shows(steps, req[q]) => Shows(steps, r)
    BY <1>4 DEF Shows, Reported
  <2>2. r.pc \in Working \cup Ending
    BY <1>4 DEF Working
  <2> QED BY <1>1, <1>4, <2>1, <2>2, OneShows DEF Executes
<1>5. CASE Load(q)
  <2> DEFINE old == [req[q] EXCEPT !.loaded = InScope(q), !.todo = InScope(q)]
  <2>1. InScope(q) \subseteq Documents
    BY DEF InScope, IInv, Types
  <2>2. old \in Request /\ old.run = req[q].run
    BY <1>1, <2>1 DEF Request
  <2>3. Notify(q, 1, old) /\ Reported(req[q]) = 0
    BY <1>5 DEF Load, LoadDocuments, Reported
  <2> HIDE DEF old
  <2> QED BY <1>2, <2>2, <2>3
<1>6. CASE NextDocument(q)
  <2>1. CASE Notify(q, ExtractFields, req[q])
    <3>1. Reported(req[q]) = 1 /\ ExtractFields = 2
      BY <1>6 DEF NextDocument, Reported, LoadDocuments, ExtractFields
    <3> QED BY <1>1, <1>2, <2>1, <3>1
  <2>2. ASSUME NEW d \in req[q].todo,
               Become(q, IF d \in extracted THEN [req[q] EXCEPT !.todo = @ \ {d}]
                                            ELSE [req[q] EXCEPT !.pc = "llm", !.doc = d])
        PROVE  ShownInv'
    <3> DEFINE skipped == [req[q] EXCEPT !.todo = @ \ {d}]
               asked == [req[q] EXCEPT !.pc = "llm", !.doc = d]
    <3>1. req[q].pc = "extract_fields"
      BY <1>6 DEF NextDocument
    <3>2. /\ skipped.pc = "extract_fields" /\ skipped.run = req[q].run /\ skipped.row = req[q].row
          /\ asked.pc = "llm" /\ asked.run = req[q].run /\ asked.row = req[q].row
      BY <1>1, <3>1 DEF Request
    <3>3. Become(q, skipped) \/ Become(q, asked)
      BY <2>2
    <3> HIDE DEF skipped, asked
    <3> QED BY <1>4, <3>1, <3>2, <3>3
  <2> QED BY <1>6, <2>1, <2>2 DEF NextDocument
<1>7. CASE Extract(q)
  <2> DEFINE rest == [req[q] EXCEPT !.pc = "extract_fields", !.todo = @ \ {req[q].doc}]
             failing == [rest EXCEPT !.failed = @ \cup {req[q].doc}]
  <2>1. /\ rest.pc = "extract_fields" /\ rest.run = req[q].run /\ rest.row = req[q].row
        /\ failing.pc = "extract_fields" /\ failing.run = req[q].run
        /\ failing.row = req[q].row
    BY <1>1 DEF Request
  <2>2. GoTo(q, "failure") \/ Become(q, rest) \/ Become(q, failing)
    BY <1>7 DEF Extract
  <2>3. req[q].pc = "llm"
    BY <1>7 DEF Extract
  <2> HIDE DEF rest, failing
  <2> QED BY <1>3, <1>4, <2>1, <2>2, <2>3
<1>8. CASE RunChecks(q)
  <2>1. PICK found \in SUBSET Findings : Notify(q, RunRules, [req[q] EXCEPT !.found = found])
    BY <1>8 DEF RunChecks
  <2> DEFINE old == [req[q] EXCEPT !.found = found]
  <2>2. old \in Request /\ old.run = req[q].run
    BY <1>1 DEF Request
  <2>3. Notify(q, 3, old) /\ Reported(req[q]) = 2
    BY <1>8, <2>1 DEF RunChecks, Reported, ExtractFields, RunRules
  <2> HIDE DEF old
  <2> QED BY <1>2, <2>2, <2>3
<1>9. CASE CreateReviewTasks(q)
  <2>1. CASE Notify(q, CreateTasks, req[q])
    <3>1. Reported(req[q]) = 3 /\ CreateTasks = 4
      BY <1>9 DEF CreateReviewTasks, Reported, RunRules, CreateTasks
    <3> QED BY <1>1, <1>2, <2>1, <3>1
  <2> QED BY <1>3, <1>9, <2>1 DEF CreateReviewTasks
<1> QED BY <1>5, <1>6, <1>7, <1>8, <1>9

(***************************************************************************)
(* The transactions that write the row.                                    *)
(***************************************************************************)
\* What a request writes to its run does not concern the others.
LEMMA OtherRuns ==
  ASSUME IInv, NEW q \in Requests, NEW w \in Runs, NEW r, Become(q, r),
         ~Executes(req[q], w) \/ req[q].run = w,
         \A v : v # w => ~Executes(req[q], v) /\ ~Executes(r, v),
         \A v \in Runs \ {w} : runs'[v] = runs[v]
  PROVE  \A v \in Runs \ {w} : Exists(v)' => Exists(v) /\ Undisturbed(v)
<1>1. req' = [req EXCEPT ![q] = r] /\ req \in [Requests -> Request]
  BY DEF Become, IInv, Types
<1> QED BY <1>1 DEF Undisturbed, Exists

LEMMA WrittenSteps ==
  ASSUME IInv, NEW w \in Runs, NEW row \in Row, NEW status, NEW steps,
         Update(w, row, status, steps)
  PROVE  /\ \A v \in Runs \ {w} : runs'[v] = runs[v]
         /\ row.steps = runs[w].steps => runs'[w].steps = steps
         /\ runs'[w].status \in {status, runs[w].status}
BY DEF IInv, Types, Update, Row

LEMMA BeginShows ==
  ASSUME IInv, ShownInv, NEW q \in Requests, Begin(q)
  PROVE  ShownInv'
<1>1. /\ HasRow(q, "begin") /\ "begin" \in Writing /\ UNCHANGED <<ledger, faults>>
      /\ req[q].pc \notin Working \cup Ending
  BY DEF Begin, Writing, HasRow, Working, Ending
<1>2. PICK w \in Runs : w = req[q].run
  BY <1>1, Read
<1> DEFINE row == req[q].row
           r == [req[q] EXCEPT !.pc = "load_documents", !.row = NoRow]
<1>3. row \in Row /\ req[q] \in Request
  BY <1>1, Read
<1>4. CASE End(q) /\ UNCHANGED runs
  BY <1>1, <1>4, IdleShows, IdleEnds DEF End
<1>5. CASE /\ Update(w, row, "running", [row.steps EXCEPT ![LoadDocuments] = "running"])
           /\ GoTo(q, "load_documents")
  <2>1. /\ Become(q, r) /\ r.run = w /\ r.pc = "load_documents" /\ r.row = NoRow
        /\ req' = [req EXCEPT ![q] = r] /\ req \in [Requests -> Request]
    BY <1>2, <1>3, <1>5 DEF GoTo, Become, Request, IInv, Types
  <2> HIDE DEF r
  <2>2. \A v \in Runs \ {w} : runs'[v] = runs[v]
    BY <1>3, <1>5, WrittenSteps
  <2>3. \A v \in Runs \ {w} : Exists(v)' => Exists(v) /\ Undisturbed(v)
    BY <1>1, <1>2, <2>1, <2>2, OtherRuns DEF Executes
  <2>4. q \in Executing(w)'
    BY <2>1 DEF Executing, Executes, Working
  <2>5. \A p \in Requests : Executing(w)' = {p} => Shows(runs'[w].steps, req'[p])
    <3>1. Shows(runs'[w].steps, req'[q])
      BY <2>1 DEF Shows, Reported
    <3> QED BY <2>4, <3>1
  <2>6. Executing(w)' # {}
    BY <2>4
  <2> QED BY <1>1, <2>3, <2>5, <2>6, OneRunShows
<1> QED BY <1>2, <1>4, <1>5 DEF Begin

LEMMA ProgressShows ==
  ASSUME IInv, ShownInv, NEW q \in Requests, RecordProgress(q)
  PROVE  ShownInv'
<1>1. /\ HasRow(q, "notify") /\ "notify" \in Writing /\ UNCHANGED <<ledger, faults>>
      /\ req[q].pc = "notify" /\ Proceed(q) /\ Exists(req[q].run)
  BY DEF RecordProgress, Writing, HasRow
<1>2. PICK w \in Runs : w = req[q].run
  BY <1>1, Read
<1> DEFINE row == req[q].row
           steps == WithProgress(row.steps, req[q].done)
<1>3. row \in Row /\ req[q] \in Request /\ Update(w, row, row.status, steps) /\ row # NoRow
  BY <1>1, <1>2, Read DEF RecordProgress, HasRow
<1>4. PICK r : /\ Become(q, r) /\ r.run = w /\ r.pc \in Working \cup Ending
               /\ r.row = NoRow /\ Reported(r) = req[q].done
  BY <1>1, <1>2, ProceedShows
<1>5. req' = [req EXCEPT ![q] = r] /\ req \in [Requests -> Request]
  BY <1>4 DEF Become, IInv, Types
<1>6. /\ \A v \in Runs \ {w} : runs'[v] = runs[v]
      /\ row.steps = runs[w].steps => runs'[w].steps = steps
  BY <1>3, WrittenSteps
<1>7. \A v \in Runs \ {w} : Exists(v)' => Exists(v) /\ Undisturbed(v)
  BY <1>2, <1>4, <1>6, OtherRuns DEF Executes
<1>8. Executing(w)' = Executing(w) /\ q \in Executing(w)
  BY <1>1, <1>2, <1>4, <1>5 DEF Executing, Executes, Working
<1>9. EventsOf(w)' = EventsOf(w)
  BY <1>1 DEF EventsOf
<1>10. ASSUME faults = 0, NEW p \in Requests, Executing(w)' = {p}, EventsOf(w)' = {}
       PROVE  Shows(runs'[w].steps, req'[p])
  <2>1. p = q /\ Shows(runs[w].steps, req[q])
    BY <1>1, <1>2, <1>8, <1>9, <1>10 DEF ShownInv
  <2>2. /\ row.steps = runs[w].steps
        /\ \A i \in 1..(req[q].done - 1) : row.steps[i] = "completed"
    BY <1>1, <1>3, <2>1 DEF Shows, Reported
  <2>3. req[q].done \in WORKFLOW_STEPS
    BY <1>1, <1>3 DEF IInv, Types, Fit
  <2>4. \A i \in 1..req[q].done : steps[i] = "completed"
    BY <2>2, <2>3 DEF WithProgress, WORKFLOW_STEPS
  <2> QED BY <1>4, <1>5, <1>6, <2>1, <2>2, <2>4 DEF Shows
<1>11. Executing(w)' # {}
  BY <1>8
<1> QED BY <1>1, <1>7, <1>10, <1>11, OneRunShows

\* The terminal transaction.  A run whose only event is this one was executed by
\* this request alone, which has then reported every step of it.
LEMMA CloseShows ==
  ASSUME IInv, ShownInv, NEW q \in Requests, Finish(q) \/ RecordFailure(q)
  PROVE  ShownInv'
<1>1. PICK status \in Terminal :
        /\ Close(q, status) /\ req[q].row # NoRow /\ req[q].pc \in Ending
        /\ req[q].pc = "finish" \/ status = "failed"
        /\ \E pc \in Writing : HasRow(q, pc)
  BY DEF Finish, RecordFailure, Terminal, HasRow, Ending, Writing
<1>2. PICK w \in Runs : w = req[q].run
  BY <1>1, Read
<1> DEFINE row == req[q].row
           e == TerminalEvent(q, status)
<1>3. /\ row \in Row /\ req[q] \in Request /\ Update(w, row, status, row.steps) /\ Exists(w)
      /\ ledger' = Append(ledger, e) /\ e.run = w /\ UNCHANGED faults /\ End(q)
  BY <1>1, <1>2, Read DEF Close, TerminalEvent
<1> HIDE DEF e
<1>4. /\ Become(q, IdleRequest) /\ req' = [req EXCEPT ![q] = IdleRequest]
      /\ req \in [Requests -> Request] /\ \A v : ~Executes(IdleRequest, v)
  BY <1>3, IdleEnds DEF End, Become, IInv, Types, Executes
<1>5. /\ \A v \in Runs \ {w} : runs'[v] = runs[v]
      /\ row.steps = runs[w].steps => runs'[w].steps = row.steps
      /\ runs'[w].status \in {status, runs[w].status}
  BY <1>3, WrittenSteps
<1>6. \A v \in Runs \ {w} : Exists(v)' => Exists(v) /\ Undisturbed(v)
  BY <1>2, <1>4, <1>5, OtherRuns DEF Executes
<1>7. /\ Executing(w)' = Executing(w) \ {q} /\ q \in Executing(w)
  BY <1>1, <1>2, <1>4 DEF Executing, Executes
<1>8. /\ ledger \in Seq(TerminalEvents) /\ Len(ledger) \in Nat
      /\ DOMAIN ledger = 1..Len(ledger) /\ DOMAIN ledger' = 1..(Len(ledger) + 1)
      /\ ledger'[Len(ledger) + 1] = e
      /\ \A i \in DOMAIN ledger : ledger'[i] = ledger[i]
  BY <1>3 DEF IInv, Types
<1>9. EventsOf(w)' = EventsOf(w) \cup {Len(ledger) + 1} /\ Len(ledger) + 1 \notin EventsOf(w)
  BY <1>3, <1>8 DEF EventsOf
<1>10. ASSUME faults = 0, NEW i \in DOMAIN ledger', Executing(w)' = {}, EventsOf(w)' = {i},
              runs'[w].status = "completed"
       PROVE  \A j \in WORKFLOW_STEPS : runs'[w].steps[j] = "completed"
  <2>1. Executing(w) = {q} /\ EventsOf(w) = {}
    BY <1>7, <1>9, <1>10
  <2>2. Shows(runs[w].steps, req[q])
    BY <1>2, <1>3, <1>10, <2>1 DEF ShownInv
  <2>3. runs[w].status # "completed"
    BY <2>1 DEF IInv, TerminalIsRecorded, Terminal, EventsOf
  <2>4. req[q].pc = "finish"
    BY <1>1, <1>5, <1>10, <2>3
  <2>5. \A k \in WORKFLOW_STEPS : runs[w].steps[k] = "completed"
    BY <2>2, <2>4 DEF Shows, Reported, BuildReport, WORKFLOW_STEPS
  <2> QED BY <1>1, <1>5, <2>2, <2>5 DEF Shows
<1>11. EventsOf(w)' # {}
  BY <1>9
<1> QED BY <1>3, <1>6, <1>10, <1>11, OneRunShows

(***************************************************************************)
(* Deletions, failures and rest.                                           *)
(***************************************************************************)
LEMMA DeleteCaseShows ==
  ASSUME IInv, ShownInv, NEW c \in Cases, DeleteCase(c)
  PROVE  ShownInv'
<1>1. /\ UNCHANGED <<ledger, req, faults>>
      /\ \A w \in Runs : runs'[w] = runs[w] \/ runs'[w].status = "deleted"
  BY DEF DeleteCase, AbsentRun
<1>2. \A w \in Runs : Exists(w)' => Exists(w) /\ Undisturbed(w)
  BY <1>1 DEF Exists, Undisturbed
<1> QED BY <1>1, <1>2, Shown

LEMMA RestShows ==
  ASSUME IInv, ShownInv, UNCHANGED <<runs, ledger, req, faults>>
  PROVE  ShownInv'
<1>1. \A w \in Runs : Exists(w)' => Exists(w) /\ Undisturbed(w)
  BY DEF Exists, Undisturbed
<1> QED BY <1>1, Shown

LEMMA FaultShows ==
  ASSUME ShownInv, faults' = faults + 1
  PROVE  ShownInv'
BY DEF ShownInv

------------------------------------------------------------------------------
LEMMA InitShown == ASSUME Init PROVE ShownInv
BY DEF Init, ShownInv, AbsentRun, Exists

LEMMA NextShows == ASSUME IInv, ShownInv, [Next]_vars PROVE ShownInv'
<1>1. CASE UNCHANGED vars \/ Rest
  BY <1>1, RestShows DEF Rest, vars
<1>2. ASSUME NEW q \in Requests, NEW c \in Cases, AnalyzeCase(q, c) PROVE ShownInv'
  BY <1>2, RoutesShow
<1>3. ASSUME NEW q \in Requests, NEW c \in Cases \cup {NoCase}, Compare(q, c) PROVE ShownInv'
  BY <1>3, CompareShows
<1>4. ASSUME NEW q \in Requests, Step(q) PROVE ShownInv'
  BY <1>4, RoutesShow, InsertRunShows, ReadShows, LostShows, BeginShows, ProgressShows,
     NodesShow, CloseShows DEF Step
<1>5. ASSUME NEW q \in Requests, Fault(q) PROVE ShownInv'
  BY <1>5, FaultShows DEF Fault
<1>6. ASSUME NEW c \in Cases, DeleteCase(c) PROVE ShownInv'
  BY <1>6, DeleteCaseShows
<1>7. ASSUME NEW d \in Documents, DeleteDocument(d) PROVE ShownInv'
  BY <1>7, RestShows DEF DeleteDocument
<1>8. CASE Crash
  BY <1>8, FaultShows DEF Crash
<1> QED BY <1>1, <1>2, <1>3, <1>4, <1>5, <1>6, <1>7, <1>8 DEF Next

LEMMA OneEvent ==
  ASSUME NEW w, ledger \in Seq(TerminalEvents), ExecutedOnce(w)
  PROVE  \E i \in DOMAIN ledger : EventsOf(w) = {i}
<1>1. IsFiniteSet(1..Len(ledger)) /\ DOMAIN ledger = 1..Len(ledger)
  BY FS_Interval
<1>2. IsFiniteSet(EventsOf(w))
  BY <1>1, FS_Subset DEF EventsOf
<1>3. Cardinality(EventsOf(w)) = 1
  BY DEF ExecutedOnce, EventsOf
<1>4. PICK i : EventsOf(w) = {i}
  BY <1>2, <1>3, FS_Singleton
<1> QED BY <1>4 DEF EventsOf

(***************************************************************************)
(* A completed run that was executed once, and without a fault, shows each *)
(* of the five steps as completed (_record_progress and the first and last *)
(* transaction of _execute): a request that only looks at the run, a       *)
(* deletion or another case's analysis never leaves a step behind.         *)
(***************************************************************************)
THEOREM StepsAreShown == Spec => []CompletedShowsAllSteps
<1>1. IInv /\ ShownInv => CompletedShowsAllSteps
  <2> SUFFICES ASSUME IInv, ShownInv, NEW w \in Runs,
                      runs[w].status = "completed", ExecutedOnce(w), faults = 0,
                      \A q \in Requests : req[q].run # w
               PROVE  \A i \in WORKFLOW_STEPS : runs[w].steps[i] = "completed"
    BY DEF CompletedShowsAllSteps
  <2>1. Exists(w) /\ Executing(w) = {}
    BY DEF Exists, Executing, Executes
  <2>2. PICK i \in DOMAIN ledger : EventsOf(w) = {i}
    BY OneEvent DEF IInv, Types
  <2> QED BY <2>1, <2>2 DEF ShownInv
<1>2. Init => ShownInv
  BY InitShown
<1>3. IInv /\ ShownInv /\ [Next]_vars => ShownInv'
  BY NextShows
<1> QED
  BY Invariance, <1>1, <1>2, <1>3, PTL DEF Spec
===============================================================================
