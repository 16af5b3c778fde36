------------------------------- MODULE CasesView -------------------------------
(***************************************************************************)
(* The case screen, CasesView.tsx: the list of cases or, when a case is    *)
(* active and its detail has come, the workspace of the case with uploads, *)
(* the analysis and its polling, and the deletion.                         *)
(*                                                                         *)
(* screen.exists and screen.latest are what the server has; runs go on     *)
(* while the screen is open.  A run that completed and one that failed are *)
(* both "ended": the screen asks for the case again and shows what it has. *)
(***************************************************************************)
EXTENDS AppShell

CONSTANTS MaxRuns,     \* bound: runs of a case
          CaseServers  \* what the server may have when the screen opens

ASSUME MaxRunsAssumption == MaxRuns \in Nat

ActiveStatuses == {"queued", "running"}
RunStatuses    == ActiveStatuses \cup {"ended"}

Unanalyzed == [n |-> 0, status |-> "ended"]
Latest     == [n : 1..MaxRuns, status : RunStatuses] \cup {Unanalyzed}

ASSUME CaseServersAssumption ==
  CaseServers \subseteq [exists : SUBSET Cases, latest : [Cases -> Latest]]

(***************************************************************************)
(* Runs as the screen knows them, polling intervals with the case that was *)
(* active when they started, and requests of the load effect: for a case   *)
(* (n = 0) or for its run n.                                               *)
(***************************************************************************)
Runs   == [case : Cases, n : 1..MaxRuns, status : RunStatuses]
Polls  == [case : Cases, n : 1..MaxRuns, from : Cases \cup {NoCase}]
Gets   == [case : Cases, n : 0..MaxRuns]
NoRun  == [case |-> NoCase, n |-> 0, status |-> "none"]
NoPoll == [case |-> NoCase, n |-> 0, from |-> NoCase]

CasesScreens ==
  [exists : SUBSET Cases, latest : [Cases -> Latest],
   caseDetail : Cases \cup {NoCase}, activeWorkflow : Runs \cup {NoRun}, detailError : BOOLEAN,
   gets : SUBSET Gets, interval : Polls \cup {NoPoll}, refreshes : SUBSET Cases,
   uploading : Cases \cup {NoCase}, uploaded : BOOLEAN, analyzing : Cases \cup {NoCase},
   creating : BOOLEAN, deleteConfirm : BOOLEAN, deleting : SUBSET Cases]

(***************************************************************************)
(* What useState starts with.                                              *)
(***************************************************************************)
CasesOpened(server) ==
  [exists |-> server.exists, latest |-> server.latest,
   caseDetail |-> NoCase, activeWorkflow |-> NoRun, detailError |-> FALSE,
   gets |-> {}, interval |-> NoPoll, refreshes |-> {},
   uploading |-> NoCase, uploaded |-> FALSE, analyzing |-> NoCase,
   creating |-> FALSE, deleteConfirm |-> FALSE, deleting |-> {}]

(***************************************************************************)
(* A mutant: a polling effect that is keyed on the status of the run only. *)
(***************************************************************************)
WithWorkflowByStatus(s, r, active) ==
  [s EXCEPT !.activeWorkflow = r,
            !.interval = IF r.status = s.activeWorkflow.status THEN @
                         ELSE IF r.status \notin ActiveStatuses THEN NoPoll
                         ELSE [case |-> r.case, n |-> r.n, from |-> active]]

(***************************************************************************)
(* setActiveWorkflow and the polling effect, which is keyed on the run and *)
(* its status and remembers the case that was active when it started.      *)
(***************************************************************************)
WithWorkflow(s, r, active) ==
  [s EXCEPT !.activeWorkflow = r,
            !.interval = IF r = s.activeWorkflow THEN @
                         ELSE IF r.status \notin ActiveStatuses THEN NoPoll
                         ELSE [case |-> r.case, n |-> r.n, from |-> active]]

(***************************************************************************)
(* The effect of a changed active case.  It cancels the requests of the    *)
(* case before: what has the answers of the active case is live.           *)
(***************************************************************************)
CasesSelect(s, c) ==
  IF c = activeCaseId THEN s
  ELSE IF c = NoCase
       THEN WithWorkflow([s EXCEPT !.caseDetail = NoCase, !.detailError = FALSE], NoRun, c)
       ELSE [s EXCEPT !.detailError = FALSE,
                      !.gets = {g \in @ : g.case # c} \cup {[case |-> c, n |-> 0]}]

CasesMounted(server, c) ==
  LET s == CasesOpened(server)
  IN  IF c = NoCase THEN s ELSE [s EXCEPT !.gets = {[case |-> c, n |-> 0]}]

Live(g) == g.case = activeCaseId

------------------------------------------------------------------------------
(***************************************************************************)
(* A mutant: a detail that does not come is not reported.                  *)
(***************************************************************************)
DetailAnswerUnreported(g) ==
  /\ g.n = 0
  /\ Become([screen EXCEPT !.gets = @ \ {g}, !.caseDetail = IF Live(g) THEN NoCase ELSE @])

(***************************************************************************)
(* The detail of the case has come, or has not.  When the case has a run,  *)
(* the run is asked for.                                                   *)
(***************************************************************************)
DetailAnswer(g) ==
  LET s == [screen EXCEPT !.gets = @ \ {g}]
      n == screen.latest[g.case].n
  IN  /\ g.n = 0
      /\ \/ ~Live(g) /\ Become(s)
         \/ /\ Live(g) /\ g.case \in screen.exists
            /\ Become(IF n = 0
                      THEN WithWorkflow([s EXCEPT !.caseDetail = g.case], NoRun, activeCaseId)
                      ELSE [s EXCEPT !.caseDetail = g.case,
                                     !.gets = @ \cup {[case |-> g.case, n |-> n]}])
         \/ Live(g) /\ Become([s EXCEPT !.caseDetail = NoCase, !.detailError = TRUE])

(***************************************************************************)
(* GET /workflows/{id}: a run that is not the latest one has ended.        *)
(***************************************************************************)
Served(c, n) ==
  [case |-> c, n |-> n,
   status |-> IF screen.latest[c].n = n THEN screen.latest[c].status ELSE "ended"]

(***************************************************************************)
(* A mutant: the run is shown although its request was cancelled.          *)
(***************************************************************************)
RunAnswerLate(g) ==
  /\ g.n > 0
  /\ Become(WithWorkflow([screen EXCEPT !.gets = @ \ {g}], Served(g.case, g.n), activeCaseId))

RunAnswer(g) ==
  LET s == [screen EXCEPT !.gets = @ \ {g}]
  IN  /\ g.n > 0
      /\ \/ ~Live(g) /\ Become(s)
         \/ /\ Live(g) /\ g.case \in screen.exists
            /\ Become(WithWorkflow(s, Served(g.case, g.n), activeCaseId))
         \/ Live(g) /\ Become(WithWorkflow([s EXCEPT !.detailError = TRUE], NoRun, activeCaseId))

(***************************************************************************)
(* An answer of the polling interval.  The end of the run is also the end  *)
(* of the interval, and asks for the case that was active at its start.  A *)
(* poll that fails ends the interval as well.                              *)
(***************************************************************************)
PollAnswer ==
  LET p == screen.interval
      r == Served(p.case, p.n)
      s == WithWorkflow(screen, r, activeCaseId)
  IN  /\ p # NoPoll
      /\ \/ /\ p.case \in screen.exists
            /\ Become(IF r.status \in ActiveStatuses THEN s
                      ELSE [s EXCEPT !.refreshes = @ \cup ({p.from} \ {NoCase})])
         \/ Become([screen EXCEPT !.interval = NoPoll])

(***************************************************************************)
(* The refreshed detail is shown whatever case is active by then.          *)
(***************************************************************************)
RefreshAnswer(c) ==
  LET s == [screen EXCEPT !.refreshes = @ \ {c}]
  IN  \/ c \in screen.exists /\ Become([s EXCEPT !.caseDetail = c])
      \/ Become([s EXCEPT !.detailError = TRUE])

------------------------------------------------------------------------------
(***************************************************************************)
(* What the user can do.  MaxInFlight bounds the requests of the load      *)
(* effect, and MaxJobs what is in flight of the rest, which starts when no *)
(* refresh is on its way.                                                  *)
(***************************************************************************)
ShowsDetail == activeCaseId # NoCase /\ screen.caseDetail # NoCase

MayLoad == Cardinality(screen.gets) < MaxInFlight

MayAct ==
  screen.refreshes = {} /\ Cardinality(screen.deleting) + Cardinality(pending)
    + Cardinality({k \in {"uploading", "analyzing"} : screen[k] # NoCase})
    + (IF screen.creating THEN 1 ELSE 0) < MaxJobs

OpenCase(c) ==
  /\ ~ShowsDetail /\ c # activeCaseId /\ MayLoad
  /\ BecomeWithCase(CasesSelect(screen, c), c)

BackToCases == ShowsDetail /\ BecomeWithCase(CasesSelect(screen, NoCase), NoCase)

DismissErrors == screen.detailError /\ Become([screen EXCEPT !.detailError = FALSE])

handleCreateCase ==
  /\ ~ShowsDetail /\ ~screen.creating /\ MayAct
  /\ Become([screen EXCEPT !.creating = TRUE])

CreateAnswer ==
  LET s == [screen EXCEPT !.creating = FALSE]
  IN  /\ screen.creating
      /\ \/ \E c \in Cases \ screen.exists :
              BecomeWithCase(CasesSelect([s EXCEPT !.exists = @ \cup {c}, !.latest[c] = Unanalyzed], c), c)
         \/ Become(s)

(***************************************************************************)
(* An upload goes to the case shown, and then asks for that case.          *)
(***************************************************************************)
handleUploadPack ==
  /\ ShowsDetail /\ screen.uploading = NoCase /\ MayAct
  /\ Become([screen EXCEPT !.uploading = screen.caseDetail, !.uploaded = FALSE])

UploadAnswer ==
  LET c == screen.uploading
      s == [screen EXCEPT !.uploading = NoCase, !.uploaded = FALSE]
  IN  /\ c # NoCase
      /\ \/ /\ ~screen.uploaded /\ c \in screen.exists
            /\ Become([screen EXCEPT !.uploaded = TRUE])
         \/ screen.uploaded /\ c \in screen.exists /\ Become([s EXCEPT !.caseDetail = c])
         \/ Become(s)

handleRunAnalysis ==
  /\ ShowsDetail /\ screen.analyzing = NoCase /\ MayAct
  /\ screen.activeWorkflow.status \notin ActiveStatuses
  /\ Become([screen EXCEPT !.analyzing = screen.caseDetail])

(***************************************************************************)
(* POST /cases/{id}/analyses answers with the run in progress, or a new    *)
(* one.                                                                    *)
(***************************************************************************)
AnalysisAnswer ==
  LET c == screen.analyzing
      s == [screen EXCEPT !.analyzing = NoCase]
      last == screen.latest[c]
      run == IF last.status \in ActiveStatuses THEN last
             ELSE [n |-> last.n + 1, status |-> "queued"]
  IN  /\ c # NoCase
      /\ \/ /\ c \in screen.exists /\ run.n \in 1..MaxRuns
            /\ Become(WithWorkflow([s EXCEPT !.latest[c] = run],
                                   [case |-> c, n |-> run.n, status |-> run.status], activeCaseId))
         \/ Become(s)

(***************************************************************************)
(* The box that confirms a deletion.  Nothing unticks it but the user.     *)
(***************************************************************************)
ConfirmDelete == ShowsDetail /\ Become([screen EXCEPT !.deleteConfirm = ~@])

handleDeleteCase ==
  /\ ShowsDetail /\ screen.deleteConfirm /\ MayAct
  /\ Become([screen EXCEPT !.deleting = @ \cup {screen.caseDetail}])

(***************************************************************************)
(* After a deletion no case is active, whichever was.                      *)
(***************************************************************************)
DeleteAnswer(c) ==
  LET s == [screen EXCEPT !.deleting = @ \ {c}]
  IN  \/ /\ c \in screen.exists
         /\ BecomeWithCase(CasesSelect([s EXCEPT !.exists = @ \ {c}], NoCase), NoCase)
      \/ Become(s)

(***************************************************************************)
(* Meanwhile a run goes on.                                                *)
(***************************************************************************)
RunGoesOn(c) ==
  /\ c \in screen.exists /\ screen.latest[c].status \in ActiveStatuses
  /\ Become([screen EXCEPT !.latest[c].status = IF @ = "queued" THEN "running" ELSE "ended"])

CasesNext ==
  /\ currentTab = "cases" /\ UNCHANGED <<currentTab, pending>>
  /\ \/ \E g \in screen.gets : DetailAnswer(g) \/ RunAnswer(g)
     \/ PollAnswer
     \/ \E c \in screen.refreshes : RefreshAnswer(c)
     \/ \E c \in screen.deleting : DeleteAnswer(c)
     \/ \E c \in Cases : OpenCase(c) \/ RunGoesOn(c)
     \/ BackToCases \/ DismissErrors
     \/ handleCreateCase \/ CreateAnswer
     \/ handleUploadPack \/ UploadAnswer
     \/ handleRunAnalysis \/ AnalysisAnswer
     \/ ConfirmDelete \/ handleDeleteCase

------------------------------------------------------------------------------
(***************************************************************************)
(* When nothing of the active case is on its way, the case shown is the    *)
(* active one and so is the case of its run.  Only what was asked for      *)
(* another case can upset that: a refresh, an upload or an accepted        *)
(* analysis (CasesView.tsx:192, 294, 334); the load effect never does      *)
(* (cancelled, CasesView.tsx:141-172), unless the case cannot be loaded,   *)
(* which keeps the run of the case before (CasesView.tsx:162-167).         *)
(***************************************************************************)
PartsAgree ==
  currentTab = "cases" /\ activeCaseId # NoCase =>
    /\ \/ [case |-> activeCaseId, n |-> 0] \in screen.gets
       \/ screen.caseDetail \in {NoCase, activeCaseId}
    /\ \/ \E g \in screen.gets : Live(g)
       \/ screen.activeWorkflow.case \in {NoCase, activeCaseId}

OnlyStrangersDisagree ==
  [][PartsAgree /\ ~PartsAgree' =>
       \/ \E c \in screen.refreshes \ screen'.refreshes : c # activeCaseId
       \/ \E k \in {"uploading", "analyzing"} :
            screen[k] \notin {NoCase, activeCaseId} /\ screen'[k] = NoCase
       \/ /\ \E g \in screen.gets \ screen'.gets : Live(g) /\ g.n = 0
          /\ screen'.detailError /\ screen'.caseDetail = NoCase]_vars

(***************************************************************************)
(* A run that is shown as active is polled until it ends: its interval is  *)
(* lost only with a poll that failed (CasesView.tsx:176-208).              *)
(***************************************************************************)
RunPolled ==
  currentTab = "cases" /\ screen.activeWorkflow.status \in ActiveStatuses =>
    /\ screen.interval.case = screen.activeWorkflow.case
    /\ screen.interval.n = screen.activeWorkflow.n

PollsStopOnlyByFailure ==
  [][RunPolled /\ ~RunPolled' =>
       screen' = [screen EXCEPT !.interval = NoPoll]]_vars

(***************************************************************************)
(* An active case without its detail is being loaded or has an error on    *)
(* display, until the user dismisses the error (CasesView.tsx:162-166).    *)
(***************************************************************************)
Silent ==
  /\ currentTab = "cases" /\ activeCaseId # NoCase /\ screen.caseDetail = NoCase
  /\ ~screen.detailError /\ \A g \in screen.gets : ~Live(g)

SilentOnlyAfterDismissal ==
  [][~Silent /\ Silent' => currentTab = "cases" /\ screen.detailError]_vars

===============================================================================
