---------------------------- MODULE EvaluationView ----------------------------
(***************************************************************************)
(* The evaluation dashboard, EvaluationView.tsx, with the runner behind    *)
(* it: one dashboard starts runs and polls them, others start runs too.    *)
(* The dashboard shows the reports on disk, which the suite of a run       *)
(* writes before it exits.                                                 *)
(***************************************************************************)
EXTENDS EvalsRunner, Sequences

VARIABLES writes, \* the runs whose suite has written the reports, in that order
          view    \* the dashboard

clientVars == <<writes, view>>
allVars == <<status, active, latest, finished, thread, process, writes, view>>

(***************************************************************************)
(* view.benchmark: where handleRunBenchmark is, and view.run the run it is *)
(* about.  view.outcome: the toast, or the error, that its last call ended *)
(* with.  view.report: how many writes the reports on display are of.      *)
(***************************************************************************)
Views ==
  [benchmark : {"idle", "posting", "accepting", "polling"}, run : Runs \cup {NoRun},
   outcome : {"none", "finished", "failed", "error"},
   loading : BOOLEAN, loadError : BOOLEAN, report : 0..Cardinality(Runs)]

EvaluationTypeOK ==
  /\ TypeOK
  /\ writes \in Seq(Runs) /\ Len(writes) <= Cardinality(Runs)
  /\ view \in Views

ClientInit ==
  /\ Init
  /\ writes = <<>>
  /\ view = [benchmark |-> "idle", run |-> NoRun, outcome |-> "none",
             loading |-> TRUE, loadError |-> FALSE, report |-> 0]

ViewOnly == UNCHANGED <<status, active, latest, finished, thread, process, writes>>

running == view.benchmark # "idle"

(***************************************************************************)
(* fetchEvalData, and its answer.  The effect at the first rendering has   *)
(* called it; Retry is offered after an error.                             *)
(***************************************************************************)
fetchEvalData(v) == [v EXCEPT !.loading = TRUE, !.loadError = FALSE]

EvalsAnswer ==
  /\ view.loading
  /\ \/ view' = [view EXCEPT !.loading = FALSE, !.report = Len(writes)]
     \/ view' = [view EXCEPT !.loading = FALSE, !.report = 0, !.loadError = TRUE]
  /\ ViewOnly

RetryEvals ==
  /\ view.loadError /\ ~view.loading
  /\ view' = fetchEvalData(view)
  /\ ViewOnly

(***************************************************************************)
(* handleRunBenchmark.  The button is on the page that the reports are on. *)
(* An identifier is left for its run: Runs bounds them.                    *)
(***************************************************************************)
Unused == {r \in Runs : status[r] = "absent"}

handleRunBenchmark ==
  /\ ~running /\ ~view.loading /\ ~view.loadError /\ Unused # {}
  /\ view' = [view EXCEPT !.benchmark = "posting", !.run = NoRun, !.outcome = "none"]
  /\ ViewOnly

Ended(outcome) == [view EXCEPT !.benchmark = "idle", !.outcome = outcome]

(***************************************************************************)
(* POST /evals/run: the runner starts a run, or refuses it, and answers    *)
(* when the thread is started.                                             *)
(***************************************************************************)
PostArrives(r) ==
  /\ view.benchmark = "posting"
  /\ Start(r)
  /\ view' = [view EXCEPT !.benchmark = "accepting", !.run = r]
  /\ UNCHANGED writes

PostRefused ==
  /\ view.benchmark = "posting" /\ SlotTaken
  /\ view' = Ended("error")
  /\ ViewOnly

PostAnswer ==
  /\ view.benchmark = "accepting" /\ thread[view.run] # "starting"
  /\ view' = IF thread[view.run] = "none" THEN Ended("error")
             ELSE [view EXCEPT !.benchmark = "polling"]
  /\ ViewOnly

(***************************************************************************)
(* poll asks until the run is done.  Then the reports are fetched again.   *)
(***************************************************************************)
\* Mutants: a run that has not begun counts as done; the reports are kept.
PollAnswerNotRunning ==
  /\ view.benchmark = "polling" /\ status[view.run] # "running"
  /\ view' = fetchEvalData(Ended(IF status[view.run] = "failed" THEN "failed" ELSE "finished"))
  /\ ViewOnly
PollAnswerWithoutFetch ==
  /\ view.benchmark = "polling" /\ status[view.run] \notin _ACTIVE_STATUSES
  /\ view' = Ended(IF status[view.run] = "failed" THEN "failed" ELSE "finished")
  /\ ViewOnly
PollAnswerNever ==
  /\ view.benchmark = "polling" /\ status[view.run] = "failed"
  /\ view' = fetchEvalData(Ended("failed"))
  /\ ViewOnly

PollAnswer ==
  /\ view.benchmark = "polling" /\ status[view.run] \notin _ACTIVE_STATUSES
  /\ view' = fetchEvalData(Ended(IF status[view.run] = "failed" THEN "failed" ELSE "finished"))
  /\ ViewOnly

(***************************************************************************)
(* A request that fails, or the timeout of poll: the dashboard lets go of  *)
(* the run, which goes on.                                                 *)
(***************************************************************************)
RequestFails ==
  /\ running
  /\ view' = Ended("error")
  /\ ViewOnly

------------------------------------------------------------------------------
(***************************************************************************)
(* The steps of the runner.  The suite has written its reports when it     *)
(* ends well, and may have when it does not.                               *)
(***************************************************************************)
ExitWriting(r) ==
  /\ Exit(r)
  /\ writes' = Append(writes, r)
  /\ UNCHANGED view

ExitWithoutReports(r) ==
  /\ Exit(r) /\ process'[r] = "crashed"
  /\ UNCHANGED clientVars

OthersStart(r) ==
  /\ Start(r) /\ (view.benchmark = "posting" => Unused # {r})
  /\ UNCHANGED clientVars

RunnerOnly(r) ==
  /\ StartThread(r) \/ StartThreadFails(r) \/ Work(r) \/ WorkFails(r)
  /\ UNCHANGED clientVars

ClientNext ==
  \/ EvalsAnswer \/ RetryEvals \/ handleRunBenchmark
  \/ PostRefused \/ PostAnswer \/ PollAnswer \/ RequestFails
  \/ \E r \in Runs : \/ PostArrives(r) \/ OthersStart(r) \/ RunnerOnly(r)
                     \/ ExitWriting(r) \/ ExitWithoutReports(r)
  \/ Rest /\ UNCHANGED clientVars

ClientSpec == ClientInit /\ [][ClientNext]_allVars

(***************************************************************************)
(* Threads run on, suites exit, and the requests of the dashboard are      *)
(* answered.  Nobody has to press the button.                              *)
(***************************************************************************)
ClientFairSpec ==
  /\ ClientSpec
  /\ WF_allVars(EvalsAnswer) /\ WF_allVars(PostAnswer) /\ WF_allVars(PollAnswer)
  /\ WF_allVars(PostRefused \/ \E r \in Runs : PostArrives(r))
  /\ \A r \in Runs :
       /\ WF_allVars((Work(r) \/ StartThread(r)) /\ UNCHANGED clientVars)
       /\ WF_allVars(ExitWriting(r) \/ ExitWithoutReports(r))

------------------------------------------------------------------------------
(***************************************************************************)
(* What the dashboard says of its run is so, when it says it and later:    *)
(* the toast "Benchmark suite finished" is of a run that completed         *)
(* (EvaluationView.tsx:75-87), whatever runs other dashboards start.       *)
(***************************************************************************)
OutcomeIsReported ==
  CASE view.outcome = "finished" -> status[view.run] = "completed"
    [] view.outcome = "failed"   -> status[view.run] = "failed"
    [] OTHER                     -> TRUE

(***************************************************************************)
(* The reports on display after the toast are at least as new as those the *)
(* run wrote (the comment at EvaluationView.tsx:53-56), although a suite   *)
(* that was left behind by its thread may still write.                     *)
(***************************************************************************)
ReportIsFresh ==
  view.outcome = "finished" /\ ~view.loading /\ ~view.loadError =>
    \E k \in 1..view.report : writes[k] = view.run

(***************************************************************************)
(* The button that was pressed comes back (EvaluationView.tsx:91-95), with *)
(* the answer, an error or the end of the run.                             *)
(***************************************************************************)
BenchmarkEnds == running ~> ~running
==============================================================================
