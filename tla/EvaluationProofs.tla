--------------------------- MODULE EvaluationProofs ---------------------------
(***************************************************************************)
(* Proofs about EvalsRunner and EvaluationView, for any number of runs:    *)
(* the slot of the runner, and what the dashboard says of its run.         *)
(***************************************************************************)
EXTENDS EvaluationView, TLAPS

(***************************************************************************)
(* Why InFlightHoldsSlot is kept: what the thread of a run is about to do  *)
(* tells whether the run is in flight.  A thread before its finally block  *)
(* is the thread of a run in flight, which has the slot by the invariant;  *)
(* a thread in it belongs to a run that is over, so the slot it gives up   *)
(* is nobody else's.                                                       *)
(***************************************************************************)
Working == {"starting", "begin", "launch", "communicate"}
Over == {"finally", "release", "ended"}

ThreadTellsStatus ==
  \A r \in Runs : /\ thread[r] \in Working => status[r] \in _ACTIVE_STATUSES
                  /\ thread[r] \in Over => status[r] \notin _ACTIVE_STATUSES

IInv == TypeOK /\ ThreadTellsStatus /\ InFlightHoldsSlot

(***************************************************************************)
(* InitEstablishesIInv: no run exists in the beginning.                    *)
(***************************************************************************)
LEMMA InitEstablishesIInv == Init => IInv
BY NoRunAssumption DEF Init, IInv, TypeOK, ThreadTellsStatus, InFlightHoldsSlot,
   Working, Over, _ACTIVE_STATUSES

(***************************************************************************)
(* StartKeepsIInv: a request that passes the test finds no run in flight,  *)
(* for a run in flight would have the slot.                                *)
(***************************************************************************)
LEMMA StartKeepsIInv == ASSUME IInv, NEW r \in Runs, Start(r) PROVE IInv'
<1>1. \A s \in Runs : status[s] \notin _ACTIVE_STATUSES
  BY NoRunAssumption DEF IInv, InFlightHoldsSlot, Start, SlotTaken
<1>2. TypeOK'
  BY DEF IInv, TypeOK, Start, Set, Go, _ACTIVE_STATUSES
<1>3. ThreadTellsStatus'
  BY DEF IInv, TypeOK, ThreadTellsStatus, Start, Set, Go, Working, Over, _ACTIVE_STATUSES
<1>4. InFlightHoldsSlot'
  BY <1>1 DEF IInv, TypeOK, InFlightHoldsSlot, Start, Set
<1> QED BY <1>2, <1>3, <1>4 DEF IInv

(***************************************************************************)
(* ThreadKeepsIInv: starting the worker, or failing to, changes no status. *)
(***************************************************************************)
LEMMA ThreadKeepsIInv ==
  ASSUME IInv, NEW r \in Runs, StartThread(r) \/ StartThreadFails(r)
  PROVE  IInv'
<1>1. TypeOK'
  BY DEF IInv, TypeOK, StartThread, StartThreadFails, Go
<1>2. ThreadTellsStatus'
  BY DEF IInv, TypeOK, ThreadTellsStatus, StartThread, StartThreadFails, Go, Working, Over
<1>3. InFlightHoldsSlot'
  BY DEF IInv, InFlightHoldsSlot, StartThread, StartThreadFails
<1> QED BY <1>1, <1>2, <1>3 DEF IInv

(***************************************************************************)
(* WorkKeepsIInv: no step of a worker puts another run in flight or takes  *)
(* the slot from one, whether its calls succeed or raise.                  *)
(***************************************************************************)
LEMMA WorkKeepsIInv ==
  ASSUME IInv, NEW r \in Runs, Work(r) \/ WorkFails(r)
  PROVE  IInv'
<1> USE DEF IInv, TypeOK, _ACTIVE_STATUSES
<1>1. CASE BeginRun(r)
  BY <1>1 DEF BeginRun, Set, Go, ThreadTellsStatus, InFlightHoldsSlot, Working, Over
<1>2. CASE Launch(r)
  BY <1>2 DEF Launch, Go, ThreadTellsStatus, InFlightHoldsSlot, Working, Over
<1>3. CASE Communicate(r)
  BY <1>3 DEF Communicate, Set, Go, ThreadTellsStatus, InFlightHoldsSlot, Working, Over
<1>4. CASE SetCompletedAt(r)
  BY <1>4 DEF SetCompletedAt, Go, ThreadTellsStatus, InFlightHoldsSlot, Working, Over
<1>5. CASE Release(r)
  <2>1. status[r] \notin _ACTIVE_STATUSES
    BY <1>5 DEF Release, ThreadTellsStatus, Over
  <2>2. InFlightHoldsSlot'
    BY <1>5, <2>1 DEF Release, InFlightHoldsSlot
  <2>3. TypeOK' /\ ThreadTellsStatus'
    BY <1>5 DEF Release, Go, ThreadTellsStatus, Working, Over
  <2> QED BY <2>2, <2>3
<1>6. CASE LaunchFails(r)
  BY <1>6 DEF LaunchFails, Set, Go, ThreadTellsStatus, InFlightHoldsSlot, Working, Over
<1>7. CASE CommunicateFails(r)
  BY <1>7 DEF CommunicateFails, Set, Go, ThreadTellsStatus, InFlightHoldsSlot, Working, Over
<1> QED BY <1>1, <1>2, <1>3, <1>4, <1>5, <1>6, <1>7 DEF Work, WorkFails

(***************************************************************************)
(* StepKeepsIInv: every step, the end of a process and stuttering included,*)
(* keeps the invariant.                                                    *)
(***************************************************************************)
LEMMA StepKeepsIInv == IInv /\ [Next]_vars => IInv'
<1> SUFFICES ASSUME IInv, [Next]_vars PROVE IInv'
  OBVIOUS
<1>1. ASSUME NEW r \in Runs, Exit(r) PROVE IInv'
  BY <1>1 DEF Exit, IInv, TypeOK, ThreadTellsStatus, InFlightHoldsSlot
<1>2. CASE UNCHANGED vars
  BY <1>2 DEF vars, IInv, TypeOK, ThreadTellsStatus, InFlightHoldsSlot
<1> QED
  BY <1>1, <1>2, StartKeepsIInv, ThreadKeepsIInv, WorkKeepsIInv DEF Next, Rest

(***************************************************************************)
(* SingleFlight: in every behaviour, a run in flight has the slot, so that *)
(* the launcher never has two runs in flight (EvalsRunner of               *)
(* app/services/evals_runner.py), for any number of requests, threads that *)
(* are late and calls that raise.                                          *)
(***************************************************************************)
THEOREM SingleFlight == Spec => []InFlightHoldsSlot
<1>1. IInv => InFlightHoldsSlot
  BY DEF IInv
<1> QED BY InitEstablishesIInv, StepKeepsIInv, <1>1, PTL DEF Spec

(***************************************************************************)
(* RunnerTypeCorrect: the state of the launcher always has its type.       *)
(***************************************************************************)
THEOREM RunnerTypeCorrect == Spec => []TypeOK
<1>1. IInv => TypeOK
  BY DEF IInv
<1> QED BY InitEstablishesIInv, StepKeepsIInv, <1>1, PTL DEF Spec

------------------------------------------------------------------------------
(***************************************************************************)
(* The runner with the dashboard.  What the dashboard says rests on three  *)
(* things: a run that is over stays as it ended, a run that completed has  *)
(* written its reports before the dashboard could hear of it, and what a   *)
(* fetch shows is never newer than what is written.                        *)
(***************************************************************************)
Written(r) == \E k \in 1..Len(writes) : writes[k] = r

CompletedIsWritten ==
  \A r \in Runs : status[r] = "completed" \/ process[r] = "succeeded" => Written(r)

ViewIsSound ==
  /\ writes \in Seq(Runs)
  /\ view \in [benchmark : {"idle", "posting", "accepting", "polling"}, run : Runs \cup {NoRun},
               outcome : {"none", "finished", "failed", "error"},
               loading : BOOLEAN, loadError : BOOLEAN, report : 0..Len(writes)]
  /\ view.benchmark \in {"accepting", "polling"} =>
       view.run \in Runs /\ status[view.run] # "absent"
  /\ view.outcome \in {"finished", "failed"} => view.run \in Runs /\ ~running

ClientInv == IInv /\ CompletedIsWritten /\ ViewIsSound /\ OutcomeIsReported /\ ReportIsFresh

\* A run that is over stays as it ended, and no run ceases to exist.
StatusIsFinal ==
  \A r \in Runs : /\ status[r] \in {"completed", "failed"} => status'[r] = status[r]
                  /\ status[r] # "absent" => status'[r] # "absent"

(***************************************************************************)
(* The dashboard does nothing to the runner that the runner does not do.   *)
(***************************************************************************)
LEMMA ClientStepIsRunnerStep == [ClientNext]_allVars => [Next]_vars
BY DEF ClientNext, allVars, vars, Next, EvalsAnswer, RetryEvals, handleRunBenchmark, PostArrives,
       PostRefused, PostAnswer, PollAnswer, RequestFails, ExitWriting, ExitWithoutReports,
       OthersStart, RunnerOnly, ViewOnly

LEMMA StepIsFinal == IInv /\ [Next]_vars => StatusIsFinal
<1> SUFFICES ASSUME IInv, [Next]_vars, NEW r \in Runs
             PROVE  /\ status[r] \in {"completed", "failed"} => status'[r] = status[r]
                    /\ status[r] # "absent" => status'[r] # "absent"
  BY DEF StatusIsFinal
<1> USE DEF IInv, TypeOK, _ACTIVE_STATUSES
<1>1. ASSUME NEW s \in Runs, Start(s)
      PROVE  /\ status[r] \in {"completed", "failed"} => status'[r] = status[r]
             /\ status[r] # "absent" => status'[r] # "absent"
  BY <1>1 DEF Start, Set
<1>2. ASSUME NEW s \in Runs, Work(s) \/ WorkFails(s)
      PROVE  /\ status[r] \in {"completed", "failed"} => status'[r] = status[r]
             /\ status[r] # "absent" => status'[r] # "absent"
  <2>1. thread[s] \in {"begin", "launch", "communicate"} => status[s] \in _ACTIVE_STATUSES
    BY DEF ThreadTellsStatus, Working
  <2> QED
    BY <1>2, <2>1 DEF Work, WorkFails, BeginRun, Launch, Communicate, SetCompletedAt, Release,
       LaunchFails, CommunicateFails, Set
<1>3. CASE UNCHANGED status
  BY <1>3
<1> QED
  BY <1>1, <1>2, <1>3 DEF Next, vars, Rest, StartThread, StartThreadFails, Exit

(***************************************************************************)
(* The steps of the runner, seen by the dashboard.                         *)
(***************************************************************************)
LEMMA RunnerStepKeeps ==
  ASSUME ClientInv, [Next]_vars, StatusIsFinal, IInv', CompletedIsWritten', UNCHANGED view,
         writes' \in Seq(Runs), Len(writes) <= Len(writes'),
         \A k \in 1..Len(writes) : writes'[k] = writes[k]
  PROVE  ClientInv'
<1>1. Len(writes) \in Nat /\ Len(writes') \in Nat
  BY DEF ClientInv, ViewIsSound
<1>2. ViewIsSound'
  <2>1. view.report \in 0..Len(writes')
    BY <1>1 DEF ClientInv, ViewIsSound
  <2> QED
    BY <2>1 DEF ClientInv, ViewIsSound, StatusIsFinal, running
<1>3. OutcomeIsReported'
  BY DEF ClientInv, ViewIsSound, OutcomeIsReported, StatusIsFinal
<1>4. ReportIsFresh'
  <2>1. \A k \in 1..view.report : writes'[k] = writes[k]
    BY <1>1 DEF ClientInv, ViewIsSound
  <2> QED
    BY <2>1 DEF ClientInv, ReportIsFresh
<1> QED
  BY <1>2, <1>3, <1>4 DEF ClientInv

\* A step of the runner that leaves the reports alone.
LEMMA NoReportKeeps ==
  ASSUME ClientInv, [Next]_vars, StatusIsFinal, IInv', UNCHANGED <<writes, view>>,
         \A r \in Runs : \/ status'[r] # "completed" \/ status[r] = "completed"
                        \/ process[r] = "succeeded",
         \A r \in Runs : process'[r] = "succeeded" => process[r] = "succeeded"
  PROVE  ClientInv'
<1>1. CompletedIsWritten'
  BY DEF ClientInv, CompletedIsWritten, Written
<1> QED
  BY <1>1, RunnerStepKeeps DEF ClientInv, ViewIsSound

LEMMA ExitWritingKeeps ==
  ASSUME ClientInv, [Next]_vars, StatusIsFinal, IInv', NEW r \in Runs, ExitWriting(r)
  PROVE  ClientInv'
<1>1. /\ writes' = Append(writes, r) /\ UNCHANGED <<view, status>> /\ writes \in Seq(Runs)
      /\ \A s \in Runs \ {r} : process'[s] = process[s]
  BY DEF ExitWriting, Exit, ClientInv, ViewIsSound, IInv, TypeOK
<1>2. /\ writes' \in Seq(Runs) /\ Len(writes') = Len(writes) + 1 /\ Len(writes) \in Nat
      /\ writes'[Len(writes) + 1] = r /\ \A k \in 1..Len(writes) : writes'[k] = writes[k]
  BY <1>1
<1>3. \A s : Written(s) => Written(s)'
  BY <1>2 DEF Written
<1>4. Written(r)'
  BY <1>2 DEF Written
<1>5. CompletedIsWritten'
  BY <1>1, <1>3, <1>4 DEF ClientInv, CompletedIsWritten
<1> QED
  BY <1>1, <1>2, <1>5, RunnerStepKeeps

(***************************************************************************)
(* The steps of the dashboard.                                             *)
(***************************************************************************)
LEMMA ViewStepKeeps ==
  ASSUME ClientInv, ViewOnly,
         view' \in [benchmark : {"idle", "posting", "accepting", "polling"},
                   run : Runs \cup {NoRun}, outcome : {"none", "finished", "failed", "error"},
                   loading : BOOLEAN, loadError : BOOLEAN, report : 0..Len(writes)],
         view'.benchmark \in {"accepting", "polling"} =>
           view'.run \in Runs /\ status[view'.run] # "absent",
         view'.outcome \in {"finished", "failed"} =>
           view'.run \in Runs /\ view'.benchmark = "idle",
         view'.outcome = "finished" => status[view'.run] = "completed",
         view'.outcome = "failed" => status[view'.run] = "failed",
         view'.outcome = "finished" /\ ~view'.loading /\ ~view'.loadError =>
           \E k \in 1..view'.report : writes[k] = view'.run
  PROVE  ClientInv'
<1>1. IInv'
  BY DEF ClientInv, ViewOnly, IInv, TypeOK, ThreadTellsStatus, InFlightHoldsSlot
<1>2. CompletedIsWritten'
  BY DEF ClientInv, ViewOnly, CompletedIsWritten, Written
<1>3. ViewIsSound'
  BY DEF ClientInv, ViewOnly, ViewIsSound, running
<1>4. OutcomeIsReported' /\ ReportIsFresh'
  BY DEF ViewOnly, OutcomeIsReported, ReportIsFresh
<1> QED
  BY <1>1, <1>2, <1>3, <1>4 DEF ClientInv

LEMMA DashboardKeeps ==
  ASSUME ClientInv,
         \/ EvalsAnswer \/ RetryEvals \/ handleRunBenchmark
         \/ PostRefused \/ PostAnswer \/ PollAnswer \/ RequestFails
  PROVE  ClientInv'
<1>1. /\ ViewIsSound /\ OutcomeIsReported /\ ReportIsFresh /\ CompletedIsWritten
      /\ status \in [Runs -> {"absent", "completed", "failed"} \cup _ACTIVE_STATUSES]
      /\ Len(writes) \in Nat
  BY DEF ClientInv, IInv, TypeOK, ViewIsSound
<1> USE <1>1 DEF ViewIsSound, OutcomeIsReported, Ended, fetchEvalData, running
<1>2. CASE EvalsAnswer
  <2>1. CASE view' = [view EXCEPT !.loading = FALSE, !.report = Len(writes)]
    <3>1. view.outcome = "finished" => \E k \in 1..Len(writes) : writes[k] = view.run
      BY DEF CompletedIsWritten, Written
    <3>2. Len(writes) \in 0..Len(writes)
      OBVIOUS
    <3>3. ViewOnly
      BY <1>2 DEF EvalsAnswer
    <3> QED
      BY <2>1, <3>1, <3>2, <3>3, ViewStepKeeps
  <2>2. CASE view' = [view EXCEPT !.loading = FALSE, !.report = 0, !.loadError = TRUE]
    <3>1. ViewOnly /\ 0 \in 0..Len(writes)
      BY <1>2 DEF EvalsAnswer
    <3> QED
      BY <2>2, <3>1, ViewStepKeeps
  <2> QED
    BY <1>2, <2>1, <2>2 DEF EvalsAnswer
<1>3. CASE RetryEvals
  BY <1>3, ViewStepKeeps DEF RetryEvals
<1>4. CASE handleRunBenchmark
  BY <1>4, ViewStepKeeps DEF handleRunBenchmark
<1>5. CASE PostRefused \/ RequestFails
  BY <1>5, ViewStepKeeps DEF PostRefused, RequestFails
<1>6. CASE PostAnswer
  <2>1. CASE view' = Ended("error")
    BY <1>6, <2>1, ViewStepKeeps DEF PostAnswer
  <2>2. CASE view' = [view EXCEPT !.benchmark = "polling"]
    BY <1>6, <2>2, ViewStepKeeps DEF PostAnswer, ReportIsFresh
  <2> QED
    BY <1>6, <2>1, <2>2 DEF PostAnswer
<1>7. CASE PollAnswer
  <2>1. view.run \in Runs /\ status[view.run] \in {"completed", "failed"}
    BY <1>7 DEF PollAnswer
  <2> QED
    BY <1>7, <2>1, ViewStepKeeps DEF PollAnswer
<1> QED
  BY <1>2, <1>3, <1>4, <1>5, <1>6, <1>7

LEMMA PostArrivesKeeps ==
  ASSUME ClientInv, StatusIsFinal, IInv', NEW r \in Runs, PostArrives(r)
  PROVE  ClientInv'
<1>1. /\ status \in [Runs -> {"absent", "completed", "failed"} \cup _ACTIVE_STATUSES]
      /\ status' = [status EXCEPT ![r] = "queued"] /\ UNCHANGED <<process, writes>>
      /\ view' = [view EXCEPT !.benchmark = "accepting", !.run = r]
      /\ view.benchmark = "posting"
  BY DEF ClientInv, IInv, TypeOK, PostArrives, Start, Set
<1>2. CompletedIsWritten'
  BY <1>1 DEF ClientInv, CompletedIsWritten, Written
<1>3. view.outcome \notin {"finished", "failed"}
  BY <1>1 DEF ClientInv, ViewIsSound, running
<1>4. ViewIsSound'
  BY <1>1, <1>3 DEF ClientInv, ViewIsSound, running
<1>5. OutcomeIsReported' /\ ReportIsFresh'
  BY <1>1, <1>3 DEF ClientInv, ViewIsSound, OutcomeIsReported, ReportIsFresh
<1> QED
  BY <1>2, <1>4, <1>5 DEF ClientInv

LEMMA ClientStart == ClientInit => ClientInv
<1> SUFFICES ASSUME ClientInit PROVE ClientInv
  OBVIOUS
<1>1. IInv
  BY InitEstablishesIInv DEF ClientInit
<1>2. ViewIsSound
  BY DEF ClientInit, ViewIsSound, running
<1>3. CompletedIsWritten
  BY DEF ClientInit, Init, CompletedIsWritten
<1>4. OutcomeIsReported /\ ReportIsFresh
  BY DEF ClientInit, OutcomeIsReported, ReportIsFresh
<1> QED
  BY <1>1, <1>2, <1>3, <1>4 DEF ClientInv

LEMMA ClientStep == ClientInv /\ [ClientNext]_allVars => ClientInv'
<1> SUFFICES ASSUME ClientInv, [ClientNext]_allVars PROVE ClientInv'
  OBVIOUS
<1>1. [Next]_vars /\ IInv' /\ StatusIsFinal
  BY ClientStepIsRunnerStep, StepKeepsIInv, StepIsFinal DEF ClientInv
<1>2. \/ EvalsAnswer \/ RetryEvals \/ handleRunBenchmark \/ PostRefused \/ PostAnswer
      \/ PollAnswer \/ RequestFails \/ (\E r \in Runs : PostArrives(r) \/ ExitWriting(r))
      => ClientInv'
  BY <1>1, DashboardKeeps, PostArrivesKeeps, ExitWritingKeeps
<1>3. ASSUME NEW r \in Runs, OthersStart(r) \/ RunnerOnly(r) \/ ExitWithoutReports(r)
      PROVE  ClientInv'
  <2>1. TypeOK /\ UNCHANGED <<writes, view>>
    BY <1>3 DEF ClientInv, IInv, OthersStart, RunnerOnly, ExitWithoutReports, clientVars
  <2>2. Start(r) \/ StartThread(r) \/ StartThreadFails(r) \/ Work(r) \/ WorkFails(r)
        \/ (Exit(r) /\ process'[r] = "crashed")
    BY <1>3 DEF OthersStart, RunnerOnly, ExitWithoutReports
  <2>3. \A s \in Runs : \/ status'[s] # "completed" \/ status[s] = "completed"
                       \/ process[s] = "succeeded"
    BY <2>1, <2>2 DEF TypeOK, Start, StartThread, StartThreadFails, Work, WorkFails, BeginRun,
       Launch, Communicate, SetCompletedAt, Release, LaunchFails, CommunicateFails, Exit, Set
  <2>4. \A s \in Runs : process'[s] = "succeeded" => process[s] = "succeeded"
    BY <2>1, <2>2 DEF TypeOK, Start, StartThread, StartThreadFails, Work, WorkFails, BeginRun,
       Launch, Communicate, SetCompletedAt, Release, LaunchFails, CommunicateFails, Exit
  <2> QED
    BY <1>1, <2>1, <2>3, <2>4, NoReportKeeps
<1>4. CASE UNCHANGED allVars \/ (Rest /\ UNCHANGED clientVars)
  BY <1>1, <1>4, NoReportKeeps DEF allVars, clientVars, Rest, vars
<1> QED
  BY <1>2, <1>3, <1>4 DEF ClientNext

THEOREM ClientInvariance == ClientSpec => []ClientInv
<1> QED
  BY ClientStart, ClientStep, PTL DEF ClientSpec

(***************************************************************************)
(* The runner behind the dashboard is the runner: whatever dashboards do   *)
(* and suites write, its state changes as EvalsRunner says.                *)
(***************************************************************************)
THEOREM RunnerServesDashboard == ClientSpec => Spec
<1>1. ClientInit => Init
  BY DEF ClientInit
<1> QED
  BY <1>1, ClientStepIsRunnerStep, PTL DEF ClientSpec, Spec

(***************************************************************************)
(* The dashboard calls its run finished, or failed, only when it is, and   *)
(* that stays so, whatever other dashboards start.                         *)
(***************************************************************************)
THEOREM OutcomesAreTrue == ClientSpec => []OutcomeIsReported
<1>1. ClientInv => OutcomeIsReported
  BY DEF ClientInv
<1> QED
  BY <1>1, ClientInvariance, PTL

(***************************************************************************)
(* After a run that finished, the reports on display are those it wrote or *)
(* newer ones, whatever suites are still writing.                          *)
(***************************************************************************)
THEOREM ReportsAreFresh == ClientSpec => []ReportIsFresh
<1>1. ClientInv => ReportIsFresh
  BY DEF ClientInv
<1> QED
  BY <1>1, ClientInvariance, PTL
===============================================================================
