----------------------------- MODULE EvalsRunner -----------------------------
(***************************************************************************)
(* EvalsRunner of app/services/evals_runner.py: the launcher behind        *)
(* POST /evals/run, which runs the evaluation suite in a subprocess, one   *)
(* run at a time.                                                          *)
(*                                                                         *)
(* A request creates the run under the lock and starts a worker thread     *)
(* after releasing it.  The thread changes the state of its run without    *)
(* the lock, and takes it once more at the end to give up the slot.  The   *)
(* requests, the threads and the processes interleave.                     *)
(***************************************************************************)
EXTENDS Integers, FiniteSets

CONSTANTS Runs,     \* identifiers of evaluation runs; bounds how many there are
          NoRun

ASSUME NoRunAssumption == NoRun \notin Runs

VARIABLES status,   \* status[r] of EvalRunState; "absent": not created
          active,   \* the run that self._active refers to
          latest,   \* the run that self._latest refers to
          finished, \* the runs whose completed_at is set
          thread,   \* thread[r]: where the worker of run r is
          process   \* process[r]: the subprocess of run r

vars == <<status, active, latest, finished, thread, process>>

_ACTIVE_STATUSES == {"queued", "running"}

TypeOK ==
  /\ status \in [Runs -> {"absent", "completed", "failed"} \cup _ACTIVE_STATUSES]
  /\ active \in Runs \cup {NoRun} /\ latest \in Runs \cup {NoRun}
  /\ finished \subseteq Runs
  /\ thread \in [Runs -> {"none", "starting", "begin", "launch", "communicate",
                          "finally", "release", "ended"}]
  /\ process \in [Runs -> {"none", "alive", "succeeded", "crashed"}]

Init ==
  /\ status = [r \in Runs |-> "absent"]
  /\ active = NoRun
  /\ latest = NoRun
  /\ finished = {}
  /\ thread = [r \in Runs |-> "none"]
  /\ process = [r \in Runs |-> "none"]

------------------------------------------------------------------------------
Go(r, place) == thread' = [thread EXCEPT ![r] = place]
Set(r, s) == status' = [status EXCEPT ![r] = s]

(***************************************************************************)
(* start: the critical section.  While a run is in flight the request is   *)
(* answered 409 and changes nothing.                                       *)
(***************************************************************************)
SlotTaken == IF active = NoRun THEN FALSE ELSE status[active] \in _ACTIVE_STATUSES

Start(r) ==
  /\ status[r] = "absent"
  /\ ~SlotTaken
  /\ Set(r, "queued")
  /\ active' = r
  /\ latest' = r
  /\ Go(r, "starting")
  /\ UNCHANGED <<finished, process>>

(***************************************************************************)
(* self._executor, outside the lock.  A thread that cannot be started is   *)
(* an exception of the request: the run stays queued and keeps the slot.   *)
(***************************************************************************)
StartThread(r) ==
  /\ thread[r] = "starting"
  /\ Go(r, "begin")
  /\ UNCHANGED <<status, active, latest, finished, process>>

StartThreadFails(r) ==
  /\ thread[r] = "starting"
  /\ Go(r, "none")
  /\ UNCHANGED <<status, active, latest, finished, process>>

(***************************************************************************)
(* _execute.                                                               *)
(***************************************************************************)
BeginRun(r) ==
  /\ thread[r] = "begin"
  /\ Set(r, "running")
  /\ Go(r, "launch")
  /\ UNCHANGED <<active, latest, finished, process>>

Launch(r) ==
  /\ thread[r] = "launch"
  /\ process' = [process EXCEPT ![r] = "alive"]
  /\ Go(r, "communicate")
  /\ UNCHANGED <<status, active, latest, finished>>

LaunchFails(r) ==
  /\ thread[r] = "launch"
  /\ Set(r, "failed")
  /\ Go(r, "finally")
  /\ UNCHANGED <<active, latest, finished, process>>

(***************************************************************************)
(* The subprocess ends with return code 0 or another one.                  *)
(***************************************************************************)
Exit(r) ==
  /\ process[r] = "alive"
  /\ \E code \in {"succeeded", "crashed"} : process' = [process EXCEPT ![r] = code]
  /\ UNCHANGED <<status, active, latest, finished, thread>>

Communicate(r) ==
  /\ thread[r] = "communicate"
  /\ process[r] # "alive"
  /\ Set(r, IF process[r] = "succeeded" THEN "completed" ELSE "failed")
  /\ Go(r, "finally")
  /\ UNCHANGED <<active, latest, finished, process>>

(***************************************************************************)
(* communicate raises: the run has failed, the process is left alone.      *)
(***************************************************************************)
CommunicateFails(r) ==
  /\ thread[r] = "communicate"
  /\ Set(r, "failed")
  /\ Go(r, "finally")
  /\ UNCHANGED <<active, latest, finished, process>>

(***************************************************************************)
(* The finally block: completed_at, then, under the lock, the slot, which  *)
(* is given up only if it still belongs to this run.                       *)
(***************************************************************************)
SetCompletedAt(r) ==
  /\ thread[r] = "finally"
  /\ finished' = finished \cup {r}
  /\ Go(r, "release")
  /\ UNCHANGED <<status, active, latest, process>>

\* Mutants: the slot is cleared whoever has it; or it is kept.
ReleaseAnything(r) ==
  /\ thread[r] = "release"
  /\ active' = NoRun
  /\ Go(r, "ended")
  /\ UNCHANGED <<status, latest, finished, process>>
ReleaseNothing(r) ==
  /\ thread[r] = "release"
  /\ Go(r, "ended")
  /\ UNCHANGED <<status, active, latest, finished, process>>

Release(r) ==
  /\ thread[r] = "release"
  /\ active' = IF active = r THEN NoRun ELSE active
  /\ Go(r, "ended")
  /\ UNCHANGED <<status, latest, finished, process>>

Work(r) ==
  \/ BeginRun(r)
  \/ Launch(r)
  \/ Communicate(r)
  \/ SetCompletedAt(r)
  \/ Release(r)

WorkFails(r) == LaunchFails(r) \/ CommunicateFails(r)

------------------------------------------------------------------------------
(***************************************************************************)
(* Every identifier is used, or nobody asks for a run: nothing to do.      *)
(***************************************************************************)
Rest ==
  /\ \A r \in Runs : thread[r] \in {"none", "ended"} /\ process[r] # "alive"
  /\ UNCHANGED vars

Next ==
  \/ \E r \in Runs : \/ Start(r) \/ StartThread(r) \/ StartThreadFails(r)
                     \/ Work(r) \/ WorkFails(r) \/ Exit(r)
  \/ Rest

Spec == Init /\ [][Next]_vars

------------------------------------------------------------------------------
(***************************************************************************)
(* InFlightHoldsSlot: a run in flight has the slot, however late the       *)
(* threads of earlier runs get to their finally block; so there is at most *)
(* one, and the next request is refused.                                   *)
(***************************************************************************)
InFlightHoldsSlot ==
  \A r \in Runs : status[r] \in _ACTIVE_STATUSES => active = r

(***************************************************************************)
(* SlotIsReturned: a run whose thread has started does not keep the slot   *)
(* for ever.                                                               *)
(***************************************************************************)
SlotIsReturned == \A r \in Runs : thread[r] = "begin" ~> active # r
==============================================================================
