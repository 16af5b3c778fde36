----------------------------- MODULE ReviewQueue -----------------------------
(***************************************************************************)
(* The human review queue: ReviewService of app/services/reviews.py, the   *)
(* single and batch endpoints of app/api/routes/reviews.py, and the        *)
(* deletion of a case, which cascades to its findings.                     *)
(*                                                                         *)
(* A session serves one request.  decide and resolve read the task, check  *)
(* its status in Python, and write it back in the same transaction without *)
(* locking it first; between any two round trips other sessions run.  What *)
(* orders them is PostgreSQL: an UPDATE takes the lock of the row it       *)
(* writes, append_event takes the advisory lock, and all locks are held    *)
(* until the transaction ends.  Writes become visible at the commit.       *)
(*                                                                         *)
(* When a task belongs to a case, reading the case makes the session flush *)
(* the changed task first, so the order of the locks is task, ledger, case *)
(* (the changed case is flushed by the tail query).  Deleting a case locks *)
(* the case, then its tasks.  The orders disagree, and PostgreSQL breaks   *)
(* the deadlocks that follow by aborting a transaction.                    *)
(*                                                                         *)
(* The ledger is the append-only log that AuditLedger implements; here it  *)
(* keeps, of each event, the task, the decision and who took it.  The      *)
(* session stands for the reviewer who sent the request.                   *)
(***************************************************************************)
EXTENDS Integers, Sequences, FiniteSets, Functions

CONSTANTS Sessions,   \* requests that may be in progress at the same time
          Tasks,      \* findings
          Cases,
          CaseOf,     \* CaseOf[k]: the case of task k, or NoCase
          NoCase,
          Nobody,     \* owner of a lock that is free, reviewer of an undecided task
          MaxBatch,   \* bound: findings in one request
          MaxEvents   \* bound: no review is requested once the ledger has as many events

ASSUME CaseOfAssumption == CaseOf \in [Tasks -> Cases \cup {NoCase}]
ASSUME BoundsAssumption == MaxBatch \in Nat /\ MaxEvents \in Nat
ASSUME SentinelAssumption == NoCase \notin Cases /\ Nobody \notin Sessions
ASSUME LocksAssumption == Tasks \cap Cases = {} /\ "ledger" \notin Tasks \cup Cases

VARIABLES status,     \* status[k]: column of review_tasks, or "absent", "deleted"
          reviewer,   \* reviewer[k]: who took the decision on the row
          caseExists, \* caseExists[c]: the cases row is there
          ledger,     \* committed review events of audit_events, oldest first
          owner,      \* owner[l]: session that holds lock l
          sess        \* sess[s]: the request that session s serves

vars == <<status, reviewer, caseExists, ledger, owner, sess>>

Decisions == {"APPROVED", "REJECTED"}
Statuses == {"absent", "deleted", "OPEN", "RESOLVED"} \cup Decisions
Operations == Decisions \cup {"RESOLVED"}     \* the status the request writes

Ledger == "ledger"                            \* LEDGER_LOCK_KEY
Locks == Tasks \cup Cases \cup {Ledger}

IdleSession == [pc |-> "idle", op |-> "RESOLVED", queue |-> <<>>, actor |-> Nobody,
                case |-> NoCase]

Steps == {"idle", "select", "loaded", "append", "flush", "commit",
          "delete_case", "cascade"}

Session == [pc : Steps, op : Operations, queue : Seq(Tasks),
            actor : Sessions \cup {Nobody}, case : Cases \cup {NoCase}]
ReviewEvent == [task : Tasks, action : Operations, actor : Sessions]

TypeOK ==
  /\ status \in [Tasks -> Statuses]
  /\ reviewer \in [Tasks -> Sessions \cup {Nobody}]
  /\ caseExists \in [Cases -> BOOLEAN]
  /\ ledger \in Seq(ReviewEvent)
  /\ owner \in [Locks -> Sessions \cup {Nobody}]
  /\ sess \in [Sessions -> Session]
  /\ \A s \in Sessions :
       /\ sess[s].pc \in {"select", "loaded", "append", "flush", "commit"} =>
            sess[s].queue # <<>>
       /\ sess[s].pc \in {"delete_case", "cascade"} => sess[s].case \in Cases

Init ==
  /\ status = [k \in Tasks |-> "absent"]
  /\ reviewer = [k \in Tasks |-> Nobody]
  /\ caseExists = [c \in Cases |-> TRUE]
  /\ ledger = <<>>
  /\ owner = [l \in Locks |-> Nobody]
  /\ sess = [s \in Sessions |-> IdleSession]

------------------------------------------------------------------------------
Current(s) == Head(sess[s].queue)
HasCase(k) == CaseOf[k] # NoCase
Findings(c) == {k \in Tasks : CaseOf[k] = c /\ status[k] \notin {"absent", "deleted"}}

GoTo(s, pc) == sess' = [sess EXCEPT ![s].pc = pc]
NextItem(s) ==
  LET p == sess[s]
  IN  sess' = [sess EXCEPT ![s] =
                 IF Len(p.queue) > 1
                 THEN [p EXCEPT !.pc = "select", !.queue = Tail(p.queue), !.actor = Nobody]
                 ELSE IdleSession]

Take(s, l) == owner[l] = Nobody /\ owner' = [owner EXCEPT ![l] = s]
\* Mutant: the ledger lock belongs to the session, not to the transaction.
UnlockedRows(s) == [l \in Locks |-> IF owner[l] = s /\ l # Ledger THEN Nobody ELSE owner[l]]
Unlocked(s) == [l \in Locks |-> IF owner[l] = s THEN Nobody ELSE owner[l]]

(***************************************************************************)
(* create_many: the case row is updated before the tasks are inserted, so  *)
(* a case being deleted or decided upon makes it wait.  The insert of a    *)
(* finding whose case and run are gone fails and leaves nothing.           *)
(***************************************************************************)
CreateTask(k) ==
  /\ status[k] = "absent"
  /\ HasCase(k) => caseExists[CaseOf[k]] /\ owner[CaseOf[k]] = Nobody
  /\ status' = [status EXCEPT ![k] = "OPEN"]
  /\ UNCHANGED <<reviewer, caseExists, ledger, owner, sess>>

(***************************************************************************)
(* POST /reviews/{id}/approve, /reject and /resolve are a batch of one;    *)
(* POST /reviews/batch goes through its distinct ids in the order given,   *)
(* one transaction each.                                                   *)
(***************************************************************************)
Batches == {q \in UNION {[1..n -> Tasks] : n \in 1..MaxBatch} :
              \A i, j \in DOMAIN q : q[i] = q[j] => i = j}

StartReview(s, op, ids) ==
  /\ sess[s].pc = "idle"
  /\ Len(ledger) < MaxEvents
  /\ sess' = [sess EXCEPT ![s] = [IdleSession EXCEPT !.pc = "select",
                                    !.op = op, !.queue = ids]]
  /\ UNCHANGED <<status, reviewer, caseExists, ledger, owner>>

(***************************************************************************)
(* session.get and the check of the status.  A task that is not found or   *)
(* has the wrong status is reported and the batch goes on.  resolve keeps  *)
(* the reviewer it read: its event names that reviewer.                    *)
(***************************************************************************)
MayWrite(op, current) ==
  IF op \in Decisions THEN current = "OPEN" ELSE current \in Decisions

\* Mutant: the event of resolve names who resolved, not who decided.
LoadTaskAsSelf(s) ==
  /\ sess[s].pc = "select"
  /\ IF MayWrite(sess[s].op, status[Current(s)])
     THEN sess' = [sess EXCEPT
            ![s].pc = IF HasCase(Current(s)) THEN "loaded" ELSE "append",
            ![s].actor = s]
     ELSE NextItem(s)
  /\ UNCHANGED <<status, reviewer, caseExists, ledger, owner>>

LoadTask(s) ==
  /\ sess[s].pc = "select"
  /\ IF MayWrite(sess[s].op, status[Current(s)])
     THEN sess' = [sess EXCEPT
            ![s].pc = IF HasCase(Current(s)) THEN "loaded" ELSE "append",
            ![s].actor = IF sess[s].op \in Decisions THEN s ELSE reviewer[Current(s)]]
     ELSE NextItem(s)
  /\ UNCHANGED <<status, reviewer, caseExists, ledger, owner>>

(***************************************************************************)
(* The flush that reading the case triggers: UPDATE review_tasks.          *)
(***************************************************************************)
FlushTask(s) ==
  /\ sess[s].pc = "loaded"
  /\ status[Current(s)] # "deleted"
  /\ Take(s, Current(s))
  /\ GoTo(s, "append")
  /\ UNCHANGED <<status, reviewer, caseExists, ledger>>

TakeLedgerLock(s) ==
  /\ sess[s].pc = "append"
  /\ Take(s, Ledger)
  /\ GoTo(s, "flush")
  /\ UNCHANGED <<status, reviewer, caseExists, ledger>>

(***************************************************************************)
(* The tail query flushes what is still unwritten: the case's updated_at,  *)
(* or the task itself when it has no case.                                 *)
(***************************************************************************)
LastRow(k) == IF HasCase(k) THEN CaseOf[k] ELSE k

FlushBeforeTail(s) ==
  /\ sess[s].pc = "flush"
  /\ Take(s, LastRow(Current(s)))
  /\ GoTo(s, "commit")
  /\ UNCHANGED <<status, reviewer, caseExists, ledger>>

(***************************************************************************)
(* INSERT INTO audit_events and COMMIT.  decide writes status and reviewer,*)
(* resolve only the status.                                                *)
(***************************************************************************)
\* Mutant: resolve overwrites the reviewer of the row.
CommitWithReviewer(s) ==
  LET k == Current(s)
  IN  /\ sess[s].pc = "commit"
      /\ status' = [status EXCEPT ![k] = sess[s].op]
      /\ reviewer' = [reviewer EXCEPT ![k] = s]
      /\ ledger' = Append(ledger, [task |-> k, action |-> sess[s].op,
                                   actor |-> sess[s].actor])
      /\ owner' = Unlocked(s)
      /\ NextItem(s)
      /\ UNCHANGED caseExists

CommitReview(s) ==
  LET k == Current(s)
  IN  /\ sess[s].pc = "commit"
      /\ status' = [status EXCEPT ![k] = sess[s].op]
      /\ reviewer' = [reviewer EXCEPT ![k] = IF sess[s].op \in Decisions THEN s ELSE @]
      /\ ledger' = Append(ledger, [task |-> k, action |-> sess[s].op,
                                   actor |-> sess[s].actor])
      /\ owner' = Unlocked(s)
      /\ NextItem(s)
      /\ UNCHANGED caseExists

(***************************************************************************)
(* DELETE /cases/{id}: the case row, then each finding the cascade finds.  *)
(* A case deleted by somebody else in the meantime leaves nothing to do.   *)
(***************************************************************************)
StartDelete(s, c) ==
  /\ sess[s].pc = "idle"
  /\ caseExists[c]
  /\ sess' = [sess EXCEPT ![s] = [IdleSession EXCEPT !.pc = "delete_case", !.case = c]]
  /\ UNCHANGED <<status, reviewer, caseExists, ledger, owner>>

LockCase(s) ==
  /\ sess[s].pc = "delete_case"
  /\ IF caseExists[sess[s].case]
     THEN Take(s, sess[s].case) /\ GoTo(s, "cascade")
     ELSE sess' = [sess EXCEPT ![s] = IdleSession] /\ UNCHANGED owner
  /\ UNCHANGED <<status, reviewer, caseExists, ledger>>

LockFinding(s, k) ==
  /\ sess[s].pc = "cascade"
  /\ k \in Findings(sess[s].case)
  /\ Take(s, k)
  /\ UNCHANGED <<status, reviewer, caseExists, ledger, sess>>

CommitDelete(s) ==
  LET c == sess[s].case
  IN  /\ sess[s].pc = "cascade"
      /\ \A k \in Findings(c) : owner[k] = s
      /\ caseExists' = [caseExists EXCEPT ![c] = FALSE]
      /\ status' = [k \in Tasks |-> IF k \in Findings(c) THEN "deleted" ELSE status[k]]
      /\ owner' = Unlocked(s)
      /\ sess' = [sess EXCEPT ![s] = IdleSession]
      /\ UNCHANGED <<reviewer, ledger>>

(***************************************************************************)
(* The transaction is rolled back and the request ends with an error that  *)
(* is not an AppError, so a batch does not go on: the connection or the    *)
(* server failed (Fail), the flushed row had been deleted meanwhile        *)
(* (StaleFlush: StaleDataError), or PostgreSQL chose the transaction as    *)
(* the victim of a deadlock.                                               *)
(***************************************************************************)
Abort(s) ==
  /\ owner' = Unlocked(s)
  /\ sess' = [sess EXCEPT ![s] = IdleSession]
  /\ UNCHANGED <<status, reviewer, caseExists, ledger>>

Fail(s) == sess[s].pc \notin {"idle", "select"} /\ Abort(s)

StaleFlush(s) ==
  /\ sess[s].pc = "loaded"
  /\ status[Current(s)] = "deleted"
  /\ Abort(s)

Wanted(s) ==
  CASE sess[s].pc = "loaded"      -> {Current(s)}
    [] sess[s].pc = "append"      -> {Ledger}
    [] sess[s].pc = "flush"       -> {LastRow(Current(s))}
    [] sess[s].pc = "delete_case" -> {sess[s].case}
    [] sess[s].pc = "cascade"     -> Findings(sess[s].case)
    [] OTHER                      -> {}

WaitsFor(s, t) == s # t /\ \E l \in Wanted(s) : owner[l] = t

(***************************************************************************)
(* s is on a cycle of sessions, each of which waits for the next.  (A      *)
(* function from a finite set onto itself consists of cycles.)             *)
(***************************************************************************)
Cycles(C) == {next \in Surjection(C, C) : \A s \in C : WaitsFor(s, next[s])}
InDeadlock(s) == \E C \in SUBSET Sessions : s \in C /\ Cycles(C) # {}

\* Mutant: deadlocks are not looked for.
IgnoreDeadlock(s) == FALSE
BreakDeadlock(s) == InDeadlock(s) /\ Abort(s)

(***************************************************************************)
(* No request in progress: nothing has to happen.                          *)
(***************************************************************************)
Rest == (\A s \in Sessions : sess[s].pc = "idle") /\ UNCHANGED vars

------------------------------------------------------------------------------
ReviewStep(s) ==
  \/ LoadTask(s)
  \/ FlushTask(s)
  \/ TakeLedgerLock(s)
  \/ FlushBeforeTail(s)
  \/ CommitReview(s)
  \/ StaleFlush(s)

DeleteStep(s) ==
  \/ LockCase(s)
  \/ \E k \in Tasks : LockFinding(s, k)
  \/ CommitDelete(s)

Next ==
  \/ \E k \in Tasks : CreateTask(k)
  \/ \E s \in Sessions :
       \/ \E op \in Operations, ids \in Batches : StartReview(s, op, ids)
       \/ \E c \in Cases : StartDelete(s, c)
       \/ ReviewStep(s)
       \/ DeleteStep(s)
       \/ BreakDeadlock(s)
       \/ Fail(s)
  \/ Rest

Spec == Init /\ [][Next]_vars

(***************************************************************************)
(* A request that was accepted is executed; PostgreSQL queues the waiters  *)
(* of a lock and aborts a transaction of every deadlock.  Nothing obliges  *)
(* a client to send a request, nor a connection to fail.                   *)
(***************************************************************************)
Fairness ==
  \A s \in Sessions :
    /\ SF_vars(ReviewStep(s) \/ DeleteStep(s))
    /\ WF_vars(BreakDeadlock(s))

FairSpec == Spec /\ Fairness

------------------------------------------------------------------------------
\* The i-th event of the ledger is the last one it has of k with one of the actions.
IsLast(i, k, actions) ==
  /\ ledger[i].task = k /\ ledger[i].action \in actions
  /\ \A j \in DOMAIN ledger :
       ledger[j].task = k /\ ledger[j].action \in actions => j <= i

(***************************************************************************)
(* LedgerAgreesWithRow: the last event the ledger has of a finding is the  *)
(* one its row shows, and the last decision in the ledger was taken by the *)
(* reviewer on the row, even when requests overwrite each other: row lock  *)
(* and ledger lock are both held to the commit, so rows and events are     *)
(* written in one order.                                                   *)
(***************************************************************************)
LedgerAgreesWithRow ==
  \A k \in Tasks :
    /\ status[k] = "OPEN" => \A i \in DOMAIN ledger : ledger[i].task # k
    /\ status[k] \in Operations =>
         /\ \E i \in DOMAIN ledger :
              IsLast(i, k, Operations) /\ ledger[i].action = status[k]
         /\ \E i \in DOMAIN ledger :
              IsLast(i, k, Decisions) /\ ledger[i].actor = reviewer[k]

(***************************************************************************)
(* ResolvedAfterDecided: in the ledger, a finding is resolved only after   *)
(* somebody decided it, and the event names one of those who did.          *)
(***************************************************************************)
ResolvedAfterDecided ==
  \A i \in DOMAIN ledger :
    ledger[i].action = "RESOLVED" =>
      \E j \in 1..(i - 1) : /\ ledger[j].task = ledger[i].task
                            /\ ledger[j].action \in Decisions
                            /\ ledger[j].actor = ledger[i].actor

(***************************************************************************)
(* DeadlocksInvolveDeletion: reviewers never deadlock among themselves; a  *)
(* cycle of waiting transactions always contains the deletion of a case.   *)
(***************************************************************************)
DeadlocksInvolveDeletion ==
  (\E s \in Sessions : InDeadlock(s)) =>
     \E s \in Sessions : InDeadlock(s) /\ sess[s].pc = "cascade"

(***************************************************************************)
(* RequestsFinish: no request waits for ever, whatever it waits for.       *)
(***************************************************************************)
RequestsFinish == \A s \in Sessions : sess[s].pc # "idle" ~> sess[s].pc = "idle"

(***************************************************************************)
(* Lifecycle: OPEN -> APPROVED | REJECTED -> RESOLVED, and a row that is   *)
(* decided is not decided again ("only OPEN tasks can be decided").        *)
(***************************************************************************)
Lifecycle ==
  [][\A k \in Tasks :
       <<status'[k], reviewer'[k]>> # <<status[k], reviewer[k]>> =>
         \/ status'[k] = "OPEN" /\ status[k] = "absent"
         \/ status'[k] \in Decisions /\ status[k] = "OPEN"
         \/ status'[k] = "RESOLVED" /\ status[k] \in Decisions
         \/ status'[k] = "deleted"]_<<status, reviewer>>
==============================================================================
