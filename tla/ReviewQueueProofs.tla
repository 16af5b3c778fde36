--------------------------- MODULE ReviewQueueProofs ---------------------------
(***************************************************************************)
(* For any number of sessions, findings and cases: rows and ledger agree,  *)
(* a finding is resolved after somebody decided it, and reviewers alone    *)
(* do not deadlock.                                                        *)
(*                                                                         *)
(* A session checks a row once and writes it much later.  What it read may *)
(* have changed by then, and Knows is what is left of it: the row is not   *)
(* back at an earlier status, the decision it follows is still in the      *)
(* ledger, and from the moment it has the row lock nobody deletes the row. *)
(* Holders says how far a session has come that has a lock of some kind,   *)
(* which is the order in which they are taken.                             *)
(***************************************************************************)
EXTENDS ReviewQueue, TLAPS

InReview == {"loaded", "append", "flush", "commit"}
Writing == {"append", "flush", "commit"}      \* the decision cannot be lost any more

Alive(k) == status[k] \notin {"absent", "deleted"}
DecidedBy(k, a) ==
  \E i \in DOMAIN ledger :
    ledger[i].task = k /\ ledger[i].action \in Decisions /\ ledger[i].actor = a

\* What session s may rely on.
Knows(s) ==
  LET p == sess[s]
      k == Current(s)
  IN  /\ p.pc \in InReview =>
           /\ status[k] # "absent"
           /\ p.op \in Decisions => p.actor = s
           /\ p.op = "RESOLVED" => status[k] # "OPEN" /\ DecidedBy(k, p.actor)
      /\ p.pc = "loaded" => HasCase(k)
      /\ p.pc \in Writing => Alive(k) /\ (HasCase(k) => owner[k] = s)

\* Which locks session s may have.
Holds(s) ==
  \A l \in Locks : owner[l] = s =>
    /\ l = Ledger => sess[s].pc \in {"flush", "commit"}
    /\ l \in Cases => sess[s].pc \in {"commit", "cascade"}
    /\ l \in Tasks => \/ sess[s].pc = "commit"
                      \/ HasCase(l) /\ sess[s].pc \in {"append", "flush", "cascade"}

RowsAndEvents ==
  \A k \in Tasks :
    status[k] \in {"absent", "OPEN"} => \A i \in DOMAIN ledger : ledger[i].task # k

IInv ==
  /\ TypeOK
  /\ \A s \in Sessions : Knows(s) /\ Holds(s)
  /\ RowsAndEvents
  /\ LedgerAgreesWithRow
  /\ ResolvedAfterDecided

------------------------------------------------------------------------------
(***************************************************************************)
(* Steps that change one session and its locks, and no row.                *)
(***************************************************************************)
LocksOfOthers(s) ==
  /\ owner' \in [Locks -> Sessions \cup {Nobody}]
  /\ \A l \in Locks, t \in Sessions \ {s} : owner'[l] = t <=> owner[l] = t

Sensible(p) ==
  /\ p \in Session
  /\ p.pc \in {"select"} \cup InReview => p.queue # <<>>
  /\ p.pc \in {"delete_case", "cascade"} => p.case \in Cases

LEMMA OneSession ==
  ASSUME IInv, NEW s \in Sessions, NEW p, Sensible(p), sess' = [sess EXCEPT ![s] = p],
         LocksOfOthers(s), UNCHANGED <<status, reviewer, caseExists, ledger>>,
         Knows(s)', Holds(s)'
  PROVE  IInv'
<1>1. TypeOK'
  BY DEF IInv, TypeOK, Sensible, InReview, LocksOfOthers
<1>2. ASSUME NEW t \in Sessions \ {s} PROVE Knows(t)' /\ Holds(t)'
  <2>1. sess'[t] = sess[t] /\ Knows(t) /\ Holds(t)
    BY DEF IInv, TypeOK
  <2>2. Tasks \subseteq Locks
    BY DEF Locks
  <2>3. sess[t] \in Session
    BY DEF IInv, TypeOK
  <2>4. sess[t].pc \in Writing => Current(t) \in Tasks
    BY <2>3 DEF IInv, TypeOK, Writing, Current, Session
  <2>5. Knows(t)'
    BY <2>1, <2>2, <2>4 DEF Knows, Alive, DecidedBy, HasCase, Current, LocksOfOthers
  <2>6. Holds(t)'
    BY <2>1 DEF Holds, HasCase, LocksOfOthers
  <2> QED
    BY <2>5, <2>6
<1>3. RowsAndEvents'
  BY DEF IInv, RowsAndEvents
<1>4. LedgerAgreesWithRow'
  BY DEF IInv, LedgerAgreesWithRow, IsLast
<1>5. ResolvedAfterDecided'
  BY DEF IInv, ResolvedAfterDecided
<1> QED
  BY <1>1, <1>2, <1>3, <1>4, <1>5 DEF IInv

LEMMA Facts ==
  ASSUME IInv, NEW s \in Sessions
  PROVE  /\ sess[s] \in Session /\ Knows(s) /\ Holds(s)
         /\ sess[s].pc \in {"select"} \cup InReview =>
              /\ sess[s].queue \in Seq(Tasks) /\ sess[s].queue # <<>>
              /\ Current(s) \in Tasks
BY DEF IInv, TypeOK, InReview, Current, Session

\* A session that takes no lock keeps those it has.
LEMMA NoLockTaken ==
  ASSUME IInv, NEW s \in Sessions, UNCHANGED owner
  PROVE  LocksOfOthers(s)
BY DEF IInv, TypeOK, LocksOfOthers

LEMMA LockTaken ==
  ASSUME IInv, NEW s \in Sessions, NEW l \in Locks, Take(s, l)
  PROVE  LocksOfOthers(s) /\ owner'[l] = s /\ \A m \in Locks \ {l} : owner'[m] = owner[m]
BY SentinelAssumption DEF IInv, TypeOK, LocksOfOthers, Take

LEMMA LocksReleased ==
  ASSUME IInv, NEW s \in Sessions, owner' = Unlocked(s)
  PROVE  LocksOfOthers(s) /\ \A l \in Locks : owner'[l] # s
BY SentinelAssumption DEF IInv, TypeOK, LocksOfOthers, Unlocked

LEMMA Idling ==
  /\ Sensible(IdleSession)
  /\ IdleSession.pc = "idle"
BY DEF Sensible, IdleSession, Session, Steps, Operations, InReview

\* A session that reviews nothing relies on nothing, and has no locks.
LEMMA NothingToKnow ==
  ASSUME NEW s \in Sessions, sess'[s].pc \in {"idle", "select", "delete_case"},
         \A l \in Locks : owner'[l] # s
  PROVE  Knows(s)' /\ Holds(s)'
BY DEF Knows, Holds, InReview, Writing

LEMMA Unlocking ==
  ASSUME IInv, NEW s \in Sessions, sess[s].pc \in {"idle", "select", "loaded", "delete_case"}
  PROVE  \A l \in Locks : owner[l] # s
<1> SUFFICES ASSUME NEW l \in Locks, owner[l] = s PROVE FALSE
  OBVIOUS
<1>1. l = Ledger \/ l \in Cases \/ l \in Tasks
  BY DEF Locks
<1> QED
  BY <1>1, Facts DEF Holds

------------------------------------------------------------------------------
LEMMA StartReviewKeeps ==
  ASSUME IInv, NEW s \in Sessions, NEW op \in Operations, NEW ids \in Batches,
         StartReview(s, op, ids)
  PROVE  IInv'
<1> DEFINE p == [IdleSession EXCEPT !.pc = "select", !.op = op, !.queue = ids]
<1>1. ids \in Seq(Tasks) /\ ids # <<>>
  BY DEF Batches
<1>2. Sensible(p) /\ p.pc = "select"
  BY <1>1 DEF Sensible, IdleSession, Session, Steps, InReview
<1>3. sess' = [sess EXCEPT ![s] = p] /\ UNCHANGED <<status, reviewer, caseExists, ledger, owner>>
  BY DEF StartReview
<1> HIDE DEF p
<1>4. sess'[s] = p
  BY <1>3 DEF IInv, TypeOK
<1>5. Knows(s)' /\ Holds(s)'
  BY <1>2, <1>3, <1>4, Unlocking, NothingToKnow DEF StartReview
<1> QED
  BY <1>2, <1>3, <1>5, NoLockTaken, OneSession

LEMMA StartDeleteKeeps ==
  ASSUME IInv, NEW s \in Sessions, NEW c \in Cases, StartDelete(s, c)
  PROVE  IInv'
<1> DEFINE p == [IdleSession EXCEPT !.pc = "delete_case", !.case = c]
<1>1. Sensible(p) /\ p.pc = "delete_case"
  BY Idling DEF Sensible, IdleSession, Session, Steps, InReview
<1>2. sess' = [sess EXCEPT ![s] = p] /\ UNCHANGED <<status, reviewer, caseExists, ledger, owner>>
  BY DEF StartDelete
<1> HIDE DEF p
<1>3. sess'[s] = p
  BY <1>2 DEF IInv, TypeOK
<1>4. Knows(s)' /\ Holds(s)'
  BY <1>1, <1>2, <1>3, Unlocking, NothingToKnow DEF StartDelete
<1> QED
  BY <1>1, <1>2, <1>4, NoLockTaken, OneSession

LEMMA TailOf ==
  ASSUME NEW S, NEW q \in Seq(S), Len(q) > 1
  PROVE  Tail(q) \in Seq(S) /\ Tail(q) # <<>>
<1>1. Tail(q) \in Seq(S) /\ Len(Tail(q)) = Len(q) - 1 /\ Len(q) \in Nat
  OBVIOUS
<1>2. Len(<<>>) = 0
  OBVIOUS
<1>3. Tail(q) = <<>> => Len(Tail(q)) = 0
  BY <1>2, Zenon
<1>4. Len(Tail(q)) # 0
  BY <1>1
<1> QED
  BY <1>1, <1>3, <1>4, Zenon

\* The batch goes on, or the request ends.
LEMMA NextOne ==
  ASSUME IInv, NEW s \in Sessions, sess[s].pc \in {"select"} \cup InReview, NextItem(s)
  PROVE  \E p : /\ Sensible(p) /\ p.pc \in {"idle", "select"}
                /\ sess' = [sess EXCEPT ![s] = p] /\ sess'[s] = p
<1>1. sess[s] \in Session /\ sess[s].queue \in Seq(Tasks) /\ sess \in [Sessions -> Session]
  BY Facts DEF IInv, TypeOK
<1>2. CASE Len(sess[s].queue) > 1
  <2> DEFINE p == [sess[s] EXCEPT !.pc = "select", !.queue = Tail(@), !.actor = Nobody]
  <2>1. sess' = [sess EXCEPT ![s] = p]
    BY <1>2 DEF NextItem
  <2>2. Tail(sess[s].queue) \in Seq(Tasks) /\ Tail(sess[s].queue) # <<>>
    BY <1>1, <1>2, TailOf
  <2>3. Sensible(p) /\ p.pc = "select"
    BY <1>1, <2>2 DEF Sensible, Session, Steps
  <2> HIDE DEF p
  <2> QED
    BY <1>1, <2>1, <2>3
<1>3. CASE ~(Len(sess[s].queue) > 1)
  BY <1>1, <1>3, Idling DEF NextItem
<1> QED
  BY <1>2, <1>3

LEMMA LoadKeeps ==
  ASSUME IInv, NEW s \in Sessions, LoadTask(s)
  PROVE  IInv'
<1> DEFINE k == Current(s)
           p == [sess[s] EXCEPT !.pc = IF HasCase(k) THEN "loaded" ELSE "append",
                   !.actor = IF sess[s].op \in Decisions THEN s ELSE reviewer[k]]
<1>1. /\ sess[s].pc = "select" /\ UNCHANGED <<status, reviewer, caseExists, ledger, owner>>
      /\ sess \in [Sessions -> Session]
  BY DEF LoadTask, IInv, TypeOK
<1>2. /\ sess[s] \in Session /\ sess[s].queue # <<>> /\ k \in Tasks
      /\ reviewer[k] \in Sessions \cup {Nobody}
  BY <1>1, Facts DEF IInv, TypeOK
<1>3. \A l \in Locks : owner'[l] # s
  BY <1>1, Unlocking
<1>4. CASE MayWrite(sess[s].op, status[k])
  <2>1. sess' = [sess EXCEPT ![s] = p]
    BY <1>1, <1>4 DEF LoadTask
  <2>2. p \in Session /\ p.pc = (IF HasCase(k) THEN "loaded" ELSE "append")
        /\ p.op = sess[s].op /\ p.queue = sess[s].queue
        /\ p.actor = (IF sess[s].op \in Decisions THEN s ELSE reviewer[k])
    BY <1>2 DEF Session, Steps
  <2>3. Sensible(p)
    BY <1>2, <2>2 DEF Sensible
  <2> HIDE DEF p
  <2>4. sess'[s] = p
    BY <1>1, <2>1
  <2>5. Current(s)' = k
    BY <2>2, <2>4 DEF Current
  <2>6. status[k] \in {"OPEN"} \cup Decisions /\ status[k] \notin {"absent", "deleted"}
    BY <1>4 DEF MayWrite, Decisions
  <2>7. p.op = "RESOLVED" => status[k] \in Decisions /\ p.actor = reviewer[k]
    BY <1>4, <2>2 DEF MayWrite, Decisions
  <2>8. p.op = "RESOLVED" => status[k] # "OPEN" /\ DecidedBy(k, p.actor)
    BY <1>2, <2>7 DEF IInv, LedgerAgreesWithRow, IsLast, DecidedBy, Decisions, Operations
  <2>9. Knows(s)'
    BY <1>1, <2>2, <2>4, <2>5, <2>6, <2>8
       DEF Knows, Alive, DecidedBy, Writing, HasCase
  <2>10. Holds(s)'
    BY <1>3 DEF Holds
  <2> QED
    BY <1>1, <2>1, <2>3, <2>9, <2>10, NoLockTaken, OneSession
<1>5. CASE ~MayWrite(sess[s].op, status[k])
  <2>1. NextItem(s)
    BY <1>5 DEF LoadTask
  <2>2. PICK p1 : /\ Sensible(p1) /\ p1.pc \in {"idle", "select"}
                  /\ sess' = [sess EXCEPT ![s] = p1] /\ sess'[s] = p1
    BY <1>1, <2>1, NextOne
  <2>3. Knows(s)' /\ Holds(s)'
    BY <1>3, <2>2, NothingToKnow
  <2> QED
    BY <1>1, <2>2, <2>3, NoLockTaken, OneSession
<1> QED
  BY <1>4, <1>5

LEMMA AbortKeeps ==
  ASSUME IInv, NEW s \in Sessions, Abort(s)
  PROVE  IInv'
<1>1. /\ sess' = [sess EXCEPT ![s] = IdleSession] /\ owner' = Unlocked(s)
      /\ UNCHANGED <<status, reviewer, caseExists, ledger>>
  BY DEF Abort
<1>2. sess'[s] = IdleSession
  BY <1>1 DEF IInv, TypeOK
<1>3. LocksOfOthers(s) /\ Knows(s)' /\ Holds(s)'
  BY <1>1, <1>2, LocksReleased, Idling, NothingToKnow
<1> QED
  BY <1>1, <1>3, Idling, OneSession

(***************************************************************************)
(* The locks of a review, in their order.                                  *)
(***************************************************************************)
\* A session that goes on with its finding.
LEMMA GoesOn ==
  ASSUME IInv, NEW s \in Sessions, sess[s].pc \in InReview, NEW pc \in InReview, GoTo(s, pc)
  PROVE  \E p : /\ Sensible(p) /\ sess' = [sess EXCEPT ![s] = p] /\ sess'[s] = p
                /\ p.pc = pc /\ p.op = sess[s].op /\ p.queue = sess[s].queue
                /\ p.actor = sess[s].actor
<1> DEFINE p == [sess[s] EXCEPT !.pc = pc]
<1>1. sess[s] \in Session /\ sess[s].queue # <<>> /\ sess \in [Sessions -> Session]
  BY Facts DEF IInv, TypeOK
<1>2. sess' = [sess EXCEPT ![s] = p]
  BY DEF GoTo
<1>3. Sensible(p) /\ p.pc = pc /\ p.op = sess[s].op /\ p.queue = sess[s].queue
      /\ p.actor = sess[s].actor
  BY <1>1 DEF Sensible, Session, Steps, InReview
<1> HIDE DEF p
<1> QED
  BY <1>1, <1>2, <1>3

LEMMA FlushTaskKeeps ==
  ASSUME IInv, NEW s \in Sessions, FlushTask(s)
  PROVE  IInv'
<1> DEFINE k == Current(s)
<1>1. /\ sess[s].pc = "loaded" /\ status[k] # "deleted" /\ Take(s, k) /\ GoTo(s, "append")
      /\ UNCHANGED <<status, reviewer, caseExists, ledger>>
  BY DEF FlushTask
<1>2. k \in Tasks /\ Knows(s) /\ k \in Locks
  BY <1>1, Facts DEF InReview, Locks
<1>3. PICK p : /\ Sensible(p) /\ sess' = [sess EXCEPT ![s] = p] /\ sess'[s] = p
               /\ p.pc = "append" /\ p.op = sess[s].op /\ p.queue = sess[s].queue
               /\ p.actor = sess[s].actor
  BY <1>1, GoesOn DEF InReview
<1>4. LocksOfOthers(s) /\ owner'[k] = s /\ \A m \in Locks \ {k} : owner'[m] # s
  BY <1>1, <1>2, LockTaken, Unlocking
<1>5. Current(s)' = k
  BY <1>3 DEF Current
<1>6. Knows(s)'
  BY <1>1, <1>2, <1>3, <1>4, <1>5 DEF Knows, Alive, DecidedBy, HasCase, InReview
<1>7. Holds(s)'
  BY <1>1, <1>2, <1>3, <1>4, LocksAssumption DEF Holds, Knows, HasCase, Ledger
<1> QED
  BY <1>1, <1>3, <1>4, <1>6, <1>7, OneSession

LEMMA LedgerLockKeeps ==
  ASSUME IInv, NEW s \in Sessions, TakeLedgerLock(s)
  PROVE  IInv'
<1> DEFINE k == Current(s)
<1>1. /\ sess[s].pc = "append" /\ Take(s, Ledger) /\ GoTo(s, "flush")
      /\ UNCHANGED <<status, reviewer, caseExists, ledger>>
  BY DEF TakeLedgerLock
<1>2. k \in Tasks /\ Knows(s) /\ Holds(s) /\ k \in Locks /\ Ledger \in Locks
      /\ Ledger \notin Tasks \cup Cases
  BY <1>1, Facts, LocksAssumption DEF InReview, Locks, Ledger
<1>3. PICK p : /\ Sensible(p) /\ sess' = [sess EXCEPT ![s] = p] /\ sess'[s] = p
               /\ p.pc = "flush" /\ p.op = sess[s].op /\ p.queue = sess[s].queue
               /\ p.actor = sess[s].actor
  BY <1>1, GoesOn DEF InReview
<1>4. LocksOfOthers(s) /\ \A m \in Locks \ {Ledger} : owner'[m] = owner[m]
  BY <1>1, <1>2, LockTaken
<1>5. Current(s)' = k
  BY <1>3 DEF Current
<1>6. Knows(s)'
  BY <1>1, <1>2, <1>3, <1>4, <1>5 DEF Knows, Alive, DecidedBy, HasCase, InReview, Writing
<1>7. Holds(s)'
  BY <1>1, <1>2, <1>3, <1>4 DEF Holds, HasCase
<1> QED
  BY <1>1, <1>3, <1>4, <1>6, <1>7, OneSession

LEMMA FlushBeforeTailKeeps ==
  ASSUME IInv, NEW s \in Sessions, FlushBeforeTail(s)
  PROVE  IInv'
<1> DEFINE k == Current(s)
<1>1. /\ sess[s].pc = "flush" /\ Take(s, LastRow(k)) /\ GoTo(s, "commit")
      /\ UNCHANGED <<status, reviewer, caseExists, ledger>>
  BY DEF FlushBeforeTail
<1>2. k \in Tasks /\ Knows(s) /\ k \in Locks
  BY <1>1, Facts DEF InReview, Locks
<1>3. LastRow(k) \in Locks
  BY <1>2, CaseOfAssumption DEF LastRow, HasCase, Locks
<1>4. PICK p : /\ Sensible(p) /\ sess' = [sess EXCEPT ![s] = p] /\ sess'[s] = p
               /\ p.pc = "commit" /\ p.op = sess[s].op /\ p.queue = sess[s].queue
               /\ p.actor = sess[s].actor
  BY <1>1, GoesOn DEF InReview
<1>5. LocksOfOthers(s) /\ \A m \in Locks : owner[m] = s => owner'[m] = s
  BY <1>1, <1>3, LockTaken
<1>6. Current(s)' = k
  BY <1>4 DEF Current
<1>7. Knows(s)'
  BY <1>1, <1>2, <1>4, <1>5, <1>6 DEF Knows, Alive, DecidedBy, HasCase, InReview, Writing
<1>8. Holds(s)'
  BY <1>4 DEF Holds
<1> QED
  BY <1>1, <1>4, <1>5, <1>7, <1>8, OneSession

(***************************************************************************)
(* The commit of a review: the event is written while the row and the      *)
(* ledger are locked, so nothing comes between the two.                    *)
(***************************************************************************)
LEMMA CommitReviewKeeps ==
  ASSUME IInv, NEW s \in Sessions, CommitReview(s)
  PROVE  IInv'
<1> PICK k, op, n, e : /\ k = Current(s) /\ op = sess[s].op /\ n = Len(ledger)
                       /\ e = [task |-> k, action |-> op, actor |-> sess[s].actor]
  OBVIOUS
<1>1. /\ sess[s].pc = "commit"
      /\ status' = [status EXCEPT ![k] = op]
      /\ reviewer' = [reviewer EXCEPT ![k] = IF op \in Decisions THEN s ELSE @]
      /\ ledger' = Append(ledger, e)
      /\ owner' = Unlocked(s) /\ NextItem(s) /\ UNCHANGED caseExists
  BY DEF CommitReview
<1>2. /\ k \in Tasks /\ op \in Operations /\ Alive(k)
      /\ op \in Decisions => sess[s].actor = s
      /\ op = "RESOLVED" => status[k] # "OPEN" /\ DecidedBy(k, sess[s].actor)
  BY <1>1, Facts DEF InReview, Writing, Knows, Session
<1>3. /\ status \in [Tasks -> Statuses] /\ reviewer \in [Tasks -> Sessions \cup {Nobody}]
      /\ ledger \in Seq(ReviewEvent) /\ sess \in [Sessions -> Session] /\ TypeOK
  BY DEF IInv, TypeOK
<1>4. sess[s].actor \in Sessions
  <2>1. \A i \in DOMAIN ledger : ledger[i].actor \in Sessions
    <3>1. \A i \in DOMAIN ledger : ledger[i] \in ReviewEvent
      BY <1>3
    <3> QED
      BY <3>1 DEF ReviewEvent
  <2>2. op = "RESOLVED" => \E i \in DOMAIN ledger : ledger[i].actor = sess[s].actor
    BY <1>2 DEF DecidedBy
  <2> QED
    BY <1>2, <2>1, <2>2 DEF Operations
<1>5. e \in ReviewEvent /\ e.task = k /\ e.action = op /\ e.actor = sess[s].actor
  BY <1>2, <1>4 DEF ReviewEvent
<1>6. /\ ledger' \in Seq(ReviewEvent) /\ DOMAIN ledger = 1..n /\ DOMAIN ledger' = 1..(n + 1)
      /\ n \in Nat /\ ledger'[n + 1] = e /\ \A i \in 1..n : ledger'[i] = ledger[i]
  BY <1>1, <1>3, <1>5
<1>7. PICK p : /\ Sensible(p) /\ p.pc \in {"idle", "select"}
               /\ sess' = [sess EXCEPT ![s] = p] /\ sess'[s] = p
  BY <1>1, NextOne DEF InReview
<1>8. LocksOfOthers(s) /\ \A l \in Locks : owner'[l] # s
  BY <1>1, LocksReleased
<1>9. /\ status'[k] = op
      /\ \A j \in Tasks : j # k => status'[j] = status[j] /\ reviewer'[j] = reviewer[j]
      /\ reviewer'[k] = IF op \in Decisions THEN s ELSE reviewer[k]
  BY <1>1, <1>2, <1>3
<1>10. op \in Decisions \/ op = "RESOLVED"
  BY <1>2 DEF Operations
<1>11. status[k] \in {"OPEN"} \cup Operations
  BY <1>2, <1>3 DEF Statuses, Alive, Operations
<1>12. TypeOK'
  <2>1. status' \in [Tasks -> Statuses]
    BY <1>1, <1>2, <1>3 DEF Statuses, Operations
  <2>2. reviewer' \in [Tasks -> Sessions \cup {Nobody}]
    BY <1>1, <1>2, <1>3
  <2>3. caseExists' \in [Cases -> BOOLEAN] /\ owner' \in [Locks -> Sessions \cup {Nobody}]
    BY <1>1, <1>3, <1>8 DEF TypeOK, LocksOfOthers
  <2>4. sess' \in [Sessions -> Session]
    BY <1>3, <1>7 DEF Sensible
  <2>5. ASSUME NEW t \in Sessions
        PROVE  /\ sess'[t].pc \in {"select", "loaded", "append", "flush", "commit"} =>
                    sess'[t].queue # <<>>
               /\ sess'[t].pc \in {"delete_case", "cascade"} => sess'[t].case \in Cases
    BY <1>3, <1>7 DEF TypeOK, Sensible, InReview
  <2> QED
    BY <1>6, <2>1, <2>2, <2>3, <2>4, <2>5 DEF TypeOK
<1>13. ASSUME NEW t \in Sessions PROVE Knows(t)' /\ Holds(t)'
  <2>1. CASE t = s
    BY <1>7, <1>8, <2>1, NothingToKnow
  <2>2. CASE t # s
    <3>1. sess'[t] = sess[t] /\ Knows(t) /\ Holds(t) /\ sess[t] \in Session
      BY <1>3, <1>7, <2>2, Facts
    <3>2. sess[t].pc \in InReview => Current(t) \in Tasks
      BY Facts
    <3>3. \A j \in Tasks : /\ status[j] # "absent" => status'[j] # "absent"
                           /\ status[j] \notin {"absent", "OPEN"} => status'[j] # "OPEN"
                           /\ Alive(j) => Alive(j)'
      BY <1>2, <1>9 DEF Alive, Operations, Decisions
    <3>4. \A j, a : DecidedBy(j, a) => DecidedBy(j, a)'
      BY <1>6 DEF DecidedBy
    <3>5. \A j \in Tasks : owner[j] = t => owner'[j] = t
      BY <1>8, <2>2 DEF LocksOfOthers, Locks
    <3>6. Knows(t)'
      BY <3>1, <3>2, <3>3, <3>4, <3>5 DEF Knows, HasCase, Current, InReview, Writing
    <3>7. Holds(t)'
      BY <1>8, <2>2, <3>1 DEF Holds, HasCase, LocksOfOthers
    <3> QED
      BY <3>6, <3>7
  <2> QED
    BY <2>1, <2>2
<1>14. RowsAndEvents'
  <2> SUFFICES ASSUME NEW j \in Tasks, status'[j] \in {"absent", "OPEN"}, NEW i \in 1..(n + 1)
               PROVE  ledger'[i].task # j
    BY <1>6 DEF RowsAndEvents
  <2>1. j # k
    BY <1>2, <1>9 DEF Operations, Decisions
  <2>2. i \in 1..n \/ i = n + 1
    BY <1>6
  <2> QED
    BY <1>5, <1>6, <1>9, <2>1, <2>2 DEF IInv, RowsAndEvents
<1>15. LedgerAgreesWithRow'
  <2>1. ASSUME NEW i \in DOMAIN ledger, NEW j, NEW A, IsLast(i, j, A), j # k \/ op \notin A
        PROVE  i \in DOMAIN ledger' /\ IsLast(i, j, A)' /\ ledger'[i] = ledger[i]
    <3>1. i \in 1..n /\ \A m \in DOMAIN ledger' : m \in 1..n \/ m = n + 1
      BY <1>6
    <3> QED
      BY <1>5, <1>6, <2>1, <3>1 DEF IsLast
  <2>2. ASSUME NEW A, op \in A PROVE n + 1 \in DOMAIN ledger' /\ IsLast(n + 1, k, A)'
    BY <1>5, <1>6, <2>2 DEF IsLast
  <2>3. ASSUME NEW j \in Tasks, status'[j] = "OPEN" PROVE \A i \in DOMAIN ledger' : ledger'[i].task # j
    BY <1>14, <2>3 DEF RowsAndEvents
  <2>4. ASSUME NEW j \in Tasks, status'[j] \in Operations
        PROVE \E i \in DOMAIN ledger' : IsLast(i, j, Operations)' /\ ledger'[i].action = status'[j]
    <3>1. CASE j = k
      BY <1>2, <1>5, <1>6, <1>9, <2>2, <3>1
    <3>2. CASE j # k
      <4>1. PICK i \in DOMAIN ledger : IsLast(i, j, Operations) /\ ledger[i].action = status[j]
        BY <1>9, <2>4, <3>2 DEF IInv, LedgerAgreesWithRow
      <4> QED
        BY <1>9, <2>1, <3>2, <4>1
    <3> QED
      BY <3>1, <3>2
  <2>5. ASSUME NEW j \in Tasks, status'[j] \in Operations
        PROVE \E i \in DOMAIN ledger' : IsLast(i, j, Decisions)' /\ ledger'[i].actor = reviewer'[j]
    <3>1. CASE j = k /\ op \in Decisions
      BY <1>2, <1>5, <1>6, <1>9, <2>2, <3>1
    <3>2. CASE j # k \/ op \notin Decisions
      <4>1. status[j] \in Operations /\ reviewer'[j] = reviewer[j]
        BY <1>2, <1>9, <1>10, <1>11, <2>5, <3>2
      <4>2. PICK i \in DOMAIN ledger : IsLast(i, j, Decisions) /\ ledger[i].actor = reviewer[j]
        BY <4>1 DEF IInv, LedgerAgreesWithRow
      <4> QED
        BY <2>1, <3>2, <4>1, <4>2
    <3> QED
      BY <3>1, <3>2
  <2> QED
    BY <2>3, <2>4, <2>5 DEF LedgerAgreesWithRow
<1>16. ResolvedAfterDecided'
  <2> SUFFICES ASSUME NEW i \in 1..(n + 1), ledger'[i].action = "RESOLVED"
               PROVE  \E j \in 1..(i - 1) : /\ ledger'[j].task = ledger'[i].task
                                            /\ ledger'[j].action \in Decisions
                                            /\ ledger'[j].actor = ledger'[i].actor
    BY <1>6 DEF ResolvedAfterDecided
  <2>1. CASE i \in 1..n
    <3>1. PICK j \in 1..(i - 1) : /\ ledger[j].task = ledger[i].task
                                  /\ ledger[j].action \in Decisions
                                  /\ ledger[j].actor = ledger[i].actor
      BY <1>6, <2>1 DEF IInv, ResolvedAfterDecided
    <3>2. j \in 1..n
      BY <1>6, <2>1
    <3> QED
      BY <1>6, <2>1, <3>1, <3>2
  <2>2. CASE i = n + 1
    <3>1. DecidedBy(k, e.actor)
      BY <1>2, <1>5, <1>6, <2>2
    <3>2. i - 1 = n
      BY <1>6, <2>2
    <3> QED
      BY <1>5, <1>6, <2>2, <3>1, <3>2 DEF DecidedBy
  <2> QED
    BY <1>6, <2>1, <2>2
<1> QED
  BY <1>12, <1>13, <1>14, <1>15, <1>16 DEF IInv

(***************************************************************************)
(* Findings are created, and deleted with their case.                      *)
(***************************************************************************)
LEMMA CreateTaskKeeps ==
  ASSUME IInv, NEW k \in Tasks, CreateTask(k)
  PROVE  IInv'
<1>1. /\ status[k] = "absent" /\ status' = [status EXCEPT ![k] = "OPEN"]
      /\ UNCHANGED <<reviewer, caseExists, ledger, owner, sess>>
  BY DEF CreateTask
<1>2. status \in [Tasks -> Statuses] /\ TypeOK
  BY DEF IInv, TypeOK
<1>3. status'[k] = "OPEN" /\ \A j \in Tasks \ {k} : status'[j] = status[j]
  BY <1>1, <1>2
<1>4. TypeOK'
  BY <1>1, <1>2 DEF TypeOK, Statuses
<1>5. ASSUME NEW t \in Sessions PROVE Knows(t)' /\ Holds(t)'
  <2>1. Knows(t) /\ Holds(t) /\ (sess[t].pc \in InReview => Current(t) \in Tasks)
    BY Facts
  <2>2. sess[t].pc \in InReview => Current(t) # k
    BY <1>1, <2>1 DEF Knows
  <2>3. Knows(t)'
    BY <1>1, <1>3, <2>1, <2>2 DEF Knows, Alive, DecidedBy, HasCase, Current, InReview, Writing
  <2>4. Holds(t)'
    BY <1>1, <2>1 DEF Holds, HasCase
  <2> QED
    BY <2>3, <2>4
<1>6. RowsAndEvents'
  BY <1>1, <1>3 DEF IInv, RowsAndEvents
<1>7. LedgerAgreesWithRow'
  <2>1. \A i \in DOMAIN ledger : ledger[i].task # k
    BY <1>1 DEF IInv, RowsAndEvents
  <2>2. ASSUME NEW j \in Tasks
        PROVE  /\ status'[j] = "OPEN" => \A i \in DOMAIN ledger' : ledger'[i].task # j
               /\ status'[j] \in Operations =>
                    /\ \E i \in DOMAIN ledger' :
                         IsLast(i, j, Operations)' /\ ledger'[i].action = status'[j]
                    /\ \E i \in DOMAIN ledger' :
                         IsLast(i, j, Decisions)' /\ ledger'[i].actor = reviewer'[j]
    <3>1. CASE j = k
      BY <1>1, <1>3, <2>1, <3>1 DEF Operations, Decisions
    <3>2. CASE j # k
      BY <1>1, <1>3, <3>2 DEF IInv, LedgerAgreesWithRow, IsLast
    <3> QED
      BY <3>1, <3>2
  <2> QED
    BY <2>2 DEF LedgerAgreesWithRow
<1>8. ResolvedAfterDecided'
  BY <1>1 DEF IInv, ResolvedAfterDecided
<1> QED
  BY <1>4, <1>5, <1>6, <1>7, <1>8 DEF IInv

LEMMA LockCaseKeeps ==
  ASSUME IInv, NEW s \in Sessions, LockCase(s)
  PROVE  IInv'
<1> DEFINE c == sess[s].case
           p == [sess[s] EXCEPT !.pc = "cascade"]
<1>1. /\ sess[s].pc = "delete_case" /\ sess \in [Sessions -> Session] /\ sess[s] \in Session
      /\ c \in Cases /\ UNCHANGED <<status, reviewer, caseExists, ledger>>
  BY DEF LockCase, IInv, TypeOK
<1>2. \A l \in Locks : owner[l] # s
  BY <1>1, Unlocking
<1>3. CASE caseExists[c]
  <2>1. Take(s, c) /\ sess' = [sess EXCEPT ![s] = p]
    BY <1>1, <1>3 DEF LockCase, GoTo
  <2>2. Sensible(p) /\ p.pc = "cascade"
    BY <1>1 DEF Sensible, Session, Steps, InReview
  <2> HIDE DEF p
  <2>3. sess'[s] = p
    BY <1>1, <2>1
  <2>4. LocksOfOthers(s) /\ \A l \in Locks : owner'[l] = s => l \in Cases
    BY <1>1, <1>2, <2>1, LockTaken DEF Locks
  <2>5. Knows(s)'
    BY <2>2, <2>3 DEF Knows, InReview, Writing
  <2>6. Holds(s)'
    BY <2>2, <2>3, <2>4, LocksAssumption DEF Holds, Ledger
  <2> QED
    BY <1>1, <2>1, <2>2, <2>4, <2>5, <2>6, OneSession
<1>4. CASE ~caseExists[c]
  <2>1. sess' = [sess EXCEPT ![s] = IdleSession] /\ UNCHANGED owner
    BY <1>1, <1>4 DEF LockCase
  <2>2. sess'[s] = IdleSession
    BY <1>1, <2>1
  <2>3. Knows(s)' /\ Holds(s)'
    BY <1>2, <2>1, <2>2, Idling, NothingToKnow
  <2> QED
    BY <1>1, <2>1, <2>3, Idling, NoLockTaken, OneSession
<1> QED
  BY <1>3, <1>4

LEMMA LockFindingKeeps ==
  ASSUME IInv, NEW s \in Sessions, NEW k \in Tasks, LockFinding(s, k)
  PROVE  IInv'
<1>1. /\ sess[s].pc = "cascade" /\ k \in Findings(sess[s].case) /\ Take(s, k)
      /\ UNCHANGED <<status, reviewer, caseExists, ledger, sess>>
  BY DEF LockFinding
<1>2. /\ sess[s] \in Session /\ sess \in [Sessions -> Session] /\ Holds(s)
      /\ sess[s].case \in Cases /\ sess[s].queue \in Seq(Tasks)
  BY <1>1, Facts DEF IInv, TypeOK, Session
<1>3. HasCase(k) /\ k \in Locks /\ k \notin Cases /\ k # Ledger
  BY <1>1, <1>2, SentinelAssumption, LocksAssumption DEF HasCase, Findings, Locks, Ledger
<1>4. Sensible(sess[s])
  BY <1>1, <1>2 DEF Sensible, InReview
<1>5. sess' = [sess EXCEPT ![s] = sess[s]]
  BY <1>1, <1>2
<1>6. LocksOfOthers(s) /\ \A m \in Locks \ {k} : owner'[m] = owner[m]
  BY <1>1, <1>3, LockTaken
<1>7. Knows(s)'
  BY <1>1 DEF Knows, InReview, Writing
<1>8. Holds(s)'
  BY <1>1, <1>2, <1>3, <1>6 DEF Holds, HasCase
<1> QED
  BY <1>1, <1>4, <1>5, <1>6, <1>7, <1>8, OneSession

LEMMA CommitDeleteKeeps ==
  ASSUME IInv, NEW s \in Sessions, CommitDelete(s)
  PROVE  IInv'
<1> DEFINE c == sess[s].case
<1>1. /\ sess[s].pc = "cascade" /\ \A k \in Findings(c) : owner[k] = s
      /\ caseExists' = [caseExists EXCEPT ![c] = FALSE]
      /\ status' = [k \in Tasks |-> IF k \in Findings(c) THEN "deleted" ELSE status[k]]
      /\ owner' = Unlocked(s) /\ sess' = [sess EXCEPT ![s] = IdleSession]
      /\ UNCHANGED <<reviewer, ledger>>
  BY DEF CommitDelete
<1>2. TypeOK /\ sess \in [Sessions -> Session] /\ c \in Cases /\ status \in [Tasks -> Statuses]
  BY <1>1 DEF IInv, TypeOK
<1>3. \A k \in Tasks : status'[k] = status[k] \/ (status'[k] = "deleted" /\ k \in Findings(c))
  BY <1>1
<1>4. LocksOfOthers(s) /\ \A l \in Locks : owner'[l] # s
  BY <1>1, LocksReleased
<1>5. sess'[s] = IdleSession
  BY <1>1, <1>2
<1> HIDE DEF c
<1>6. TypeOK'
  <2>1. status' \in [Tasks -> Statuses]
    BY <1>1, <1>2 DEF Statuses
  <2>2. sess' \in [Sessions -> Session]
    BY <1>1, <1>2, Idling DEF Sensible
  <2>3. ASSUME NEW t \in Sessions
        PROVE  /\ sess'[t].pc \in {"select", "loaded", "append", "flush", "commit"} =>
                    sess'[t].queue # <<>>
               /\ sess'[t].pc \in {"delete_case", "cascade"} => sess'[t].case \in Cases
    BY <1>1, <1>2, <1>5, Idling DEF TypeOK
  <2> QED
    BY <1>1, <1>2, <1>4, <2>1, <2>2, <2>3 DEF TypeOK, LocksOfOthers
<1>7. ASSUME NEW t \in Sessions PROVE Knows(t)' /\ Holds(t)'
  <2>1. CASE t = s
    BY <1>4, <1>5, <2>1, Idling, NothingToKnow
  <2>2. CASE t # s
    <3>1. sess'[t] = sess[t] /\ Knows(t) /\ Holds(t)
      BY <1>1, <1>2, <2>2, Facts
    <3>2. sess[t].pc \in InReview => Current(t) \in Tasks
      BY Facts
    <3>3. ASSUME sess[t].pc \in Writing
          PROVE  status'[Current(t)] = status[Current(t)]
      <4>1. HasCase(Current(t)) => owner[Current(t)] = t
        BY <3>1, <3>3 DEF Knows
      <4>2. Current(t) \notin Findings(c)
        BY <1>1, <1>2, <2>2, <4>1, SentinelAssumption DEF Findings, HasCase
      <4> QED
        BY <1>3, <3>2, <3>3, <4>2 DEF Writing, InReview
    <3>4. \A k \in Tasks : /\ status[k] # "absent" => status'[k] # "absent"
                           /\ status[k] # "OPEN" => status'[k] # "OPEN"
      BY <1>3
    <3>5. \A k \in Tasks : owner[k] = t => owner'[k] = t
      BY <1>4, <2>2 DEF LocksOfOthers, Locks
    <3>6. Knows(t)'
      BY <1>1, <3>1, <3>2, <3>3, <3>4, <3>5
         DEF Knows, Alive, DecidedBy, HasCase, Current, InReview, Writing
    <3>7. Holds(t)'
      BY <1>4, <2>2, <3>1 DEF Holds, HasCase, LocksOfOthers
    <3> QED
      BY <3>6, <3>7
  <2> QED
    BY <2>1, <2>2
<1>8. RowsAndEvents'
  BY <1>1, <1>3 DEF IInv, RowsAndEvents
<1>9. LedgerAgreesWithRow'
  BY <1>1, <1>3 DEF IInv, LedgerAgreesWithRow, IsLast, Operations, Decisions
<1>10. ResolvedAfterDecided'
  BY <1>1 DEF IInv, ResolvedAfterDecided
<1> QED
  BY <1>6, <1>7, <1>8, <1>9, <1>10 DEF IInv

------------------------------------------------------------------------------
LEMMA Start == Init => IInv
<1> SUFFICES ASSUME Init PROVE IInv
  OBVIOUS
<1>1. TypeOK
  BY Idling DEF Init, TypeOK, Statuses, Sensible
<1>2. ASSUME NEW s \in Sessions PROVE Knows(s) /\ Holds(s)
  BY Idling, SentinelAssumption DEF Init, Knows, Holds, InReview, Writing
<1>3. RowsAndEvents /\ LedgerAgreesWithRow /\ ResolvedAfterDecided
  BY DEF Init, RowsAndEvents, LedgerAgreesWithRow, ResolvedAfterDecided, Operations, Decisions
<1> QED
  BY <1>1, <1>2, <1>3 DEF IInv

LEMMA Step == IInv /\ [Next]_vars => IInv'
<1> SUFFICES ASSUME IInv, [Next]_vars PROVE IInv'
  OBVIOUS
<1>1. ASSUME NEW k \in Tasks, CreateTask(k) PROVE IInv'
  BY <1>1, CreateTaskKeeps
<1>2. ASSUME NEW s \in Sessions, NEW op \in Operations, NEW ids \in Batches, StartReview(s, op, ids)
      PROVE  IInv'
  BY <1>2, StartReviewKeeps
<1>3. ASSUME NEW s \in Sessions, NEW c \in Cases, StartDelete(s, c) PROVE IInv'
  BY <1>3, StartDeleteKeeps
<1>4. ASSUME NEW s \in Sessions, ReviewStep(s) PROVE IInv'
  <2>1. CASE LoadTask(s)
    BY <2>1, LoadKeeps
  <2>2. CASE FlushTask(s)
    BY <2>2, FlushTaskKeeps
  <2>3. CASE TakeLedgerLock(s)
    BY <2>3, LedgerLockKeeps
  <2>4. CASE FlushBeforeTail(s)
    BY <2>4, FlushBeforeTailKeeps
  <2>5. CASE CommitReview(s)
    BY <2>5, CommitReviewKeeps
  <2>6. CASE StaleFlush(s)
    BY <2>6, AbortKeeps DEF StaleFlush
  <2> QED
    BY <1>4, <2>1, <2>2, <2>3, <2>4, <2>5, <2>6 DEF ReviewStep
<1>5. ASSUME NEW s \in Sessions, DeleteStep(s) PROVE IInv'
  BY <1>5, LockCaseKeeps, LockFindingKeeps, CommitDeleteKeeps DEF DeleteStep
<1>6. ASSUME NEW s \in Sessions, BreakDeadlock(s) \/ Fail(s) PROVE IInv'
  BY <1>6, AbortKeeps DEF BreakDeadlock, Fail
<1>7. CASE UNCHANGED vars
  BY <1>7 DEF vars, IInv, TypeOK, Knows, Holds, Alive, DecidedBy, HasCase, Current, RowsAndEvents,
              LedgerAgreesWithRow, IsLast, ResolvedAfterDecided
<1> QED
  BY <1>1, <1>2, <1>3, <1>4, <1>5, <1>6, <1>7 DEF Next, Rest

\* Every state the program reaches satisfies the invariant.
THEOREM Invariance == Spec => []IInv
<1> QED
  BY Start, Step, PTL DEF Spec

(***************************************************************************)
(* The state of a session and of its request stays within its type: a      *)
(* request that works on a finding has one, a deletion knows its case.     *)
(***************************************************************************)
THEOREM TypeCorrect == Spec => []TypeOK
<1>1. IInv => TypeOK
  BY DEF IInv
<1> QED
  BY <1>1, Invariance, PTL

(***************************************************************************)
(* However many requests decide, resolve and delete at the same time, the  *)
(* last event the ledger has of a finding is what its row shows.           *)
(***************************************************************************)
THEOREM RowsMatchLedger == Spec => []LedgerAgreesWithRow
<1>1. IInv => LedgerAgreesWithRow
  BY DEF IInv
<1> QED
  BY <1>1, Invariance, PTL

(***************************************************************************)
(* The ledger never shows the resolution of a finding that nobody decided, *)
(* or in the name of somebody who did not.                                 *)
(***************************************************************************)
THEOREM ResolutionFollowsDecision == Spec => []ResolvedAfterDecided
<1>1. IInv => ResolvedAfterDecided
  BY DEF IInv
<1> QED
  BY <1>1, Invariance, PTL

------------------------------------------------------------------------------
(***************************************************************************)
(* Without deletions the locks are taken in one order: what a reviewing    *)
(* session waits for is held by one that is further on, and the one that   *)
(* is furthest, at the commit, waits for nothing.                          *)
(***************************************************************************)
LEMMA FurtherOn ==
  ASSUME IInv, NEW s \in Sessions, NEW t \in Sessions, WaitsFor(s, t),
         sess[s].pc # "cascade", sess[t].pc # "cascade"
  PROVE  \/ sess[s].pc = "delete_case" /\ sess[t].pc = "commit"
         \/ sess[s].pc = "loaded" /\ sess[t].pc \in Writing
         \/ sess[s].pc = "append" /\ sess[t].pc \in {"flush", "commit"}
         \/ sess[s].pc = "flush" /\ sess[t].pc = "commit"
<1>1. PICK l \in Wanted(s) : owner[l] = t
  BY DEF WaitsFor
<1>2. /\ sess[s] \in Session /\ Knows(s) /\ Holds(t)
      /\ sess[s].pc \in InReview => Current(s) \in Tasks
  BY Facts
<1>3. sess[s].pc \in {"loaded", "append", "flush", "delete_case"}
  BY <1>1 DEF Wanted
<1>4. CASE sess[s].pc = "delete_case"
  <2>1. l = sess[s].case /\ l \in Cases /\ l \in Locks
    BY <1>1, <1>4 DEF Wanted, IInv, TypeOK, Locks
  <2> QED
    BY <1>1, <1>2, <1>4, <2>1 DEF Holds
<1>5. CASE sess[s].pc = "loaded"
  <2>1. l = Current(s) /\ l \in Tasks /\ l \in Locks
    BY <1>1, <1>2, <1>5 DEF Wanted, InReview, Locks
  <2> QED
    BY <1>1, <1>2, <1>5, <2>1 DEF Holds, Writing
<1>6. CASE sess[s].pc = "append"
  <2>1. l = Ledger /\ l \in Locks
    BY <1>1, <1>6 DEF Wanted, Locks
  <2> QED
    BY <1>1, <1>2, <1>6, <2>1 DEF Holds
<1>7. CASE sess[s].pc = "flush"
  <2>1. Current(s) \in Tasks /\ l = LastRow(Current(s))
    BY <1>1, <1>2, <1>7 DEF Wanted, InReview
  <2>2. CASE HasCase(Current(s))
    <3>1. l \in Cases /\ l \in Locks
      BY <2>1, <2>2, CaseOfAssumption DEF LastRow, HasCase, Locks
    <3> QED
      BY <1>1, <1>2, <1>7, <3>1 DEF Holds
  <2>3. CASE ~HasCase(Current(s))
    <3>1. l \in Tasks /\ l \in Locks /\ ~HasCase(l)
      BY <2>1, <2>3 DEF LastRow, Locks
    <3> QED
      BY <1>1, <1>2, <1>7, <3>1 DEF Holds
  <2> QED
    BY <2>2, <2>3
<1> QED
  BY <1>3, <1>4, <1>5, <1>6, <1>7

LEMMA CyclesNeedDeletion == IInv => DeadlocksInvolveDeletion
<1> SUFFICES ASSUME IInv, NEW s0 \in Sessions, InDeadlock(s0)
             PROVE  \E s \in Sessions : InDeadlock(s) /\ sess[s].pc = "cascade"
  BY DEF DeadlocksInvolveDeletion
<1>1. PICK C \in SUBSET Sessions : s0 \in C /\ Cycles(C) # {}
  BY DEF InDeadlock
<1>2. PICK next : next \in Surjection(C, C) /\ \A s \in C : WaitsFor(s, next[s])
  BY <1>1 DEF Cycles
<1>3. \A s \in C : next[s] \in C
  BY <1>2 DEF Surjection
<1>4. SUFFICES ASSUME \A s \in C : sess[s].pc # "cascade" PROVE FALSE
  BY <1>1 DEF InDeadlock
<1>5. ASSUME NEW s \in C
      PROVE  \/ sess[s].pc = "delete_case" /\ sess[next[s]].pc = "commit"
             \/ sess[s].pc = "loaded" /\ sess[next[s]].pc \in Writing
             \/ sess[s].pc = "append" /\ sess[next[s]].pc \in {"flush", "commit"}
             \/ sess[s].pc = "flush" /\ sess[next[s]].pc = "commit"
  BY <1>2, <1>3, <1>4, FurtherOn
<1>6. \A s \in C : sess[s].pc # "commit"
  BY <1>5
<1>7. \A s \in C : sess[s].pc \notin {"delete_case", "flush"}
  BY <1>3, <1>5, <1>6
<1>8. \A s \in C : sess[s].pc # "append"
  BY <1>3, <1>5, <1>6, <1>7
<1>9. \A s \in C : sess[s].pc # "loaded"
  BY <1>3, <1>5, <1>6, <1>7, <1>8 DEF Writing
<1> QED
  BY <1>1, <1>5, <1>6, <1>7, <1>8, <1>9

(***************************************************************************)
(* Sessions that only decide and resolve findings never wait for each      *)
(* other in a circle: every deadlock has a deletion that holds its case.   *)
(***************************************************************************)
THEOREM ReviewersDoNotDeadlock == Spec => []DeadlocksInvolveDeletion
<1> QED
  BY Invariance, CyclesNeedDeletion, PTL
===============================================================================
