----------------------------- MODULE AuditLedger -----------------------------
(***************************************************************************)
(* The hash-chained table audit_events and the transactions that append to *)
(* it: append_event of app/services/audit_ledger.py, called by every       *)
(* service inside the transaction of the action it records.                *)
(*                                                                         *)
(* A writer is one database session.  append_event takes the transaction-  *)
(* scoped advisory lock, reads the entry_hash of the newest visible row,   *)
(* inserts a row chained to it, and leaves the commit to the caller.  Each *)
(* of these is a round trip to PostgreSQL and other sessions run between   *)
(* any two of them.  Sessions are READ COMMITTED: the tail query sees the  *)
(* rows committed when it runs.  The lock ends with the transaction.       *)
(*                                                                         *)
(* The hash is ideal: sha256(prev || payload) is Append(prev, payload), so *)
(* a digest is the sequence of the payloads it covers and the genesis      *)
(* digest is the empty sequence.  Two digests are equal only when they     *)
(* cover the same history, which is what collision resistance provides.    *)
(***************************************************************************)
EXTENDS Integers, Sequences

CONSTANTS Writers,      \* database sessions that append
          Payloads,     \* the hashed fields of an event
          Free,         \* owner of the advisory lock when nobody holds it
          MaxSequence   \* bound: values the sequence hands out in a behaviour

ASSUME FreeAssumption == Free \notin Writers
ASSUME MaxSequenceAssumption == MaxSequence \in Nat

VARIABLES rows,          \* committed rows of audit_events
          pending,       \* pending[w]: rows inserted by w's open transaction
          nextSequence,  \* next value of audit_events_sequence_seq
          lockHolder,    \* owner of the advisory lock
          tail,          \* tail[w]: entry_hash w read from the newest row
          pc             \* pc[w]: how far w is inside append_event

vars == <<rows, pending, nextSequence, lockHolder, tail, pc>>

Digest == Seq(Payloads)
GENESIS_HASH == <<>>

\* Mutant: the pair is hashed, not the concatenation.
HashOfPair(prev_hash, payload) == <<prev_hash, payload>>
compute_entry_hash(prev_hash, payload) == Append(prev_hash, payload)

AuditEvent == [sequence   : Nat,
               prev_hash  : Digest,
               payload    : Payloads,
               entry_hash : Digest]

(***************************************************************************)
(* ORDER BY sequence DESC LIMIT 1, and the hash the next row chains from.  *)
(***************************************************************************)
\* Mutant: ORDER BY sequence without DESC.
Oldest(T) == CHOOSE r \in T : \A q \in T : r.sequence <= q.sequence
Newest(T) == CHOOSE r \in T : \A q \in T : q.sequence <= r.sequence
TailHash(T) == IF T = {} THEN GENESIS_HASH ELSE Newest(T).entry_hash

\* Mutant: every row is hashed as if it were the first one.
ChainedToGenesis(w, p) == [sequence   |-> nextSequence,
                           prev_hash  |-> tail[w],
                           payload    |-> p,
                           entry_hash |-> compute_entry_hash(GENESIS_HASH, p)]
NewRow(w, p) == [sequence   |-> nextSequence,
                 prev_hash  |-> tail[w],
                 payload    |-> p,
                 entry_hash |-> compute_entry_hash(tail[w], p)]

InCriticalSection == {"locked", "tail_read", "inserted"}

TypeOK ==
  /\ rows \in SUBSET AuditEvent
  /\ pending \in [Writers -> SUBSET AuditEvent]
  /\ nextSequence \in Nat
  /\ lockHolder \in Writers \cup {Free}
  /\ tail \in [Writers -> Digest]
  /\ pc \in [Writers -> {"idle", "waiting"} \cup InCriticalSection]

Init ==
  /\ rows = {}
  /\ pending = [w \in Writers |-> {}]
  /\ nextSequence = 1
  /\ lockHolder = Free
  /\ tail = [w \in Writers |-> GENESIS_HASH]
  /\ pc = [w \in Writers |-> "idle"]

(***************************************************************************)
(* The steps of append_event.                                              *)
(***************************************************************************)
RequestLock(w) ==
  /\ pc[w] = "idle"
  /\ pc' = [pc EXCEPT ![w] = "waiting"]
  /\ UNCHANGED <<rows, pending, nextSequence, lockHolder, tail>>

AcquireLock(w) ==
  /\ pc[w] = "waiting"
  /\ lockHolder = Free
  /\ lockHolder' = w
  /\ pc' = [pc EXCEPT ![w] = "locked"]
  /\ UNCHANGED <<rows, pending, nextSequence, tail>>

ReadTail(w) ==
  /\ pc[w] = "locked"
  /\ tail' = [tail EXCEPT ![w] = TailHash(rows)]
  /\ pc' = [pc EXCEPT ![w] = "tail_read"]
  /\ UNCHANGED <<rows, pending, nextSequence, lockHolder>>

\* Mutant: a lock that is given back after the insert, before the commit.
InsertAndUnlock(w, p) ==
  /\ pc[w] = "tail_read"
  /\ nextSequence <= MaxSequence
  /\ pending' = [pending EXCEPT ![w] = {NewRow(w, p)}]
  /\ nextSequence' = nextSequence + 1
  /\ lockHolder' = Free
  /\ pc' = [pc EXCEPT ![w] = "inserted"]
  /\ UNCHANGED <<rows, tail>>

InsertRow(w, p) ==
  /\ pc[w] = "tail_read"
  /\ nextSequence <= MaxSequence
  /\ pending' = [pending EXCEPT ![w] = {NewRow(w, p)}]
  /\ nextSequence' = nextSequence + 1
  /\ pc' = [pc EXCEPT ![w] = "inserted"]
  /\ UNCHANGED <<rows, lockHolder, tail>>

(***************************************************************************)
(* The caller's commit, and the rollback that an exception in the caller,  *)
(* a failed statement, a lost connection or a crash of the server or of    *)
(* PostgreSQL turns into.  A value drawn from the sequence is not returned.*)
(***************************************************************************)
\* Mutant: a session-level lock, which the end of the transaction keeps.
EndWithoutUnlock(w) ==
  /\ pending' = [pending EXCEPT ![w] = {}]
  /\ tail' = [tail EXCEPT ![w] = GENESIS_HASH]
  /\ pc' = [pc EXCEPT ![w] = "idle"]
  /\ UNCHANGED <<nextSequence, lockHolder>>

EndTransaction(w) ==
  /\ lockHolder' = IF lockHolder = w THEN Free ELSE lockHolder
  /\ pending' = [pending EXCEPT ![w] = {}]
  /\ tail' = [tail EXCEPT ![w] = GENESIS_HASH]
  /\ pc' = [pc EXCEPT ![w] = "idle"]
  /\ UNCHANGED nextSequence

Commit(w) ==
  /\ pc[w] = "inserted"
  /\ rows' = rows \cup pending[w]
  /\ EndTransaction(w)

Rollback(w) ==
  /\ pc[w] # "idle"
  /\ rows' = rows
  /\ EndTransaction(w)

Next ==
  \E w \in Writers :
    \/ RequestLock(w)
    \/ AcquireLock(w)
    \/ ReadTail(w)
    \/ \E p \in Payloads : InsertRow(w, p)
    \/ Commit(w)
    \/ Rollback(w)

Spec == Init /\ [][Next]_vars

(***************************************************************************)
(* A caller that started an append keeps executing and ends its            *)
(* transaction one way or the other; PostgreSQL queues the waiters of a    *)
(* lock, so one that keeps becoming grantable is granted in the end.       *)
(***************************************************************************)
Proceed(w) ==
  \/ ReadTail(w)
  \/ \E p \in Payloads : InsertRow(w, p)
  \/ Commit(w)
  \/ pc[w] \in InCriticalSection /\ Rollback(w)

Fairness == \A w \in Writers : WF_vars(Proceed(w)) /\ SF_vars(AcquireLock(w))

FairSpec == Spec /\ Fairness

------------------------------------------------------------------------------
(***************************************************************************)
(* ChainIntact: every committed row is linked to the committed row just    *)
(* before it in sequence order (the first one to the genesis hash), and    *)
(* carries the hash of that link and its own payload.  This is what the    *)
(* lock of append_event is there to keep under concurrent appends.         *)
(***************************************************************************)
Before(T, r) == {q \in T : q.sequence < r.sequence}

ChainIntact ==
  \A r \in rows :
    /\ r.prev_hash = TailHash(Before(rows, r))
    /\ r.entry_hash = compute_entry_hash(r.prev_hash, r.payload)

(***************************************************************************)
(* NoFork: no two committed rows chain from the same predecessor.          *)
(***************************************************************************)
NoFork == \A r, q \in rows : r.prev_hash = q.prev_hash => r = q

(***************************************************************************)
(* GrowsAtTheEnd: a step that changes the table only adds rows, and every  *)
(* row it adds has a sequence above every row that was there, although the *)
(* sequence is drawn before the commit and rollbacks leave gaps in it.     *)
(***************************************************************************)
GrowsAtTheEnd ==
  [][/\ rows \subseteq rows'
     /\ \A r \in rows, q \in rows' \ rows : r.sequence < q.sequence]_rows

(***************************************************************************)
(* AppendsFinish: an append that waits for the lock does not wait for ever *)
(* behind other appends.                                                   *)
(***************************************************************************)
AppendsFinish == \A w \in Writers : pc[w] = "waiting" ~> pc[w] = "idle"

(***************************************************************************)
(* ImplementsLog: the table implements the append-only log, whose content  *)
(* is the history that the newest row's hash covers.                       *)
(***************************************************************************)
Log == INSTANCE AppendOnlyLog WITH log <- TailHash(rows)
ImplementsLog == Log!Spec
==============================================================================
