------------------------------ MODULE AuditProofs ------------------------------
(***************************************************************************)
(* Proofs about the audit ledger (AuditLedger), its verification           *)
(* (LedgerVerification), and the trail that is put together from it and    *)
(* the tables (AuditTrail).  Each part begins with its argument.           *)
(***************************************************************************)
EXTENDS LedgerVerification, AuditTrail, SequenceTheorems, WellFoundedInduction, TLAPS

------------------------------------------------------------------------------
(***************************************************************************)
(* Proofs about AuditLedger for any number of writers, any payloads and    *)
(* any number of rows: type correctness, the integrity of the chain, the   *)
(* absence of forks, growth at the end only, and the implementation of the *)
(* append-only log.                                                        *)
(*                                                                         *)
(* The argument.  The lock makes the span from the tail query to the       *)
(* commit exclusive (Exclusive), so the tail a writer read is still the    *)
(* tail when it commits (TailIsCurrent), and the row it inserted has a     *)
(* sequence above every committed row (PendingIsNext).  Committing such a  *)
(* row extends the chain at its end.                                       *)
(***************************************************************************)

(***************************************************************************)
(* The parts of the inductive invariant.                                   *)
(***************************************************************************)
Exclusive ==
  \A w \in Writers : pc[w] \in InCriticalSection <=> lockHolder = w

TailIsCurrent ==
  \A w \in Writers : pc[w] \in {"tail_read", "inserted"} => tail[w] = TailHash(rows)

PendingIsNext ==
  \A w \in Writers :
    /\ pc[w] # "inserted" => pending[w] = {}
    /\ pc[w] = "inserted" =>
         \E n \in Nat, p \in Payloads :
           /\ n < nextSequence
           /\ \A r \in rows : r.sequence < n
           /\ pending[w] = {[sequence   |-> n,
                             prev_hash  |-> tail[w],
                             payload    |-> p,
                             entry_hash |-> Append(tail[w], p)]}

SequencesDrawn == \A r \in rows : r.sequence < nextSequence

NewestExists ==
  rows # {} => \E r \in rows : \A q \in rows \ {r} : q.sequence < r.sequence

LaterIsLonger ==
  \A r, q \in rows : r.sequence < q.sequence => Len(r.entry_hash) < Len(q.entry_hash)

OneRowPerSequence == \A r, q \in rows : r.sequence = q.sequence => r = q

TableInv ==
  /\ SequencesDrawn
  /\ OneRowPerSequence
  /\ NewestExists
  /\ LaterIsLonger
  /\ ChainIntact

IInv == TypeOK /\ Exclusive /\ TailIsCurrent /\ PendingIsNext /\ TableInv

------------------------------------------------------------------------------
(***************************************************************************)
(* TailHashType: the tail query returns a digest: the entry_hash of the    *)
(* newest row, or the genesis hash of an empty table.                      *)
(***************************************************************************)
LEMMA TailHashType ==
  ASSUME NEW T \in SUBSET AuditEvent,
         \E r \in T : \A q \in T : q.sequence <= r.sequence
  PROVE  /\ Newest(T) \in T
         /\ \A q \in T : q.sequence <= Newest(T).sequence
         /\ TailHash(T) \in Digest
         /\ TailHash(T) = Newest(T).entry_hash
<1>1. /\ Newest(T) \in T
      /\ \A q \in T : q.sequence <= Newest(T).sequence
  BY DEF Newest
<1>2. T # {}
  OBVIOUS
<1>3. Newest(T).entry_hash \in Digest
  BY <1>1 DEF AuditEvent
<1>4. QED
  BY <1>1, <1>2, <1>3 DEF TailHash

(***************************************************************************)
(* Appending a row with a sequence above all others makes it the newest.   *)
(***************************************************************************)
LEMMA NewestAfterAppend ==
  ASSUME NEW T \in SUBSET AuditEvent, NEW r \in AuditEvent,
         \A q \in T : q.sequence < r.sequence
  PROVE  /\ Newest(T \cup {r}) = r
         /\ TailHash(T \cup {r}) = r.entry_hash
<1> DEFINE U == T \cup {r}
<1>1. \A q \in U : q.sequence \in Nat
  BY DEF AuditEvent
<1>2. \A q \in U : q.sequence <= r.sequence
  BY <1>1
<1>3. \A x \in U : (\A q \in U : q.sequence <= x.sequence) => x = r
  BY <1>1
<1>4. Newest(U) = r
  BY <1>2, <1>3 DEF Newest
<1>5. QED
  BY <1>4 DEF TailHash

(***************************************************************************)
(* GenesisType: the genesis hash is a digest, the one of no event.         *)
(***************************************************************************)
LEMMA GenesisType == GENESIS_HASH \in Digest
  BY EmptySeq DEF GENESIS_HASH, Digest

(***************************************************************************)
(* Under the invariant the hash read by the tail query is a digest.        *)
(***************************************************************************)
LEMMA TailIsDigest ==
  ASSUME TypeOK, NewestExists
  PROVE  TailHash(rows) \in Digest
<1>1. CASE rows = {}
  BY <1>1, GenesisType DEF TailHash
<1>2. CASE rows # {}
  <2>1. \A r \in rows : r.sequence \in Nat
    BY DEF TypeOK, AuditEvent
  <2>2. \E r \in rows : \A q \in rows : q.sequence <= r.sequence
    BY <1>2, <2>1 DEF NewestExists
  <2>3. QED
    BY <2>2, TailHashType DEF TypeOK
<1>3. QED
  BY <1>1, <1>2

------------------------------------------------------------------------------
(***************************************************************************)
(* What depends only on the table survives a step that leaves it alone and *)
(* draws at most one value from the sequence.                              *)
(***************************************************************************)
LEMMA TableUntouched ==
  ASSUME TypeOK, TableInv, rows' = rows,
         nextSequence' = nextSequence \/ nextSequence' = nextSequence + 1
  PROVE  TableInv'
<1>1. SequencesDrawn'
  BY DEF TableInv, SequencesDrawn, TypeOK, AuditEvent
<1>2. OneRowPerSequence' /\ NewestExists' /\ LaterIsLonger'
  BY DEF TableInv, OneRowPerSequence, NewestExists, LaterIsLonger
<1>3. ChainIntact'
  BY DEF TableInv, ChainIntact, Before, TailHash, Newest
<1>4. QED
  BY <1>1, <1>2, <1>3 DEF TableInv

(***************************************************************************)
(* Committing a row that is chained to the tail and has a sequence above   *)
(* every committed row keeps the table's invariant.                        *)
(***************************************************************************)
LEMMA RowAppended ==
  ASSUME TypeOK, TableInv, nextSequence' = nextSequence,
         NEW r \in AuditEvent, rows' = rows \cup {r},
         r.sequence < nextSequence,
         \A q \in rows : q.sequence < r.sequence,
         r.prev_hash = TailHash(rows),
         r.entry_hash = Append(r.prev_hash, r.payload)
  PROVE  TableInv'
<1>1. \A q \in rows' : q \in AuditEvent /\ q.sequence \in Nat
  BY DEF TypeOK, AuditEvent
<1>2. SequencesDrawn' /\ OneRowPerSequence'
  BY <1>1 DEF TableInv, SequencesDrawn, OneRowPerSequence
<1>3. NewestExists'
  BY <1>1 DEF NewestExists
<1>4. Len(r.entry_hash) = Len(r.prev_hash) + 1
  BY AppendProperties DEF AuditEvent, Digest
<1>5. LaterIsLonger'
  <2>1. ASSUME NEW q \in rows
        PROVE  Len(q.entry_hash) < Len(r.entry_hash)
    <3>1. /\ Newest(rows) \in rows
          /\ q.sequence <= Newest(rows).sequence
          /\ TailHash(rows) = Newest(rows).entry_hash
      <4>1. \E x \in rows : \A y \in rows : y.sequence <= x.sequence
        BY <1>1, <2>1 DEF TableInv, NewestExists
      <4>2. QED
        BY <4>1, <2>1, TailHashType DEF TypeOK
    <3>2. q.entry_hash \in Digest /\ Newest(rows).entry_hash \in Digest
      BY <1>1, <2>1, <3>1 DEF AuditEvent
    <3>3. Len(q.entry_hash) \in Nat /\ Len(Newest(rows).entry_hash) \in Nat
      BY <3>2, LenProperties DEF Digest
    <3>4. Len(q.entry_hash) <= Len(Newest(rows).entry_hash)
      BY <1>1, <2>1, <3>1, <3>3 DEF TableInv, LaterIsLonger, OneRowPerSequence
    <3>5. QED
      BY <1>4, <3>1, <3>3, <3>4
  <2>2. \A q \in rows : ~ (r.sequence < q.sequence)
    BY <1>1
  <2>3. ~ (r.sequence < r.sequence)
    BY <1>1
  <2>4. QED
    BY <2>1, <2>2, <2>3 DEF TableInv, LaterIsLonger
<1>6. ChainIntact'
  <2>1. Before(rows', r) = rows
    BY <1>1 DEF Before
  <2>2. \A q \in rows : Before(rows', q) = Before(rows, q)
    BY <1>1 DEF Before
  <2>3. \A T : (TailHash(T))' = TailHash(T)
    BY DEF TailHash, Newest
  <2>4. ASSUME NEW q \in rows'
        PROVE  /\ q.prev_hash = TailHash(Before(rows', q))
               /\ q.entry_hash = compute_entry_hash(q.prev_hash, q.payload)
    BY <2>1, <2>2 DEF TableInv, ChainIntact, compute_entry_hash
  <2>5. QED
    BY <2>4 DEF ChainIntact, TailHash, Newest, Before
<1>7. QED
  BY <1>2, <1>3, <1>5, <1>6 DEF TableInv

------------------------------------------------------------------------------
(***************************************************************************)
(* InitEstablishesIInv: the empty table and idle sessions satisfy the      *)
(* invariant.                                                              *)
(***************************************************************************)
LEMMA InitEstablishesIInv == Init => IInv
<1> SUFFICES ASSUME Init PROVE IInv
  OBVIOUS
<1>1. TypeOK
  BY GenesisType DEF Init, TypeOK
<1>2. Exclusive
  BY FreeAssumption DEF Init, Exclusive, InCriticalSection
<1>3. TailIsCurrent /\ PendingIsNext
  BY DEF Init, TailIsCurrent, PendingIsNext
<1>4. TableInv
  BY DEF Init, TableInv, SequencesDrawn, OneRowPerSequence, NewestExists,
         LaterIsLonger, ChainIntact
<1>5. QED
  BY <1>1, <1>2, <1>3, <1>4 DEF IInv

(***************************************************************************)
(* A step that only moves the program counters and the lock.               *)
(***************************************************************************)
LEMMA WaitingSteps ==
  ASSUME IInv, NEW w \in Writers, RequestLock(w) \/ AcquireLock(w)
  PROVE  IInv'
<1> USE DEF RequestLock, AcquireLock
<1>1. TypeOK'
  BY DEF IInv, TypeOK, InCriticalSection
<1>2. Exclusive'
  BY FreeAssumption DEF IInv, TypeOK, Exclusive, InCriticalSection
<1>3. TailIsCurrent'
  BY DEF IInv, TypeOK, TailIsCurrent, TailHash, Newest
<1>4. PendingIsNext'
  BY DEF IInv, TypeOK, PendingIsNext
<1>5. TableInv'
  BY TableUntouched DEF IInv
<1>6. QED
  BY <1>1, <1>2, <1>3, <1>4, <1>5 DEF IInv

(***************************************************************************)
(* ReadTailStep: what append_event reads under the lock is the hash of the *)
(* newest committed row, and stays so until the lock is released.          *)
(***************************************************************************)
LEMMA ReadTailStep ==
  ASSUME IInv, NEW w \in Writers, ReadTail(w)
  PROVE  IInv'
<1> USE DEF ReadTail
<1>1. TypeOK'
  <2>1. TailHash(rows) \in Digest
    BY TailIsDigest DEF IInv, TableInv
  <2>2. QED
    BY <2>1 DEF IInv, TypeOK, InCriticalSection
<1>2. Exclusive'
  BY DEF IInv, TypeOK, Exclusive, InCriticalSection
<1>3. TailIsCurrent'
  BY DEF IInv, TypeOK, TailIsCurrent, TailHash, Newest
<1>4. PendingIsNext'
  BY DEF IInv, TypeOK, PendingIsNext
<1>5. TableInv'
  BY TableUntouched DEF IInv
<1>6. QED
  BY <1>1, <1>2, <1>3, <1>4, <1>5 DEF IInv

(***************************************************************************)
(* InsertRowStep: the row inserted under the lock is chained to the tail   *)
(* and has a sequence above every committed row.                           *)
(***************************************************************************)
LEMMA InsertRowStep ==
  ASSUME IInv, NEW w \in Writers, NEW p \in Payloads, InsertRow(w, p)
  PROVE  IInv'
<1> USE DEF InsertRow
<1>1. NewRow(w, p) \in AuditEvent
  <2>1. tail[w] \in Seq(Payloads)
    BY DEF IInv, TypeOK, Digest
  <2>2. Append(tail[w], p) \in Seq(Payloads)
    BY <2>1, AppendProperties
  <2>3. QED
    BY <2>1, <2>2 DEF IInv, TypeOK, NewRow, AuditEvent, Digest, compute_entry_hash
<1>2. TypeOK'
  BY <1>1 DEF IInv, TypeOK, InCriticalSection
<1>3. Exclusive'
  BY DEF IInv, TypeOK, Exclusive, InCriticalSection
<1>4. TailIsCurrent'
  BY DEF IInv, TypeOK, TailIsCurrent, TailHash, Newest
<1>5. PendingIsNext'
  <2> SUFFICES ASSUME NEW v \in Writers
               PROVE  /\ pc'[v] # "inserted" => pending'[v] = {}
                      /\ pc'[v] = "inserted" =>
                           \E n \in Nat, x \in Payloads :
                             /\ n < nextSequence'
                             /\ \A r \in rows' : r.sequence < n
                             /\ pending'[v] = {[sequence   |-> n,
                                               prev_hash  |-> tail'[v],
                                               payload    |-> x,
                                               entry_hash |-> Append(tail'[v], x)]}
    BY DEF PendingIsNext
  <2>1. CASE v = w
    <3>1. pc'[v] = "inserted"
      BY <2>1 DEF IInv, TypeOK
    <3>2. /\ nextSequence \in Nat
          /\ nextSequence < nextSequence'
          /\ \A r \in rows' : r.sequence < nextSequence
      BY DEF IInv, TypeOK, TableInv, SequencesDrawn
    <3>3. pending'[v] = {[sequence   |-> nextSequence,
                          prev_hash  |-> tail'[v],
                          payload    |-> p,
                          entry_hash |-> Append(tail'[v], p)]}
      BY <2>1 DEF IInv, TypeOK, NewRow, compute_entry_hash
    <3>4. QED
      BY <3>1, <3>2, <3>3
  <2>2. CASE v # w
    <3>1. pc'[v] = pc[v] /\ pending'[v] = pending[v] /\ tail'[v] = tail[v]
      BY <2>2 DEF IInv, TypeOK
    <3>2. pc[v] # "inserted"
      BY <2>2 DEF IInv, Exclusive, InCriticalSection
    <3>3. QED
      BY <3>1, <3>2 DEF IInv, PendingIsNext
  <2>3. QED
    BY <2>1, <2>2
<1>6. TableInv'
  BY TableUntouched DEF IInv
<1>7. QED
  BY <1>2, <1>3, <1>4, <1>5, <1>6 DEF IInv

(***************************************************************************)
(* The row a commit publishes is the one RowAppended speaks of.            *)
(***************************************************************************)
LEMMA CommittedRow ==
  ASSUME IInv, NEW w \in Writers, Commit(w)
  PROVE  \E r \in AuditEvent :
           /\ rows' = rows \cup {r}
           /\ r.sequence < nextSequence
           /\ \A q \in rows : q.sequence < r.sequence
           /\ r.prev_hash = TailHash(rows)
           /\ r.entry_hash = Append(r.prev_hash, r.payload)
<1>1. PICK n \in Nat, p \in Payloads :
        /\ n < nextSequence
        /\ \A r \in rows : r.sequence < n
        /\ pending[w] = {[sequence   |-> n,
                         prev_hash  |-> tail[w],
                         payload    |-> p,
                         entry_hash |-> Append(tail[w], p)]}
  BY DEF IInv, PendingIsNext, Commit
<1> DEFINE r == [sequence   |-> n,
                 prev_hash  |-> tail[w],
                 payload    |-> p,
                 entry_hash |-> Append(tail[w], p)]
<1>2. r \in AuditEvent
  <2>1. r \in pending[w]
    BY <1>1
  <2>2. QED
    BY <2>1 DEF IInv, TypeOK
<1>3. tail[w] = TailHash(rows)
  BY DEF IInv, TailIsCurrent, Commit
<1>4. rows' = rows \cup {r}
  BY <1>1 DEF Commit
<1>5. QED
  BY <1>1, <1>2, <1>3, <1>4

(***************************************************************************)
(* EndTransactionStep: a commit adds exactly the row of the session that   *)
(* holds the lock; a rollback leaves the table as it was.                  *)
(***************************************************************************)
LEMMA EndTransactionStep ==
  ASSUME IInv, NEW w \in Writers, Commit(w) \/ Rollback(w)
  PROVE  IInv'
<1> USE DEF EndTransaction
<1>1. CASE Commit(w)
  <2>1. PICK r \in AuditEvent :
           /\ rows' = rows \cup {r}
           /\ r.sequence < nextSequence
           /\ \A q \in rows : q.sequence < r.sequence
           /\ r.prev_hash = TailHash(rows)
           /\ r.entry_hash = Append(r.prev_hash, r.payload)
    BY <1>1, CommittedRow
  <2>2. TypeOK'
    BY <1>1, <2>1, GenesisType DEF IInv, TypeOK, Commit, InCriticalSection
  <2>3. TableInv'
    BY <1>1, <2>1, RowAppended DEF IInv, Commit
  <2>4. \A v \in Writers : pc'[v] \notin {"tail_read", "inserted"}
    BY <1>1 DEF IInv, TypeOK, Exclusive, InCriticalSection, Commit
  <2>5. TailIsCurrent'
    BY <2>4 DEF TailIsCurrent
  <2>6. PendingIsNext'
    BY <1>1, <2>4 DEF IInv, TypeOK, PendingIsNext, Commit
  <2>7. Exclusive'
    BY <1>1, FreeAssumption DEF IInv, TypeOK, Exclusive, InCriticalSection, Commit
  <2>8. QED
    BY <2>2, <2>3, <2>5, <2>6, <2>7 DEF IInv
<1>2. CASE Rollback(w)
  <2>1. TypeOK'
    BY <1>2, GenesisType DEF IInv, TypeOK, Rollback, InCriticalSection
  <2>2. TableInv'
    BY <1>2, TableUntouched DEF IInv, Rollback
  <2>3. TailIsCurrent'
    <3>1. TailHash(rows)' = TailHash(rows)
      BY <1>2 DEF Rollback, TailHash, Newest
    <3>2. \A v \in Writers : pc'[v] \in {"tail_read", "inserted"} =>
                              pc[v] = pc'[v] /\ tail'[v] = tail[v]
      BY <1>2 DEF IInv, TypeOK, Rollback
    <3>3. QED
      BY <3>1, <3>2 DEF IInv, TailIsCurrent
  <2>4. PendingIsNext'
    <3>1. /\ pending'[w] = {} /\ pc'[w] = "idle"
          /\ rows' = rows /\ nextSequence' = nextSequence
          /\ \A v \in Writers \ {w} : /\ pending'[v] = pending[v]
                                      /\ pc'[v] = pc[v] /\ tail'[v] = tail[v]
      BY <1>2 DEF IInv, TypeOK, Rollback
    <3>2. QED
      BY <3>1 DEF IInv, PendingIsNext
  <2>5. Exclusive'
    BY <1>2, FreeAssumption DEF IInv, TypeOK, Exclusive, InCriticalSection, Rollback
  <2>6. QED
    BY <2>1, <2>2, <2>3, <2>4, <2>5 DEF IInv
<1>3. QED
  BY <1>1, <1>2

(***************************************************************************)
(* StepKeepsIInv: every step, of any session, keeps the invariant.         *)
(***************************************************************************)
LEMMA StepKeepsIInv == IInv /\ [Next]_vars => IInv'
<1> SUFFICES ASSUME IInv, [Next]_vars PROVE IInv'
  OBVIOUS
<1>1. CASE UNCHANGED vars
  <2> USE <1>1 DEF vars
  <2>1. TypeOK' /\ Exclusive'
    BY DEF IInv, TypeOK, Exclusive
  <2>2. TailIsCurrent' /\ PendingIsNext'
    BY DEF IInv, TailIsCurrent, PendingIsNext, TailHash, Newest
  <2>3. TableInv'
    BY TableUntouched DEF IInv
  <2>4. QED
    BY <2>1, <2>2, <2>3 DEF IInv
<1>2. ASSUME NEW w \in Writers, RequestLock(w) \/ AcquireLock(w)
      PROVE  IInv'
  BY <1>2, WaitingSteps
<1>3. ASSUME NEW w \in Writers, ReadTail(w)
      PROVE  IInv'
  BY <1>3, ReadTailStep
<1>4. ASSUME NEW w \in Writers, NEW p \in Payloads, InsertRow(w, p)
      PROVE  IInv'
  BY <1>4, InsertRowStep
<1>5. ASSUME NEW w \in Writers, Commit(w) \/ Rollback(w)
      PROVE  IInv'
  BY <1>5, EndTransactionStep
<1>6. QED
  BY <1>1, <1>2, <1>3, <1>4, <1>5 DEF Next

(***************************************************************************)
(* InductiveInvariant: in every behaviour the holder of the lock alone is  *)
(* past the lock, its tail is the newest row and its pending row the next. *)
(***************************************************************************)
THEOREM InductiveInvariant == Spec => []IInv
  BY InitEstablishesIInv, StepKeepsIInv, PTL DEF Spec

------------------------------------------------------------------------------
(***************************************************************************)
(* TypeCorrect: rows keep the columns append_event gives them, and only    *)
(* sessions hold the lock.                                                 *)
(***************************************************************************)
THEOREM TypeCorrect == Spec => []TypeOK
<1>1. IInv => TypeOK
  BY DEF IInv
<1>2. QED
  BY <1>1, InductiveInvariant, PTL

(***************************************************************************)
(* ChainIntegrity: however many sessions append concurrently and however   *)
(* many of them roll back, each committed row is chained to the committed  *)
(* row before it and hashes its own payload.                               *)
(***************************************************************************)
THEOREM ChainIntegrity == Spec => []ChainIntact
<1>1. IInv => ChainIntact
  BY DEF IInv, TableInv
<1>2. QED
  BY <1>1, InductiveInvariant, PTL

(***************************************************************************)
(* ForkFreedom: no two committed rows chain from the same predecessor.     *)
(***************************************************************************)
THEOREM ForkFreedom == Spec => []NoFork
<1>1. IInv => NoFork
  <2> SUFFICES ASSUME IInv PROVE NoFork
    OBVIOUS
  <2>1. \A x \in rows : /\ x \in AuditEvent
                       /\ x.sequence \in Nat
                       /\ x.prev_hash \in Seq(Payloads)
                       /\ x.entry_hash = Append(x.prev_hash, x.payload)
                       /\ x.payload \in Payloads
    BY DEF IInv, TypeOK, AuditEvent, Digest, TableInv, ChainIntact, compute_entry_hash
  <2>2. \A x \in rows : /\ Len(x.prev_hash) \in Nat
                       /\ Len(x.entry_hash) = Len(x.prev_hash) + 1
    BY <2>1, LenProperties, AppendProperties
  <2>3. \A r, q \in rows : r.sequence < q.sequence => r.prev_hash # q.prev_hash
    BY <2>2 DEF IInv, TableInv, LaterIsLonger
  <2>4. QED
    BY <2>1, <2>3 DEF NoFork, IInv, TableInv, OneRowPerSequence
<1>2. QED
  BY <1>1, InductiveInvariant, PTL

------------------------------------------------------------------------------
(***************************************************************************)
(* Only a commit changes the table.                                        *)
(***************************************************************************)
LEMMA OnlyCommitsChangeRows ==
  ASSUME IInv, [Next]_vars
  PROVE  rows' = rows \/ \E w \in Writers : Commit(w)
  BY DEF Next, vars, RequestLock, AcquireLock, ReadTail, InsertRow, Rollback

(***************************************************************************)
(* LedgerGrowsAtTheEnd: the table is append-only and its commit order is   *)
(* its sequence order.                                                     *)
(***************************************************************************)
THEOREM LedgerGrowsAtTheEnd == Spec => GrowsAtTheEnd
<1>1. IInv /\ [Next]_vars =>
        [/\ rows \subseteq rows'
         /\ \A r \in rows, q \in rows' \ rows : r.sequence < q.sequence]_rows
  <2> SUFFICES ASSUME IInv, [Next]_vars, NEW w \in Writers, Commit(w)
               PROVE  /\ rows \subseteq rows'
                      /\ \A r \in rows, q \in rows' \ rows : r.sequence < q.sequence
    BY OnlyCommitsChangeRows
  <2>1. QED
    BY CommittedRow
<1>2. QED
  BY <1>1, InductiveInvariant, PTL DEF Spec, GrowsAtTheEnd

(***************************************************************************)
(* LedgerImplementsLog: the table refines the append-only log, with the    *)
(* history covered by the newest row's hash for the log's content.         *)
(***************************************************************************)
THEOREM LedgerImplementsLog == Spec => ImplementsLog
<1>1. Init => Log!Init
  BY DEF Init, Log!Init, TailHash, GENESIS_HASH
<1>2. IInv /\ [Next]_vars => [Log!Next]_(TailHash(rows))
  <2> SUFFICES ASSUME IInv, [Next]_vars
               PROVE  \/ \E p \in Payloads : TailHash(rows)' = Append(TailHash(rows), p)
                      \/ TailHash(rows)' = TailHash(rows)
    BY DEF Log!Next, Log!Record
  <2>1. CASE rows' = rows
    BY <2>1 DEF TailHash, Newest
  <2>2. ASSUME NEW w \in Writers, Commit(w)
        PROVE  \E p \in Payloads : TailHash(rows)' = Append(TailHash(rows), p)
    <3>1. PICK r \in AuditEvent :
             /\ rows' = rows \cup {r}
             /\ \A q \in rows : q.sequence < r.sequence
             /\ r.prev_hash = TailHash(rows)
             /\ r.entry_hash = Append(r.prev_hash, r.payload)
      BY <2>2, CommittedRow
    <3>2. TailHash(rows \cup {r}) = r.entry_hash
      BY <3>1, NewestAfterAppend DEF IInv, TypeOK
    <3>3. TailHash(rows)' = TailHash(rows \cup {r})
      BY <3>1 DEF TailHash, Newest
    <3>4. r.payload \in Payloads
      BY DEF AuditEvent
    <3>5. QED
      BY <3>1, <3>2, <3>3, <3>4
  <2>3. QED
    BY <2>1, <2>2, OnlyCommitsChangeRows
<1>3. QED
  BY <1>1, <1>2, InductiveInvariant, PTL DEF Spec, ImplementsLog, Log!Spec

------------------------------------------------------------------------------
(***************************************************************************)
(* verify_ledger (LedgerVerification).  A row is good in a table when it   *)
(* is chained to the row before it there and hashes its own payload.  The  *)
(* loop reports the first row that is not good, and none if all are.  An   *)
(* edit or a removal leaves the rows before it good, and the row that it   *)
(* shows in is not: by ChainIntact it was good before, and no two rows of  *)
(* the ledger have the same hash (LaterIsLonger) or the same predecessor.  *)
(***************************************************************************)
\* A set of numbers has a least one.
LEMMA LeastNumber ==
  ASSUME NEW K \in SUBSET Nat, K # {}
  PROVE  \E k \in K : \A l \in K : k <= l
<1> DEFINE lt == {p \in Nat \X Nat : p[1] < p[2]}
<1>1. IsWellFoundedOn(lt, Nat)
  BY NatLessThanWellFounded DEF OpToRel
<1> HIDE DEF lt
<1>2. PICK k \in K : \A l \in K : ~(<<l, k>> \in lt)
  BY <1>1, WFMin
<1>3. ASSUME NEW l \in K PROVE k <= l
  <2>1. k \in Nat /\ l \in Nat /\ <<l, k>> \notin lt
    BY <1>2
  <2>2. ~(l < k)
    BY <2>1 DEF lt
  <2> QED
    BY <2>1, <2>2
<1> QED BY <1>3

Start == [prev_hash |-> GENESIS_HASH, checked |-> 0, first_broken_sequence |-> NoSequence]

\* What is known after the rows up to n, from what is known after those up to n - 1.
After(T, seen, n) ==
  IF n = 0 THEN Start
  ELSE IF \E r \in T : r.sequence = n
       THEN CheckRow(seen[n - 1], CHOOSE r \in T : r.sequence = n)
       ELSE seen[n - 1]

\* The loop is defined whatever the table holds.
LEMMA LoopExists ==
  ASSUME NEW T, NEW n \in Nat
  PROVE  \E seen : seen = [i \in 0..n |-> After(T, seen, i)]
<1> DEFINE Loop(seen, m) == seen = [i \in 0..m |-> After(T, seen, i)]
           without == {m \in Nat : ~ \E seen : Loop(seen, m)}
<1>1. SUFFICES ASSUME without # {} PROVE FALSE
  OBVIOUS
<1>2. PICK m \in without : \A l \in without : m <= l
  <2> HIDE DEF Loop
  <2> QED BY <1>1, LeastNumber
<1>3. CASE m = 0
  <2> DEFINE seen == [i \in 0..0 |-> Start]
  <2>1. Loop(seen, 0)
    BY DEF After
  <2> QED BY <1>2, <1>3, <2>1
<1>4. CASE m # 0
  <2>1. m - 1 \in Nat /\ m - 1 \notin without /\ m \in Nat
    BY <1>2, <1>4
  <2>2. PICK before : Loop(before, m - 1)
    BY <2>1
  <2> DEFINE seen == [i \in 0..m |-> IF i = m THEN After(T, before, m) ELSE before[i]]
  <2>3. ASSUME NEW i \in 0..m PROVE seen[i] = After(T, seen, i)
    <3>1. CASE i = m
      <4>1. seen[m - 1] = before[m - 1] /\ m - 1 \in 0..m
        BY <2>1
      <4> QED BY <3>1, <4>1, <2>1 DEF After
    <3>2. CASE i # m
      <4>1. i \in 0..(m - 1) /\ seen[i] = before[i]
        BY <2>1, <3>2
      <4>2. before[i] = After(T, before, i)
        BY <2>2, <4>1
      <4>3. i # 0 => i - 1 \in 0..m /\ i - 1 # m /\ seen[i - 1] = before[i - 1]
        BY <2>1, <4>1
      <4> QED BY <4>1, <4>2, <4>3 DEF After
    <3> QED BY <3>1, <3>2
  <2>4. Loop(seen, m)
    BY <2>3
  <2> HIDE DEF Loop, seen
  <2> QED BY <1>2, <2>4
<1> QED BY <1>3, <1>4

LEMMA SeenIs ==
  ASSUME NEW T, NEW n \in 0..MaxSequence
  PROVE  Seen(T)[n] = After(T, Seen(T), n)
<1>1. \E seen : seen = [i \in 0..MaxSequence |-> After(T, seen, i)]
  BY LoopExists, MaxSequenceAssumption
<1>2. Seen(T) = [i \in 0..MaxSequence |-> After(T, Seen(T), i)]
  BY <1>1, Zenon DEF Seen, After, Start
<1> QED BY <1>2

------------------------------------------------------------------------------
\* Tables with one row at most for a number that the sequence may draw.
Numbered(T) ==
  /\ \A r \in T : r.sequence \in 1..MaxSequence
  /\ \A r, q \in T : r.sequence = q.sequence => r = q

Good(T, r) ==
  /\ r.prev_hash = TailHash(Before(T, r))
  /\ r.entry_hash = compute_entry_hash(r.prev_hash, r.payload)

UpTo(T, n) == {r \in T : r.sequence <= n}

\* The tail query on the rows up to a row finds it.
LEMMA NewestUpTo ==
  ASSUME NEW T, Numbered(T), NEW r \in T
  PROVE  TailHash(UpTo(T, r.sequence)) = r.entry_hash
<1> DEFINE U == UpTo(T, r.sequence)
<1>1. r \in U /\ \A q \in U : q.sequence <= r.sequence
  BY DEF UpTo, Numbered
<1>2. \A x \in U : r.sequence <= x.sequence => x = r
  BY DEF UpTo, Numbered
<1> HIDE DEF U
<1>3. Newest(U) = r
  BY <1>1, <1>2 DEF Newest
<1> QED BY <1>1, <1>3 DEF TailHash, U

\* The loop takes the row of the next number, if there is one.
LEMMA NextRow ==
  ASSUME NEW T, Numbered(T), NEW n \in 1..MaxSequence
  PROVE  \/ \E r \in T : /\ r.sequence = n
                         /\ Seen(T)[n] = CheckRow(Seen(T)[n - 1], r)
                         /\ UpTo(T, n - 1) = Before(T, r)
         \/ /\ \A r \in T : r.sequence # n
            /\ Seen(T)[n] = Seen(T)[n - 1]
            /\ UpTo(T, n - 1) = UpTo(T, n)
<1>1. Seen(T)[n] = After(T, Seen(T), n) /\ n # 0 /\ n \in Nat
  BY SeenIs, MaxSequenceAssumption
<1>2. \A q \in T : q.sequence \in Nat
  BY MaxSequenceAssumption DEF Numbered
<1>3. CASE \E r \in T : r.sequence = n
  <2> DEFINE r == CHOOSE r \in T : r.sequence = n
  <2>1. r \in T /\ r.sequence = n
    BY <1>3
  <2>2. Seen(T)[n] = CheckRow(Seen(T)[n - 1], r)
    BY <1>1, <1>3 DEF After
  <2> HIDE DEF r
  <2>3. UpTo(T, n - 1) = Before(T, r)
    BY <1>1, <1>2, <2>1 DEF UpTo, Before
  <2> QED BY <2>1, <2>2, <2>3
<1>4. CASE \A r \in T : r.sequence # n
  <2>1. Seen(T)[n] = Seen(T)[n - 1]
    BY <1>1, <1>4 DEF After
  <2>2. UpTo(T, n - 1) = UpTo(T, n)
    BY <1>1, <1>2, <1>4 DEF UpTo
  <2> QED BY <1>4, <2>1, <2>2
<1> QED BY <1>3, <1>4

\* While the rows are good, the loop knows the hash of the newest of them.
LEMMA GoodSoFar ==
  ASSUME NEW T, Numbered(T), NEW n \in 0..MaxSequence,
         \A r \in UpTo(T, n) : Good(T, r)
  PROVE  /\ Seen(T)[n].first_broken_sequence = NoSequence
         /\ Seen(T)[n].prev_hash = TailHash(UpTo(T, n))
<1> DEFINE Knows(k) == /\ Seen(T)[k].first_broken_sequence = NoSequence
                       /\ Seen(T)[k].prev_hash = TailHash(UpTo(T, k))
           wrong == {k \in 0..n : ~Knows(k)}
<1>1. SUFFICES ASSUME wrong # {} PROVE FALSE
  BY MaxSequenceAssumption
<1>2. PICK k \in wrong : \A l \in wrong : k <= l
  <2>1. wrong \in SUBSET Nat
    BY MaxSequenceAssumption
  <2> HIDE DEF wrong
  <2> QED BY <1>1, <2>1, LeastNumber
<1>3. k \in Nat /\ k \in 0..n /\ k \in 0..MaxSequence /\ ~Knows(k)
  BY <1>2, MaxSequenceAssumption
<1>4. CASE k = 0
  <2>1. Seen(T)[0] = Start
    BY SeenIs, MaxSequenceAssumption DEF After
  <2>2. UpTo(T, 0) = {}
    BY MaxSequenceAssumption DEF UpTo, Numbered
  <2> QED BY <1>3, <1>4, <2>1, <2>2 DEF Start, TailHash
<1>5. CASE k # 0
  <2>1. k \in 1..MaxSequence /\ k - 1 \in 0..n /\ ~(k <= k - 1)
    BY <1>3, <1>5, MaxSequenceAssumption
  <2>2. Knows(k - 1)
    BY <1>2, <2>1
  <2> HIDE DEF wrong
  <2>3. ASSUME NEW r \in T, r.sequence = k, Seen(T)[k] = CheckRow(Seen(T)[k - 1], r),
               UpTo(T, k - 1) = Before(T, r)
        PROVE  FALSE
    <3>1. Good(T, r)
      BY <1>3, <2>3 DEF UpTo
    <3>2. r.prev_hash = Seen(T)[k - 1].prev_hash
      BY <2>2, <2>3, <3>1 DEF Good
    <3>3. /\ Seen(T)[k].first_broken_sequence = NoSequence
          /\ Seen(T)[k].prev_hash = r.entry_hash
      BY <2>2, <2>3, <3>1, <3>2 DEF Good, CheckRow
    <3> QED BY <1>3, <2>3, <3>3, NewestUpTo
  <2>4. ASSUME Seen(T)[k] = Seen(T)[k - 1], UpTo(T, k - 1) = UpTo(T, k) PROVE FALSE
    BY <1>3, <2>2, <2>4
  <2> HIDE DEF Knows
  <2> QED BY <2>1, <2>3, <2>4, NextRow
<1> QED BY <1>4, <1>5

\* A table of good rows verifies.
LEMMA GoodTableVerifies ==
  ASSUME NEW T, Numbered(T), \A r \in T : Good(T, r)
  PROVE  FirstBroken(T) = NoSequence
<1>1. UpTo(T, MaxSequence) \subseteq T /\ MaxSequence \in 0..MaxSequence
  BY MaxSequenceAssumption DEF UpTo
<1>2. Seen(T)[MaxSequence].first_broken_sequence = NoSequence
  BY <1>1, GoodSoFar
<1> QED BY <1>2 DEF FirstBroken, verify_ledger

\* The first row that is not good is reported.
LEMMA BrokenAt ==
  ASSUME NEW T, Numbered(T), NEW r \in T, ~Good(T, r), \A q \in Before(T, r) : Good(T, q)
  PROVE  FirstBroken(T) = r.sequence
<1> DEFINE at == r.sequence
           wrong == {k \in at..MaxSequence : Seen(T)[k].first_broken_sequence # at}
<1>1. at \in 1..MaxSequence /\ at \in Nat /\ MaxSequence \in at..MaxSequence
  BY MaxSequenceAssumption DEF Numbered
<1>2. SUFFICES ASSUME wrong # {} PROVE FALSE
  BY <1>1 DEF FirstBroken, verify_ledger
<1>3. PICK k \in wrong : \A l \in wrong : k <= l
  <2>1. wrong \in SUBSET Nat
    BY <1>1, MaxSequenceAssumption
  <2> HIDE DEF wrong
  <2> QED BY <1>2, <2>1, LeastNumber
<1>4. /\ k \in Nat /\ k \in 1..MaxSequence /\ k >= at
      /\ Seen(T)[k].first_broken_sequence # at
  BY <1>1, <1>3, MaxSequenceAssumption
<1>5. CASE k = at
  <2>1. /\ Seen(T)[k] = CheckRow(Seen(T)[k - 1], r)
        /\ UpTo(T, k - 1) = Before(T, r)
    BY <1>4, <1>5, NextRow DEF Numbered
  <2>2. k - 1 \in 0..MaxSequence
    BY <1>4, MaxSequenceAssumption
  <2>3. /\ Seen(T)[k - 1].first_broken_sequence = NoSequence
        /\ Seen(T)[k - 1].prev_hash = TailHash(Before(T, r))
    BY <2>1, <2>2, GoodSoFar
  <2>4. \/ r.prev_hash # Seen(T)[k - 1].prev_hash
        \/ r.entry_hash # compute_entry_hash(Seen(T)[k - 1].prev_hash, r.payload)
    BY <2>3 DEF Good
  <2> QED BY <1>4, <1>5, <2>1, <2>3, <2>4 DEF CheckRow
<1>6. CASE k > at
  <2>1. Seen(T)[k - 1].first_broken_sequence = at
    BY <1>1, <1>3, <1>4, <1>6, MaxSequenceAssumption
  <2>2. at # NoSequence
    BY <1>1 DEF NoSequence
  <2>3. \A q : CheckRow(Seen(T)[k - 1], q) = Seen(T)[k - 1]
    BY <2>1, <2>2 DEF CheckRow
  <2> QED BY <1>4, <2>1, <2>3, NextRow
<1> QED BY <1>1, <1>4, <1>5, <1>6

------------------------------------------------------------------------------
(***************************************************************************)
(* The ledger that appends leave.  Numbers are drawn from 1 on.            *)
(***************************************************************************)
NumbersDrawn ==
  /\ nextSequence \in 1..(MaxSequence + 1)
  /\ \A r \in rows : r.sequence # 0
  /\ \A w \in Writers : \A r \in pending[w] : r.sequence # 0

LEMMA InitNumbers == Init => NumbersDrawn
BY MaxSequenceAssumption DEF Init, NumbersDrawn

LEMMA NextNumbers == TypeOK /\ NumbersDrawn /\ [Next]_vars => NumbersDrawn'
<1> SUFFICES ASSUME TypeOK, NumbersDrawn, [Next]_vars PROVE NumbersDrawn'
  OBVIOUS
<1>1. ASSUME NEW w \in Writers, RequestLock(w) \/ AcquireLock(w) \/ ReadTail(w)
      PROVE  NumbersDrawn'
  BY <1>1 DEF RequestLock, AcquireLock, ReadTail, NumbersDrawn
<1>2. ASSUME NEW w \in Writers, NEW p \in Payloads, InsertRow(w, p) PROVE NumbersDrawn'
  <2>1. NewRow(w, p).sequence = nextSequence
    BY DEF NewRow
  <2>2. pending' = [pending EXCEPT ![w] = {NewRow(w, p)}]
    BY <1>2 DEF InsertRow
  <2>3. \A v \in Writers : \A r \in pending'[v] : r.sequence # 0
    BY <2>1, <2>2, MaxSequenceAssumption DEF NumbersDrawn, TypeOK
  <2>4. rows' = rows /\ nextSequence' \in 1..(MaxSequence + 1)
    BY <1>2, MaxSequenceAssumption DEF InsertRow, NumbersDrawn
  <2> QED BY <2>3, <2>4 DEF NumbersDrawn
<1>3. ASSUME NEW w \in Writers, Commit(w) \/ Rollback(w) PROVE NumbersDrawn'
  BY <1>3 DEF Commit, Rollback, EndTransaction, NumbersDrawn, TypeOK
<1>4. CASE UNCHANGED vars
  BY <1>4 DEF vars, NumbersDrawn
<1> QED BY <1>1, <1>2, <1>3, <1>4 DEF Next

Ledger == IInv /\ NumbersDrawn

\* What tells the rows of the ledger apart.
LEMMA Hashes ==
  ASSUME Ledger
  PROVE  /\ Numbered(rows)
         /\ \A r \in rows : Good(rows, r)
         /\ \A r, q \in rows : r # q => r.sequence # q.sequence
         /\ \A r, q \in rows : r # q => r.entry_hash # q.entry_hash
         /\ \A r, q \in rows : r # q => r.prev_hash # q.prev_hash
         /\ \A r \in rows : r.entry_hash # GENESIS_HASH
         /\ \A r \in rows : \A p \in Payloads \ {r.payload} :
              compute_entry_hash(r.prev_hash, p) # r.entry_hash
<1>1. \A r \in rows : /\ r \in AuditEvent
                      /\ r.sequence \in Nat
                      /\ r.payload \in Payloads
                      /\ r.prev_hash \in Seq(Payloads)
                      /\ r.entry_hash = Append(r.prev_hash, r.payload)
  BY DEF Ledger, IInv, TypeOK, AuditEvent, Digest, TableInv, ChainIntact, compute_entry_hash
<1>2. Numbered(rows)
  BY <1>1, MaxSequenceAssumption
  DEF Ledger, IInv, TableInv, SequencesDrawn, OneRowPerSequence, NumbersDrawn, TypeOK, Numbered
<1>3. \A r \in rows : Good(rows, r)
  BY DEF Ledger, IInv, TableInv, ChainIntact, Good
<1>4. \A r, q \in rows : r # q => r.sequence # q.sequence
  BY <1>2 DEF Numbered
<1>5. \A r \in rows : /\ Len(r.prev_hash) \in Nat
                      /\ Len(r.entry_hash) = Len(r.prev_hash) + 1
  BY <1>1, LenProperties, AppendProperties
<1>6. \A r, q \in rows : r # q => Len(r.entry_hash) # Len(q.entry_hash)
  BY <1>1, <1>4, <1>5 DEF Ledger, IInv, TableInv, LaterIsLonger
<1>7. \A r, q \in rows : r # q => /\ r.entry_hash # q.entry_hash
                                 /\ r.prev_hash # q.prev_hash
  BY <1>5, <1>6
<1>8. \A r \in rows : r.entry_hash # GENESIS_HASH
  BY <1>5, EmptySeq DEF GENESIS_HASH
<1>9. \A r \in rows : \A p \in Payloads \ {r.payload} :
        compute_entry_hash(r.prev_hash, p) # r.entry_hash
  <2> SUFFICES ASSUME NEW r \in rows, NEW p \in Payloads, p # r.payload
               PROVE  Append(r.prev_hash, p) # Append(r.prev_hash, r.payload)
    BY <1>1 DEF compute_entry_hash
  <2>1. /\ Append(r.prev_hash, p)[Len(r.prev_hash) + 1] = p
        /\ Append(r.prev_hash, r.payload)[Len(r.prev_hash) + 1] = r.payload
    BY <1>1, AppendProperties
  <2> QED BY <2>1
<1> QED BY <1>2, <1>3, <1>4, <1>7, <1>8, <1>9

\* The tail query on a table finds its newest row.
LEMMA NewestOf ==
  ASSUME NEW T, Numbered(T), T # {}
  PROVE  \E m \in T : /\ \A q \in T : q.sequence <= m.sequence
                      /\ TailHash(T) = m.entry_hash
<1> DEFINE K == {MaxSequence - q.sequence : q \in T}
<1>1. K \in SUBSET Nat /\ K # {}
  BY MaxSequenceAssumption DEF Numbered
<1>2. PICK k \in K : \A l \in K : k <= l
  <2> HIDE DEF K
  <2> QED BY <1>1, LeastNumber
<1>3. PICK m \in T : k = MaxSequence - m.sequence
  BY <1>2
<1>4. ASSUME NEW q \in T PROVE q.sequence <= m.sequence
  <2>1. MaxSequence - m.sequence <= MaxSequence - q.sequence
    BY <1>2, <1>3
  <2>2. q.sequence \in Nat /\ m.sequence \in Nat
    BY MaxSequenceAssumption DEF Numbered
  <2> QED BY <2>1, <2>2, MaxSequenceAssumption
<1>5. UpTo(T, m.sequence) = T
  BY <1>4 DEF UpTo
<1>6. TailHash(T) = m.entry_hash
  BY <1>5, NewestUpTo
<1> QED BY <1>4, <1>6

\* The rows before one that is edited stay good.
LEMMA EditedTable ==
  ASSUME Ledger, NEW r \in rows, NEW e, e.sequence = r.sequence
  PROVE  LET T == Replace(r, e)
         IN  /\ Numbered(T) /\ e \in T
             /\ Before(T, e) = Before(rows, r)
             /\ \A q \in Before(T, e) : Good(T, q)
<1> DEFINE T == Replace(r, e)
<1>1. \A q \in rows : q.sequence \in Nat
  BY Hashes, MaxSequenceAssumption DEF Numbered
<1>2. Numbered(T) /\ e \in T
  BY Hashes DEF Replace, Numbered
<1>3. Before(T, e) = Before(rows, r)
  BY <1>1 DEF Before, Replace
<1>4. ASSUME NEW q \in Before(rows, r) PROVE Good(T, q)
  <2>1. Before(T, q) = Before(rows, q)
    BY <1>1, <1>4 DEF Before, Replace
  <2>2. Good(rows, q)
    BY <1>4, Hashes DEF Before
  <2> QED BY <2>1, <2>2 DEF Good
<1> QED BY <1>2, <1>3, <1>4

\* An edit that the row itself shows.
LEMMA EditReported ==
  ASSUME Ledger, NEW r \in rows, NEW e, e.sequence = r.sequence,
         \/ e.prev_hash # r.prev_hash
         \/ e.entry_hash # compute_entry_hash(e.prev_hash, e.payload)
  PROVE  FirstBroken(Replace(r, e)) = r.sequence
<1>1. Good(rows, r)
  BY Hashes
<1>2. ~Good(Replace(r, e), e)
  BY <1>1, EditedTable DEF Good
<1> QED BY <1>2, EditedTable, BrokenAt

\* The row that follows.
LEMMA LeastFollowing ==
  ASSUME Ledger, NEW r \in rows, Following(r) # {}
  PROVE  LET next == CHOOSE q \in Following(r) :
                       \A s \in Following(r) : q.sequence <= s.sequence
         IN  /\ next \in Following(r)
             /\ \A s \in Following(r) : next.sequence <= s.sequence
<1> DEFINE K == {q.sequence : q \in Following(r)}
<1>1. K \in SUBSET Nat /\ K # {}
  BY Hashes, MaxSequenceAssumption DEF Numbered, Following
<1>2. PICK k \in K : \A l \in K : k <= l
  <2> HIDE DEF K
  <2> QED BY <1>1, LeastNumber
<1>3. \E q \in Following(r) : \A s \in Following(r) : q.sequence <= s.sequence
  BY <1>2
<1> QED BY <1>3

\* A payload with the hash that fits shows in the row that follows.
LEMMA RehashReported ==
  ASSUME Ledger, NEW r \in rows, NEW p \in Payloads \ {r.payload}, NEW e,
         e.sequence = r.sequence, e.prev_hash = r.prev_hash, e.payload = p,
         e.entry_hash = compute_entry_hash(r.prev_hash, p)
  PROVE  FirstBroken(Replace(r, e)) =
           IF Following(r) = {} THEN NoSequence
           ELSE (CHOOSE q \in Following(r) :
                   \A s \in Following(r) : q.sequence <= s.sequence).sequence
<1> DEFINE T == Replace(r, e)
<1>1. \A q \in rows : q.sequence \in Nat
  BY Hashes, MaxSequenceAssumption DEF Numbered
<1>2. /\ Numbered(T) /\ e \in T /\ Good(T, e)
      /\ \A q \in Before(T, e) : Good(T, q)
  BY EditedTable, Hashes DEF Good
<1>3. \A q \in T : q = e \/ q \in Before(T, e) \/ q \in Following(r)
  BY <1>1, Hashes DEF Replace, Before, Following
<1>4. CASE Following(r) = {}
  BY <1>2, <1>3, <1>4, GoodTableVerifies
<1>5. CASE Following(r) # {}
  <2> DEFINE next == CHOOSE q \in Following(r) :
                       \A s \in Following(r) : q.sequence <= s.sequence
  <2>1. /\ next \in Following(r)
        /\ \A s \in Following(r) : next.sequence <= s.sequence
    BY <1>5, LeastFollowing
  <2> HIDE DEF next
  <2>2. next \in T /\ next \in rows /\ next.sequence > r.sequence
    BY <1>1, <2>1 DEF Following, Replace
  <2>3. \A q \in rows : q.sequence < next.sequence <=> q.sequence <= r.sequence
    BY <1>1, <2>1, <2>2 DEF Following
  <2>4. Before(rows, next) = UpTo(rows, r.sequence)
    BY <2>3 DEF Before, UpTo
  <2>5. Before(T, next) = UpTo(T, e.sequence)
    BY <1>1, <2>2, <2>3 DEF Before, UpTo, Replace
  <2>6. next.prev_hash = r.entry_hash
    BY <2>2, <2>4, NewestUpTo, Hashes DEF Good
  <2>7. TailHash(Before(T, next)) = e.entry_hash
    BY <1>2, <2>5, NewestUpTo
  <2>8. ~Good(T, next)
    BY <2>6, <2>7, Hashes DEF Good
  <2>9. ASSUME NEW q \in Before(T, next) PROVE Good(T, q)
    <3>1. q \in T /\ q.sequence < next.sequence
      BY <2>9 DEF Before
    <3>2. q \notin Following(r)
      BY <1>1, <2>1, <2>2, <3>1 DEF Following
    <3> QED BY <1>2, <1>3, <3>1, <3>2
  <2> QED BY <1>2, <1>5, <2>2, <2>8, <2>9, BrokenAt DEF next
<1> QED BY <1>4, <1>5

LEMMA EditsAreReported == Ledger => EditsReported
<1> SUFFICES ASSUME Ledger, NEW r \in rows
             PROVE  /\ \A p \in Payloads \ {r.payload} :
                         LET edited   == [r EXCEPT !.payload = p]
                             rehashed == [edited EXCEPT !.entry_hash =
                                            compute_entry_hash(r.prev_hash, p)]
                         IN  /\ FirstBroken(Replace(r, edited)) = r.sequence
                             /\ FirstBroken(Replace(r, rehashed)) =
                                  IF Following(r) = {} THEN NoSequence
                                  ELSE (CHOOSE q \in Following(r) :
                                          \A s \in Following(r) : q.sequence <= s.sequence).sequence
                    /\ \A q \in rows \ {r} :
                         /\ FirstBroken(Replace(r, [r EXCEPT !.entry_hash = q.entry_hash]))
                              = r.sequence
                         /\ FirstBroken(Replace(r, [r EXCEPT !.prev_hash = q.prev_hash]))
                              = r.sequence
  BY Zenon DEF EditsReported
<1>1. r \in AuditEvent /\ r.entry_hash = compute_entry_hash(r.prev_hash, r.payload)
  BY Hashes DEF Ledger, IInv, TypeOK, Good
<1>2. ASSUME NEW p \in Payloads \ {r.payload}
      PROVE  LET edited   == [r EXCEPT !.payload = p]
                 rehashed == [edited EXCEPT !.entry_hash = compute_entry_hash(r.prev_hash, p)]
             IN  /\ FirstBroken(Replace(r, edited)) = r.sequence
                 /\ FirstBroken(Replace(r, rehashed)) =
                      IF Following(r) = {} THEN NoSequence
                      ELSE (CHOOSE q \in Following(r) :
                              \A s \in Following(r) : q.sequence <= s.sequence).sequence
  <2> DEFINE edited   == [r EXCEPT !.payload = p]
             rehashed == [edited EXCEPT !.entry_hash = compute_entry_hash(r.prev_hash, p)]
  <2>1. /\ edited.sequence = r.sequence /\ edited.prev_hash = r.prev_hash
        /\ edited.payload = p /\ edited.entry_hash = r.entry_hash
    BY <1>1 DEF AuditEvent
  <2>2. /\ rehashed.sequence = r.sequence /\ rehashed.prev_hash = r.prev_hash
        /\ rehashed.payload = p
        /\ rehashed.entry_hash = compute_entry_hash(r.prev_hash, p)
    BY <1>1 DEF AuditEvent
  <2>3. compute_entry_hash(r.prev_hash, p) # r.entry_hash
    BY Hashes
  <2> HIDE DEF edited, rehashed
  <2>4. FirstBroken(Replace(r, edited)) = r.sequence
    BY <2>1, <2>3, EditReported
  <2>5. FirstBroken(Replace(r, rehashed)) =
          IF Following(r) = {} THEN NoSequence
          ELSE (CHOOSE q \in Following(r) :
                  \A s \in Following(r) : q.sequence <= s.sequence).sequence
    BY <2>2, RehashReported, Zenon
  <2> QED BY <2>4, <2>5, Zenon DEF edited, rehashed
<1>3. ASSUME NEW q \in rows \ {r}
      PROVE  /\ FirstBroken(Replace(r, [r EXCEPT !.entry_hash = q.entry_hash])) = r.sequence
             /\ FirstBroken(Replace(r, [r EXCEPT !.prev_hash = q.prev_hash])) = r.sequence
  <2> DEFINE e == [r EXCEPT !.entry_hash = q.entry_hash]
             f == [r EXCEPT !.prev_hash = q.prev_hash]
  <2>1. /\ e.sequence = r.sequence /\ e.prev_hash = r.prev_hash
        /\ e.payload = r.payload /\ e.entry_hash = q.entry_hash
    BY <1>1 DEF AuditEvent
  <2>2. f.sequence = r.sequence /\ f.prev_hash = q.prev_hash
    BY <1>1 DEF AuditEvent
  <2>3. q.entry_hash # r.entry_hash /\ q.prev_hash # r.prev_hash
    BY Hashes
  <2> HIDE DEF e, f
  <2>4. FirstBroken(Replace(r, e)) = r.sequence
    BY <1>1, <2>1, <2>3, EditReported
  <2>5. FirstBroken(Replace(r, f)) = r.sequence
    BY <2>2, <2>3, EditReported
  <2> QED BY <2>4, <2>5 DEF e, f
<1> QED BY <1>2, <1>3, Zenon

\* The first row after a removed one is chained to a row that is gone.
LEMMA RemovalsAreReported == Ledger => RemovalsReported
<1> SUFFICES ASSUME Ledger, NEW gone \in SUBSET rows
             PROVE  verify_ledger(rows \ gone).valid <=>
                      \A r \in gone, q \in rows \ gone : q.sequence < r.sequence
  BY DEF RemovalsReported
<1> DEFINE T == rows \ gone
           Cut(q) == \E r \in gone : r.sequence < q.sequence
<1>1. \A q \in rows : q.sequence \in Nat
  BY Hashes, MaxSequenceAssumption DEF Numbered
<1>2. Numbered(T)
  BY Hashes DEF Numbered
<1>3. verify_ledger(T).valid <=> FirstBroken(T) = NoSequence
  BY DEF verify_ledger, FirstBroken
<1>4. ASSUME NEW q \in T, ~Cut(q) PROVE Good(T, q)
  <2>1. Before(T, q) = Before(rows, q)
    BY <1>4 DEF Before
  <2> QED BY <2>1, Hashes DEF Good
<1>5. CASE \A q \in T : ~Cut(q)
  <2>1. \A r \in gone, q \in T : q.sequence < r.sequence
    BY <1>1, <1>5, Hashes
  <2> QED BY <1>2, <1>3, <1>4, <1>5, <2>1, GoodTableVerifies
<1>6. CASE \E q \in T : Cut(q)
  <2> DEFINE K == {q.sequence : q \in {x \in T : Cut(x)}}
  <2>1. K \in SUBSET Nat /\ K # {}
    BY <1>1, <1>6
  <2>2. PICK k \in K : \A l \in K : k <= l
    <3> HIDE DEF K
    <3> QED BY <2>1, LeastNumber
  <2>3. PICK q \in T : Cut(q) /\ q.sequence = k
    BY <2>2
  <2>4. \A x \in T : x.sequence < q.sequence => ~Cut(x)
    BY <1>1, <2>2, <2>3
  <2>5. \A x \in Before(T, q) : Good(T, x)
    BY <1>4, <2>4 DEF Before
  <2>6. Before(rows, q) # {} /\ Numbered(Before(rows, q))
    BY <2>3, Hashes DEF Before, Numbered
  <2>7. PICK n \in Before(rows, q) :
          /\ \A x \in Before(rows, q) : x.sequence <= n.sequence
          /\ TailHash(Before(rows, q)) = n.entry_hash
    BY <2>6, NewestOf
  <2>8. q.prev_hash = n.entry_hash
    BY <2>7, Hashes DEF Good
  <2>9. n \in gone
    <3>1. SUFFICES ASSUME n \notin gone PROVE FALSE
      OBVIOUS
    <3>2. n \in T /\ n.sequence < q.sequence
      BY <2>7, <3>1 DEF Before
    <3>3. PICK r \in gone : r.sequence < q.sequence
      BY <2>3
    <3>4. r.sequence <= n.sequence /\ r # n
      BY <2>7, <3>1, <3>3 DEF Before
    <3>5. r.sequence < n.sequence
      BY <1>1, <2>7, <3>4, Hashes DEF Before
    <3> QED BY <2>4, <3>2, <3>3, <3>5
  <2>10. TailHash(Before(T, q)) # n.entry_hash
    <3>1. CASE Before(T, q) = {}
      BY <2>7, <3>1, Hashes DEF TailHash, Before
    <3>2. CASE Before(T, q) # {}
      <4>1. Numbered(Before(T, q))
        BY <1>2 DEF Before, Numbered
      <4>2. PICK m \in Before(T, q) : TailHash(Before(T, q)) = m.entry_hash
        BY <3>2, <4>1, NewestOf
      <4>3. m \in rows /\ m # n
        BY <2>9, <4>2 DEF Before
      <4> QED BY <2>7, <4>2, <4>3, Hashes DEF Before
    <3> QED BY <3>1, <3>2
  <2>11. ~Good(T, q)
    BY <2>8, <2>10 DEF Good
  <2>12. q.sequence # NoSequence
    BY <1>1 DEF NoSequence
  <2>13. \E r \in gone : ~(q.sequence < r.sequence)
    BY <1>1, <2>3
  <2> HIDE DEF T, Cut
  <2>14. FirstBroken(T) = q.sequence
    BY <1>2, <2>5, <2>11, BrokenAt
  <2> QED BY <1>3, <2>12, <2>13, <2>14 DEF T
<1> QED BY <1>5, <1>6

(***************************************************************************)
(* TamperingShows: in every ledger that appends leave, however many        *)
(* sessions write it, verify_ledger reports what was edited or removed at  *)
(* the first row that shows it, and only the newest rows can go unnoticed. *)
(***************************************************************************)
THEOREM TamperingShows == Spec => []TamperingIsReported
<1>1. Spec => []NumbersDrawn
  <2>1. IInv => TypeOK
    BY DEF IInv
  <2> QED BY <2>1, InitNumbers, NextNumbers, InductiveInvariant, PTL DEF Spec
<1>2. IInv /\ NumbersDrawn => TamperingIsReported
  BY EditsAreReported, RemovalsAreReported DEF Ledger, TamperingIsReported
<1> QED BY <1>1, <1>2, InductiveInvariant, PTL

------------------------------------------------------------------------------
(***************************************************************************)
(* No trail overlooks what was there to show, and what one trail shows the *)
(* next one does: for any number of rows, any limit on the rows that are   *)
(* read, any order of the tables, however many writers commit between a    *)
(* request's statements and however often they append the same event.      *)
(*                                                                         *)
(* The argument.  Tables and ledger complement each other at every moment: *)
(* what a row shows is in the ledger, but for the events that Unrecorded   *)
(* names (RecordedOrOld).  So an event that was read from a table is found *)
(* in the ledger by the next request, or is one of these (Settled).  While *)
(* a request reads, each of these that a trail owes has been read, or was  *)
(* missed, or is not shown any more, or is of a table yet to be read       *)
(* (Pursued).  An event that is not shown any more does not come back: the *)
(* ledger lacks it because its row had the status before there was a       *)
(* ledger, and no request returns a row to that (OldOutcomesPass).         *)
(***************************************************************************)
RowsForm == statusOf = [e \in Entities |-> statusOf[e]]

ReaderForm ==
  reader = [step |-> reader.step, ledger |-> reader.ledger, events |-> reader.events,
            missed |-> reader.missed, opened |-> reader.opened]

OpenedRecorded ==
  /\ \A c \in opened : KindOf[c] = "case"
  /\ \A c \in opened : Event("CASE_CREATED", c) \in Covered(ledger)

OldOutcome(e) == e \in DOMAIN OldRows /\ OldRows[e] \in DOMAIN LaterActions

OldOutcomesPass ==
  \A e \in Entities : OldOutcome(e) => statusOf[e] \in {OldRows[e], "RESOLVED", "deleted"}

Known(y) == y \in Covered(ledger) \/ Unrecorded(y, opened)

RecordedOrOld == \A e \in Entities : \A y \in Projection(e, statusOf[e]) : Known(y)

OfEntity(y) == y = Event(y.action, y.entity) /\ y.entity \in Entities

Settled(y) == OfEntity(y) /\ Known(y)

Ahead(kind) == \E k \in reader.step..Len(Kinds) : Kinds[k] = kind

Outdated(y) ==
  /\ OldOutcome(y.entity)
  /\ y.action = LaterActions[OldRows[y.entity]]
  /\ statusOf[y.entity] # OldRows[y.entity]

Pursued(y) ==
  /\ OfEntity(y) /\ Unrecorded(y, reader.opened)
  /\ \/ y \in reader.events \/ y.entity \in reader.missed
     \/ Outdated(y) \/ Ahead(KindOf[y.entity])

ReadingInv ==
  /\ reader.step \in Nat
  /\ shown.ledger \subseteq ledger
  /\ \A y \in reader.events \cup shown.projected : Settled(y)
  /\ reader.step # 0 =>
       /\ shown.ledger \cup due.ledger \subseteq reader.ledger
       /\ \A y \in shown.projected \cup due.projected : y \in Covered(reader.ledger) \/ Pursued(y)

\* What the ledger had when it was read, it has.
ReadInv == reader.ledger \subseteq ledger

CompleteInv ==
  /\ RowsForm /\ ReaderForm /\ OpenedRecorded /\ OldOutcomesPass /\ RecordedOrOld
  /\ ReadInv /\ ReadingInv

------------------------------------------------------------------------------
LEMMA KindsInOrder ==
  /\ Len(Kinds) = 6 /\ DOMAIN Kinds = 1..6
  /\ ToSet(Kinds) = {"case", "document", "workflow", "review_finding", "query", "attestation"}
BY DEF Kinds, ToSet

\* A row shows its insertion, and what its status says.
LEMMA ShownByRow ==
  ASSUME NEW e, NEW status, NEW y
  PROVE  y \in Projection(e, status) <=>
           /\ status \notin Gone
           /\ \/ y = Event(FirstAction[KindOf[e]], e)
              \/ status \in DOMAIN LaterActions /\ y = Event(LaterActions[status], e)
BY DEF Projection

LEMMA ShownIsOfRow ==
  ASSUME NEW e \in Entities, NEW status, NEW y \in Projection(e, status)
  PROVE  OfEntity(y) /\ y.entity = e
BY ShownByRow DEF OfEntity, Event

\* Each status has an action of its own, which is not that of an insertion.
LEMMA ActionsDiffer ==
  /\ \A s, t \in DOMAIN LaterActions : LaterActions[s] = LaterActions[t] => s = t
  /\ \A s \in DOMAIN LaterActions, k \in ToSet(Kinds) : LaterActions[s] # FirstAction[k]
  /\ Gone \cap DOMAIN LaterActions = {}
BY KindsInOrder DEF LaterActions, FirstAction, TERMINAL, _DECISIONS, _DECISION_ACTIONS, Gone

\* Rows with an outcome from before the ledger are of runs and findings.
LEMMA OldOutcomes ==
  ASSUME NEW e, OldOutcome(e)
  PROVE  /\ e \in Entities
         /\ \/ KindOf[e] = "workflow" /\ OldRows[e] \in {"completed", "failed"}
            \/ KindOf[e] = "review_finding" /\ OldRows[e] \in {"APPROVED", "REJECTED", "RESOLVED"}
<1>1. e \in Entities /\ OldRows[e] \in Statuses(KindOf[e]) /\ OldRows[e] \in DOMAIN LaterActions
  BY OldRowsAssumption DEF OldOutcome
<1> QED BY <1>1 DEF Statuses, LaterActions

\* merge_trail leaves no event out, whatever repeats the ledger has.
LEMMA MergedWhole ==
  ASSUME NEW recorded, NEW events
  PROVE  /\ Events(merge_trail(recorded, events)) = Covered(recorded) \cup events
         /\ merge_trail(recorded, events).ledger = recorded
         /\ merge_trail(recorded, events).projected \subseteq events
BY DEF merge_trail, Events, Surviving

\* The ledger covers what it did, and what is appended.
LEMMA AppendedIsCovered ==
  ASSUME NEW e, NEW status, NEW events, Write(e, status, events),
         \A x \in events : x = Event(x.action, x.entity)
  PROVE  ledger \subseteq ledger' /\ events \subseteq Covered(ledger')
<1>1. ledger' = ledger \cup {Row(x) : x \in events}
  BY DEF Write
<1>2. \A x \in events : Event(Row(x).action, Row(x).entity) = x
  BY DEF Row, Event
<1> QED BY <1>1, <1>2 DEF Covered

------------------------------------------------------------------------------
LEMMA InitComplete == TrailInit => CompleteInv
<1> SUFFICES ASSUME TrailInit PROVE CompleteInv
  OBVIOUS
<1>1. RowsForm /\ ReaderForm /\ OpenedRecorded /\ ReadInv
  BY DEF TrailInit, Waiting, RowsForm, ReaderForm, OpenedRecorded, ReadInv
<1>2. OldOutcomesPass
  BY DEF TrailInit, OldOutcomesPass, OldOutcome
<1>3. RecordedOrOld
  <2> SUFFICES ASSUME NEW e \in Entities, NEW y \in Projection(e, statusOf[e])
               PROVE  Unrecorded(y, opened)
    BY DEF RecordedOrOld, Known
  <2>1. e \in DOMAIN OldRows => statusOf[e] = OldRows[e]
    BY DEF TrailInit
  <2>2. e \notin DOMAIN OldRows => statusOf[e] = "absent"
    BY DEF TrailInit
  <2>3. /\ statusOf[e] \notin Gone
        /\ \/ y = Event(FirstAction[KindOf[e]], e)
           \/ statusOf[e] \in DOMAIN LaterActions /\ y = Event(LaterActions[statusOf[e]], e)
    BY ShownByRow
  <2>4. opened = {}
    BY DEF TrailInit
  <2> QED BY <2>1, <2>2, <2>3, <2>4 DEF Unrecorded, Event, Gone
<1>4. ReadingInv
  BY DEF TrailInit, Waiting, NoTrail, ReadingInv
<1> QED BY <1>1, <1>2, <1>3, <1>4 DEF CompleteInv

------------------------------------------------------------------------------
(***************************************************************************)
(* The writers.  What keeps the invariant is that the ledger grows, that   *)
(* old outcomes only pass, and that what a changed row shows is known.     *)
(***************************************************************************)
OldStep ==
  \A e \in Entities : OldOutcome(e) =>
    /\ statusOf'[e] \in {statusOf[e], "RESOLVED", "deleted"}
    /\ statusOf[e] = "deleted" => statusOf'[e] = "deleted"

LEMMA KnownStays ==
  ASSUME NEW y, y = Event(y.action, y.entity), Known(y), ledger \subseteq ledger', OpenedRecorded'
  PROVE  Known(y)'
<1>1. Covered(ledger) \subseteq Covered(ledger')
  BY DEF Covered
<1>2. CASE y \in Covered(ledger)
  BY <1>1, <1>2 DEF Known
<1>3. CASE Unrecorded(y, opened) /\ ~Unrecorded(y, opened')
  <2>1. y.action = FirstAction[KindOf[y.entity]] /\ y.entity \in opened'
    BY <1>3 DEF Unrecorded
  <2>2. KindOf[y.entity] = "case" /\ Event("CASE_CREATED", y.entity) \in Covered(ledger')
    BY <2>1 DEF OpenedRecorded, Covered, Event
  <2>3. y.action = "CASE_CREATED"
    BY <2>1, <2>2 DEF FirstAction
  <2>4. y \in Covered(ledger')
    BY <2>2, <2>3
  <2> QED BY <2>4 DEF Known, Covered, Event
<1>4. CASE Unrecorded(y, opened')
  BY <1>4 DEF Known, Unrecorded
<1> QED BY <1>2, <1>3, <1>4 DEF Known

LEMMA OutdatedStays ==
  ASSUME OldOutcomesPass, OldStep, NEW y, Outdated(y)
  PROVE  Outdated(y)'
<1> DEFINE e == y.entity
<1>1. /\ e \in Entities /\ OldOutcome(e) /\ OldRows[e] # "deleted"
      /\ statusOf[e] # OldRows[e] /\ y.action = LaterActions[OldRows[e]]
  BY OldOutcomes DEF Outdated
<1>2. statusOf[e] = "RESOLVED" \/ statusOf[e] = "deleted"
  BY <1>1 DEF OldOutcomesPass
<1>3. /\ statusOf'[e] \in {statusOf[e], "RESOLVED", "deleted"}
      /\ statusOf[e] = "deleted" => statusOf'[e] = "deleted"
  BY <1>1 DEF OldStep
<1>4. statusOf'[e] # OldRows[e]
  BY <1>1, <1>2, <1>3
<1> QED BY <1>1, <1>4 DEF Outdated, OldOutcome

LEMMA WritersComplete ==
  ASSUME CompleteInv, UNCHANGED <<reader, due, shown>>, ledger \subseteq ledger',
         RowsForm', OpenedRecorded', OldStep,
         \A e \in Entities : statusOf'[e] = statusOf[e] \/ \A y \in Projection(e, statusOf'[e]) : Known(y)'
  PROVE  CompleteInv'
<1> USE DEF CompleteInv
<1>1. OldOutcomesPass'
  BY DEF OldOutcomesPass, OldStep, OldOutcome
<1>2. RecordedOrOld'
  <2> SUFFICES ASSUME NEW e \in Entities, statusOf'[e] = statusOf[e],
                      NEW y \in Projection(e, statusOf[e])
               PROVE  Known(y)'
    BY DEF RecordedOrOld, Projection
  <2> QED BY KnownStays, ShownIsOfRow DEF RecordedOrOld, OfEntity
<1>3. ReaderForm' /\ ReadInv'
  BY DEF ReaderForm, ReadInv
<1>4. ASSUME NEW y, Settled(y) PROVE Settled(y)'
  BY <1>4, KnownStays DEF Settled, OfEntity, Event
<1>5. ASSUME NEW y, Pursued(y) PROVE Pursued(y)'
  BY <1>5, OutdatedStays DEF Pursued, Ahead, Unrecorded, OfEntity, Event
<1>6. Covered(reader'.ledger) = Covered(reader.ledger) /\ Covered(reader.ledger)' = Covered(reader.ledger)
  BY DEF Covered, Event
<1>7. ReadingInv'
  BY <1>4, <1>5, <1>6 DEF ReadingInv
<1> QED BY <1>1, <1>2, <1>3, <1>7

\* A write to one row, which has no outcome from before the ledger, or the like.
LEMMA WriteComplete ==
  ASSUME CompleteInv, NEW e \in Entities, NEW status, NEW events, Write(e, status, events),
         \A x \in events : x = Event(x.action, x.entity),
         opened' = opened,
         OldOutcome(e) => status \in {statusOf[e], "RESOLVED", "deleted"} /\ statusOf[e] # "deleted",
         \A y \in Projection(e, status) : y \in Projection(e, statusOf[e]) \cup events
                                            \/ Unrecorded(y, opened)
  PROVE  CompleteInv'
<1> USE DEF CompleteInv
<1>1. ledger \subseteq ledger' /\ events \subseteq Covered(ledger')
  BY AppendedIsCovered
<1>2. /\ statusOf' = [statusOf EXCEPT ![e] = status] /\ UNCHANGED <<reader, due, shown>>
      /\ statusOf'[e] = status /\ \A f \in Entities \ {e} : statusOf'[f] = statusOf[f]
  BY DEF Write, RowsForm
<1>3. RowsForm'
  BY <1>2 DEF RowsForm
<1>4. OldStep
  BY <1>2 DEF OldStep
<1>5. OpenedRecorded'
  BY <1>1 DEF OpenedRecorded, Covered, Event
<1>6. ASSUME NEW y \in Projection(e, status) PROVE Known(y)'
  <2>1. CASE y \in Projection(e, statusOf[e])
    BY <1>1, <1>5, <2>1, KnownStays, ShownIsOfRow DEF RecordedOrOld, OfEntity
  <2>2. CASE y \in events
    BY <1>1, <2>2 DEF Known, Covered, Event
  <2>3. CASE Unrecorded(y, opened)
    BY <2>3 DEF Known, Unrecorded
  <2> QED BY <1>6, <2>1, <2>2, <2>3
<1>7. \A f \in Entities : statusOf'[f] = statusOf[f] \/ \A y \in Projection(f, statusOf'[f]) : Known(y)'
  BY <1>2, <1>6
<1> QED BY <1>1, <1>2, <1>3, <1>4, <1>5, <1>7, WritersComplete

LEMMA CreateCaseComplete ==
  ASSUME CompleteInv, NEW c \in Entities, CreateCase(c)
  PROVE  CompleteInv'
<1> USE DEF CompleteInv
<1> DEFINE x == Event("CASE_CREATED", c)
<1>1. /\ KindOf[c] = "case" /\ Write(c, "created", {x}) /\ opened' = opened \cup {c}
      /\ x = Event(x.action, x.entity)
  BY DEF CreateCase, Event
<1>2. ledger \subseteq ledger' /\ x \in Covered(ledger')
  <2> HIDE DEF x
  <2> QED BY <1>1, AppendedIsCovered
<1>3. OpenedRecorded'
  BY <1>1, <1>2 DEF OpenedRecorded, Covered, Event
<1>4. /\ statusOf' = [statusOf EXCEPT ![c] = "created"] /\ UNCHANGED <<reader, due, shown>>
      /\ statusOf'[c] = "created" /\ \A f \in Entities \ {c} : statusOf'[f] = statusOf[f]
  BY <1>1 DEF Write, RowsForm
<1>5. RowsForm'
  BY <1>4 DEF RowsForm
<1>6. OldStep
  BY <1>1, <1>4, OldOutcomes DEF OldStep
<1>7. ASSUME NEW y \in Projection(c, "created") PROVE Known(y)'
  <2>1. y = x
    BY <1>1, ShownByRow DEF FirstAction, LaterActions
  <2> QED BY <1>2, <2>1 DEF Known, Covered, Event
<1>8. \A f \in Entities : statusOf'[f] = statusOf[f] \/ \A y \in Projection(f, statusOf'[f]) : Known(y)'
  BY <1>4, <1>7
<1> QED BY <1>2, <1>3, <1>4, <1>5, <1>6, <1>8, WritersComplete

\* A case that was not made by CaseService.create need not be in the ledger, and one
\* that was is, though another case of its id has been made since.
LEMMA EnsureCaseComplete ==
  ASSUME CompleteInv, NEW c \in Entities, EnsureCase(c)
  PROVE  CompleteInv'
<1> USE DEF CompleteInv
<1>1. /\ KindOf[c] = "case" /\ Write(c, "created", {}) /\ opened' = opened /\ ~OldOutcome(c)
  BY OldOutcomes DEF EnsureCase
<1>2. ledger' = ledger
  BY <1>1 DEF Write
<1>3. ASSUME NEW y \in Projection(c, "created") PROVE Known(y)
  <2>1. y = Event("CASE_CREATED", c)
    BY <1>1, ShownByRow DEF FirstAction, LaterActions
  <2>2. CASE c \in opened
    BY <2>1, <2>2 DEF OpenedRecorded, Known
  <2>3. CASE c \notin opened
    BY <1>1, <2>1, <2>3 DEF Known, Unrecorded, Event, FirstAction
  <2> QED BY <2>2, <2>3
<1>4. /\ statusOf' = [statusOf EXCEPT ![c] = "created"] /\ UNCHANGED <<reader, due, shown>>
      /\ statusOf'[c] = "created" /\ \A f \in Entities \ {c} : statusOf'[f] = statusOf[f]
  BY <1>1 DEF Write, RowsForm
<1>5. RowsForm' /\ OldStep /\ OpenedRecorded'
  BY <1>1, <1>2, <1>4 DEF RowsForm, OldStep, OpenedRecorded, Covered, Event
<1>6. \A f \in Entities : statusOf'[f] = statusOf[f] \/ \A y \in Projection(f, statusOf'[f]) : Known(y)'
  BY <1>1, <1>2, <1>3, <1>4 DEF Known, Covered, Event, Unrecorded
<1> QED BY <1>2, <1>4, <1>5, <1>6, WritersComplete

LEMMA CreateComplete ==
  ASSUME CompleteInv, NEW e \in Entities, Create(e)
  PROVE  CompleteInv'
<1> USE DEF CompleteInv
<1> DEFINE kind == KindOf[e]
           status == InitialStatus[kind]
<1>1. kind \in ToSet(Kinds) /\ kind # "case"
  BY EntitiesAssumption DEF Create
<1>2. status \in {"created", "running", "OPEN"}
  BY <1>1 DEF InitialStatus
<1>3. Write(e, status, {}) /\ statusOf[e] = "absent" /\ opened' = opened
  BY DEF Create
<1>4. ~OldOutcome(e)
  BY <1>3, ActionsDiffer DEF OldOutcomesPass, OldOutcome, Gone
<1>5. \A y \in Projection(e, status) : Unrecorded(y, opened)
  <2> SUFFICES ASSUME NEW y \in Projection(e, status) PROVE Unrecorded(y, opened)
    OBVIOUS
  <2>1. y = Event(FirstAction[kind], e)
    <3>1. status \notin DOMAIN LaterActions
      BY <1>2 DEF LaterActions
    <3> QED BY <3>1, ShownByRow
  <2>2. e \notin opened
    BY <1>1 DEF OpenedRecorded
  <2> QED BY <2>1, <2>2 DEF Unrecorded, Event
<1> HIDE DEF status
<1> QED BY <1>3, <1>4, <1>5, WriteComplete

LEMMA RecordComplete ==
  ASSUME CompleteInv, NEW e \in Entities, Record(e) \/ DeleteDocument(e)
  PROVE  CompleteInv'
<1> USE DEF CompleteInv
<1>1. PICK status, events :
        /\ status \in {statusOf[e], "deleted"}
        /\ Write(e, status, events) /\ \A x \in events : x = Event(x.action, x.entity)
        /\ opened' = opened /\ KindOf[e] = "document"
  <2>1. CASE Record(e)
    BY <2>1 DEF Record, Event
  <2>2. CASE DeleteDocument(e)
    BY <2>2 DEF DeleteDocument
  <2> QED BY <2>1, <2>2
<1>2. ~OldOutcome(e)
  BY <1>1, OldOutcomes
<1>3. \A y \in Projection(e, status) : y \in Projection(e, statusOf[e])
  BY <1>1, ShownByRow DEF Gone
<1> QED BY <1>1, <1>2, <1>3, WriteComplete

LEMMA ChangeComplete ==
  ASSUME CompleteInv, NEW e \in Entities, NEW to \in DOMAIN LaterActions, Change(e, to),
         OldOutcome(e) => to = "RESOLVED", statusOf[e] \notin Gone
  PROVE  CompleteInv'
<1> DEFINE x == Event(LaterActions[to], e)
<1>1. Write(e, to, {x}) /\ x = Event(x.action, x.entity) /\ opened' = opened
  BY DEF Change, Event
<1>2. \A y \in Projection(e, to) : y \in Projection(e, statusOf[e]) \cup {x}
  BY ShownByRow
<1>3. statusOf[e] # "deleted"
  BY DEF Gone
<1> HIDE DEF x
<1> QED BY <1>1, <1>2, <1>3, WriteComplete

LEMMA RestartComplete ==
  ASSUME CompleteInv, NEW e \in Entities, Restart(e)
  PROVE  CompleteInv'
<1>1. Write(e, "running", {}) /\ opened' = opened /\ statusOf[e] \in DOMAIN TERMINAL /\ ~OldOutcome(e)
  BY DEF Restart, MayWrite, OldOutcome, LaterActions
<1>2. \A y \in Projection(e, "running") : y \in Projection(e, statusOf[e])
  BY <1>1, ShownByRow DEF TERMINAL, LaterActions, Gone
<1> QED BY <1>1, <1>2, WriteComplete

LEMMA OutcomeComplete ==
  ASSUME CompleteInv, NEW e \in Entities, Finish(e) \/ Decide(e) \/ Resolve(e)
  PROVE  CompleteInv'
<1>1. CASE Finish(e)
  <2>1. PICK to \in DOMAIN TERMINAL : Change(e, to)
    BY <1>1 DEF Finish
  <2>2. to \in DOMAIN LaterActions /\ ~OldOutcome(e) /\ statusOf[e] \notin Gone
    BY <1>1 DEF Finish, MayWrite, OldOutcome, TERMINAL, LaterActions, Statuses, Gone
  <2> QED BY <2>1, <2>2, ChangeComplete
<1>2. CASE Decide(e)
  <2>1. PICK to \in DOMAIN _DECISIONS : Change(e, to)
    BY <1>2 DEF Decide
  <2>2. to \in DOMAIN LaterActions /\ ~OldOutcome(e) /\ statusOf[e] \notin Gone
    BY <1>2 DEF Decide, MayWrite, OldOutcome, _DECISIONS, LaterActions, Statuses, Gone
  <2> QED BY <2>1, <2>2, ChangeComplete
<1>3. CASE Resolve(e)
  <2>1. "RESOLVED" \in DOMAIN LaterActions /\ Change(e, "RESOLVED") /\ statusOf[e] \notin Gone
    BY <1>3 DEF Resolve, MayWrite, _DECISION_ACTIONS, LaterActions, Gone
  <2> QED BY <2>1, ChangeComplete
<1> QED BY <1>1, <1>2, <1>3

LEMMA DeleteCaseComplete ==
  ASSUME CompleteInv, NEW c \in Entities, DeleteCase(c)
  PROVE  CompleteInv'
<1> USE DEF CompleteInv
<1>1. /\ RowsForm'
      /\ \A e \in Entities : statusOf'[e] \in {statusOf[e], "deleted"}
      /\ UNCHANGED <<reader, due, shown, ledger, opened>>
  BY DEF DeleteCase, RowsForm
<1>2. OldStep
  BY <1>1 DEF OldStep
<1>3. OpenedRecorded'
  BY <1>1 DEF OpenedRecorded, Covered, Event
<1>4. \A e \in Entities : statusOf'[e] = statusOf[e] \/ \A y \in Projection(e, statusOf'[e]) : Known(y)'
  BY <1>1 DEF Projection, Gone
<1> QED BY <1>1, <1>2, <1>3, <1>4, WritersComplete

------------------------------------------------------------------------------
(***************************************************************************)
(* The request.                                                            *)
(***************************************************************************)
LEMMA RequestComplete ==
  ASSUME CompleteInv, Request
  PROVE  CompleteInv'
<1> USE DEF CompleteInv
<1>1. /\ reader' = [step |-> 1, ledger |-> ledger, events |-> {}, missed |-> {}, opened |-> opened]
      /\ due' = Due /\ UNCHANGED <<statusOf, created, ledger, opened, shown>>
  BY DEF Request, Waiting
<1>2. \A e \in Entities : Ahead(KindOf[e])'
  BY <1>1, EntitiesAssumption, KindsInOrder DEF Ahead, ToSet
<1>3. ASSUME NEW y, Settled(y) PROVE Settled(y)' /\ (y \in Covered(reader'.ledger) \/ Pursued(y)')
  <2>1. Settled(y)'
    BY <1>1, <1>3 DEF Settled, OfEntity, Known, Covered, Event, Unrecorded
  <2>2. CASE y \in Covered(ledger)
    BY <1>1, <2>1, <2>2
  <2>3. CASE Unrecorded(y, opened)
    BY <1>1, <1>2, <1>3, <2>1, <2>3 DEF Pursued, Settled, OfEntity, Event, Unrecorded
  <2> QED BY <1>3, <2>1, <2>2, <2>3 DEF Settled, Known
<1>4. due'.ledger = ledger /\ \A y \in due'.projected : Settled(y)
  <2>1. due'.ledger = ledger
    BY <1>1 DEF Due
  <2>2. ASSUME NEW y \in due'.projected PROVE Settled(y)
    <3>1. PICK kind \in ToSet(Kinds) : y \in Projected(kind)
      BY <1>1, <2>2 DEF Due
    <3>2. PICK e \in Selected(kind) : y \in Projection(e, statusOf[e])
      BY <3>1 DEF Projected
    <3>3. e \in Entities
      BY <3>2 DEF Selected, Present
    <3> QED BY <3>2, <3>3, ShownIsOfRow DEF Settled, RecordedOrOld
  <2> QED BY <2>1, <2>2
<1>5. ReadingInv'
  <2>1. \A y \in shown.projected : Settled(y)' /\ (y \in Covered(reader'.ledger) \/ Pursued(y)')
    BY <1>3 DEF ReadingInv
  <2>2. \A y \in due'.projected : y \in Covered(reader'.ledger) \/ Pursued(y)'
    BY <1>3, <1>4
  <2>3. Covered(reader.ledger)' = Covered(reader'.ledger)
    BY DEF Covered, Event
  <2> QED BY <1>1, <1>4, <2>1, <2>2, <2>3 DEF ReadingInv
<1>6. RowsForm' /\ ReaderForm' /\ OpenedRecorded' /\ OldOutcomesPass' /\ ReadInv'
  BY <1>1 DEF RowsForm, ReaderForm, OpenedRecorded, OldOutcomesPass, OldOutcome, ReadInv, Covered, Event
<1>7. RecordedOrOld'
  BY <1>1 DEF RecordedOrOld, Known, Covered, Event, Unrecorded, Projection
<1> QED BY <1>5, <1>6, <1>7

LEMMA ReadTableComplete ==
  ASSUME CompleteInv, ReadTable
  PROVE  CompleteInv'
<1> USE DEF CompleteInv
<1> DEFINE kind == Kinds[reader.step]
<1>1. /\ reader' = [step |-> reader.step + 1, ledger |-> reader.ledger,
                    events |-> reader.events \cup Projected(kind),
                    missed |-> reader.missed \cup ({e \in Entities : KindOf[e] = kind} \ Selected(kind)),
                    opened |-> reader.opened]
      /\ UNCHANGED <<statusOf, created, ledger, opened, due, shown>>
  BY DEF ReadTable, ReaderForm
<1>2. reader.step \in 1..6 /\ kind \in ToSet(Kinds)
  BY KindsInOrder DEF ReadTable, ToSet
<1>3. ASSUME NEW y \in Projected(kind) PROVE Settled(y)
  <2>1. PICK e \in Selected(kind) : y \in Projection(e, statusOf[e])
    BY DEF Projected
  <2>2. e \in Entities
    BY <2>1 DEF Selected, Present
  <2> QED BY <2>1, <2>2, ShownIsOfRow DEF Settled, RecordedOrOld
<1>4. ASSUME NEW y, Pursued(y) PROVE Pursued(y)'
  <2> DEFINE e == y.entity
  <2>1. OfEntity(y) /\ Unrecorded(y, reader.opened) /\ OfEntity(y)' /\ Unrecorded(y, reader.opened)'
    BY <1>1, <1>4 DEF Pursued, OfEntity, Unrecorded, Event
  <2>2. CASE y \in reader.events \/ e \in reader.missed \/ Outdated(y)
    BY <1>1, <2>1, <2>2 DEF Pursued, Outdated, OldOutcome
  <2>3. CASE Ahead(KindOf[e]) /\ ~Outdated(y)
    <3>1. PICK k \in reader.step..Len(Kinds) : Kinds[k] = KindOf[e]
      BY <2>3 DEF Ahead
    <3>2. CASE k # reader.step
      <4>1. k \in reader'.step..Len(Kinds)
        BY <1>1, <1>2, <3>1, <3>2, KindsInOrder
      <4> QED BY <2>1, <3>1, <4>1 DEF Pursued, Ahead
    <3>3. CASE k = reader.step /\ e \notin Selected(kind)
      <4>1. e \in reader'.missed
        BY <1>1, <2>1, <3>1, <3>3 DEF OfEntity
      <4> QED BY <2>1, <4>1 DEF Pursued
    <3>4. CASE k = reader.step /\ e \in Selected(kind)
      <4>1. y = Event(y.action, e)
        BY <2>1 DEF OfEntity
      <4>2. y \in Projection(e, statusOf[e])
        BY <2>1, <2>3, <3>4, <4>1, ShownByRow DEF Selected, Present, Unrecorded, Outdated, OldOutcome
      <4>3. y \in reader'.events
        BY <1>1, <3>4, <4>2 DEF Projected
      <4> QED BY <2>1, <4>3 DEF Pursued
    <3> QED BY <3>1, <3>2, <3>3, <3>4
  <2> QED BY <1>4, <2>2, <2>3 DEF Pursued
<1>5. ASSUME NEW y, Settled(y) PROVE Settled(y)'
  BY <1>1, <1>5 DEF Settled, OfEntity, Known, Covered, Event, Unrecorded
<1>6. ReadingInv'
  <2>1. \A y \in reader'.events \cup shown.projected : Settled(y)'
    BY <1>1, <1>3, <1>5 DEF ReadingInv
  <2>2. Covered(reader.ledger)' = Covered(reader.ledger)
    BY <1>1 DEF Covered, Event
  <2>3. /\ reader.step # 0 /\ reader.step + 1 \in Nat
        /\ shown.ledger \subseteq ledger
        /\ shown.ledger \cup due.ledger \subseteq reader.ledger
        /\ \A y \in shown.projected \cup due.projected : y \in Covered(reader.ledger) \/ Pursued(y)'
    BY <1>2, <1>4 DEF ReadingInv
  <2> QED BY <1>1, <2>1, <2>2, <2>3 DEF ReadingInv
<1>7. RowsForm' /\ ReaderForm' /\ OpenedRecorded' /\ OldOutcomesPass' /\ ReadInv'
  BY <1>1 DEF RowsForm, ReaderForm, OpenedRecorded, OldOutcomesPass, OldOutcome, ReadInv, Covered, Event
<1>8. RecordedOrOld'
  BY <1>1 DEF RecordedOrOld, Known, Covered, Event, Unrecorded, Projection
<1> QED BY <1>6, <1>7, <1>8

LEMMA RespondComplete ==
  ASSUME CompleteInv, Respond
  PROVE  CompleteInv'
<1> USE DEF CompleteInv
<1>1. /\ reader' = [step |-> 0, ledger |-> {}, events |-> {}, missed |-> {}, opened |-> {}]
      /\ UNCHANGED <<statusOf, created, ledger, opened>>
      /\ shown'.ledger = reader.ledger /\ shown'.projected \subseteq reader.events
  BY MergedWhole DEF Respond, Waiting
<1>2. ASSUME NEW y \in shown'.projected PROVE Settled(y)'
  BY <1>1, <1>2 DEF ReadingInv, Settled, OfEntity, Known, Covered, Event, Unrecorded
<1>3. ReadingInv'
  BY <1>1, <1>2 DEF ReadingInv, ReadInv
<1>4. RowsForm' /\ ReaderForm' /\ OpenedRecorded' /\ OldOutcomesPass' /\ ReadInv'
  BY <1>1 DEF RowsForm, ReaderForm, OpenedRecorded, OldOutcomesPass, OldOutcome, ReadInv, Covered, Event
<1>5. RecordedOrOld'
  BY <1>1 DEF RecordedOrOld, Known, Covered, Event, Unrecorded, Projection
<1> QED BY <1>3, <1>4, <1>5

LEMMA NextComplete == CompleteInv /\ [TrailNext]_trailVars => CompleteInv'
<1> SUFFICES ASSUME CompleteInv, [TrailNext]_trailVars PROVE CompleteInv'
  OBVIOUS
<1>1. CASE Request \/ ReadTable \/ Respond
  BY <1>1, RequestComplete, ReadTableComplete, RespondComplete
<1>2. ASSUME NEW e \in Entities,
             \/ CreateCase(e) \/ EnsureCase(e) \/ Create(e) \/ Record(e) \/ Restart(e)
             \/ DeleteDocument(e) \/ DeleteCase(e)
      PROVE  CompleteInv'
  BY <1>2, CreateCaseComplete, EnsureCaseComplete, CreateComplete, RecordComplete,
     RestartComplete, DeleteCaseComplete
<1>3. ASSUME NEW e \in Entities, Finish(e) \/ Decide(e) \/ Resolve(e) PROVE CompleteInv'
  BY <1>3, OutcomeComplete
<1>4. CASE UNCHANGED trailVars
  <2>1. /\ UNCHANGED <<reader, due, shown>> /\ ledger' = ledger /\ statusOf' = statusOf
        /\ opened' = opened
    BY <1>4 DEF trailVars
  <2>2. RowsForm' /\ OpenedRecorded' /\ OldStep
    BY <2>1 DEF CompleteInv, RowsForm, OpenedRecorded, OldStep, Covered, Event
  <2> QED BY <2>1, <2>2, WritersComplete
<1> QED BY <1>1, <1>2, <1>3, <1>4 DEF TrailNext

THEOREM Completeness == TrailSpec => []CompleteInv
BY InitComplete, NextComplete, PTL DEF TrailSpec

------------------------------------------------------------------------------
\* When a response is put together every table has been read.
LEMMA RespondedInFull ==
  ASSUME CompleteInv, Respond, NEW y, y \in Covered(reader.ledger) \/ Pursued(y)
  PROVE  y \in Events(shown') \/ MayVanish(y)
<1>1. Events(shown') = Covered(reader.ledger) \cup reader.events
  BY MergedWhole DEF Respond
<1>2. ASSUME Pursued(y), y \notin reader.events PROVE MayVanish(y)
  <2>1. ~Ahead(KindOf[y.entity])
    BY KindsInOrder DEF Respond, Ahead
  <2>2. CASE Outdated(y)
    <3>1. y.entity \in Entities /\ KindOf[y.entity] \in ToSet(Kinds)
      BY <1>2, EntitiesAssumption DEF Pursued, OfEntity
    <3>2. ASSUME y \in Projection(y.entity, statusOf[y.entity]) PROVE FALSE
      <4> DEFINE e == y.entity
      <4>1. \/ y = Event(FirstAction[KindOf[e]], e)
            \/ statusOf[e] \in DOMAIN LaterActions /\ y = Event(LaterActions[statusOf[e]], e)
        BY <3>2, ShownByRow
      <4>2. \/ y.action = FirstAction[KindOf[e]]
            \/ statusOf[e] \in DOMAIN LaterActions /\ y.action = LaterActions[statusOf[e]]
        BY <4>1 DEF Event
      <4> QED BY <2>2, <3>1, <4>2, ActionsDiffer DEF Outdated, OldOutcome
    <3> QED BY <1>2, <3>2 DEF Pursued, MayVanish
  <2> QED BY <1>2, <2>1, <2>2 DEF Pursued, MayVanish
<1> QED BY <1>1, <1>2

(***************************************************************************)
(* What there was to show when the request came is in its trail, although  *)
(* findings were decided, runs ended, and cases were deleted and made      *)
(* again, with an event or without, before their tables were read          *)
(* (audit.py:593-675).                                                     *)
(***************************************************************************)
THEOREM NothingOverlooked == TrailSpec => NothingIsOverlooked
<1>1. ASSUME CompleteInv, Respond
      PROVE  /\ due.ledger \subseteq shown'.ledger
             /\ \A x \in due.projected : x \in Events(shown') \/ MayVanish(x)
  <2>1. reader.step # 0 /\ shown'.ledger = reader.ledger
    BY <1>1, KindsInOrder, MergedWhole DEF Respond
  <2> QED BY <1>1, <2>1, RespondedInFull DEF CompleteInv, ReadingInv
<1>2. CompleteInv /\ [TrailNext]_trailVars =>
        [Respond => /\ due.ledger \subseteq shown'.ledger
                    /\ \A x \in due.projected : x \in Events(shown') \/ MayVanish(x)]_trailVars
  BY <1>1
<1> QED BY <1>2, Completeness, PTL DEF TrailSpec, NothingIsOverlooked

(***************************************************************************)
(* What one response shows, the next one does, unless the ledger need not  *)
(* have it and its row is gone, crowded out or changed: what was read from *)
(* a table before its event was is found in the ledger later.              *)
(***************************************************************************)
THEOREM ShownStays == TrailSpec => ShownStaysShown
<1>1. ASSUME CompleteInv, Respond PROVE KeepsShown
  <2>1. reader.step # 0 /\ shown'.ledger = reader.ledger
    BY <1>1, KindsInOrder, MergedWhole DEF Respond
  <2> QED BY <1>1, <2>1, RespondedInFull DEF CompleteInv, ReadingInv, KeepsShown
<1>2. CompleteInv /\ [TrailNext]_trailVars => [Respond => KeepsShown]_trailVars
  BY <1>1
<1> QED BY <1>2, Completeness, PTL DEF TrailSpec, ShownStaysShown
================================================================================
