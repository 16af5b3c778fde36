---------------------------- MODULE IndexingProofs ----------------------------
(***************************************************************************)
(* Documents are indexed as a whole, and a run that loses against another  *)
(* leaves nothing to do, for any documents, chunks and runs.               *)
(*                                                                         *)
(* A run works for a long time with what it has selected.  It is enough    *)
(* that a selection consists of whole documents that were stored, and that *)
(* it stays one: then what it commits does not depend on what the others   *)
(* have done to these documents since.                                     *)
(***************************************************************************)
EXTENDS Indexing, TLAPS, SequenceTheorems

Whole(chunks) == \A d \in Documents : ChunksOf[d] \subseteq chunks \/ ChunksOf[d] \cap chunks = {}

Queues == Seq(SUBSET Documents)

RunType ==
  run \in [Runs -> [step : {"idle", "storing", "select", "embed", "insert", "commit"},
                    queue : Queues, selected : SUBSET Chunks(Documents)]]

\* What run i has selected is of stored documents that it is to index.
SelectionOf(i) ==
  /\ run[i].step # "idle" => run[i].queue # <<>>
  /\ run[i].step \in {"idle", "storing", "select"} => run[i].selected = {}
  /\ Whole(run[i].selected)
  /\ \A d \in Documents : ChunksOf[d] \cap run[i].selected # {} =>
       d \in Head(run[i].queue) /\ docs[d] # "absent"

IndexInv ==
  /\ docs \in [Documents -> {"absent", "parsed", "deleted"}]
  /\ RunType
  /\ AllOrNothing
  /\ \A i \in Runs : SelectionOf(i)

LEMMA InitIndex == Init => IndexInv
BY EmptySeq DEF Init, IndexInv, RunType, Queues, Idle, AllOrNothing, SelectionOf, Whole, Runs

\* A run that goes on with the next document has selected nothing.
LEMMA NextKeeps ==
  ASSUME RunType, NEW i \in Runs, SelectionOf(i),
         NextDocument(i) \/ Fail(i) \/ EndTask(i)
  PROVE  /\ RunType'
         /\ \A k \in Runs \ {i} : run'[k] = run[k]
         /\ run'[i].selected = {}
         /\ run'[i].step # "idle" => run'[i].queue # <<>>
<1>1. run[i].queue \in Seq(SUBSET Documents)
  BY DEF RunType, Queues
<1>2. CASE run' = [run EXCEPT ![i] = Idle]
  BY <1>2, EmptySeq DEF RunType, Queues, Idle
<1>3. CASE /\ Len(run[i].queue) > 1
           /\ run' = [run EXCEPT ![i] = [step |-> "select", queue |-> Tail(run[i].queue),
                                         selected |-> {}]]
  <2>1. Tail(run[i].queue) \in Seq(SUBSET Documents) /\ Tail(run[i].queue) # <<>>
    BY <1>1, <1>3
  <2> QED
    BY <1>3, <2>1 DEF RunType, Queues
<1> QED
  BY <1>2, <1>3 DEF NextDocument, Fail, EndTask

\* A step of one run leaves what is said of the others.
LEMMA OthersKeep ==
  ASSUME IndexInv, NEW i \in Runs, \A k \in Runs \ {i} : run'[k] = run[k],
         \A d \in Documents : docs[d] # "absent" => docs'[d] # "absent",
         NEW k \in Runs, k # i
  PROVE  SelectionOf(k)'
BY DEF IndexInv, SelectionOf, Whole

LEMMA SelectionIsWhole ==
  ASSUME DocumentsAssumption, AllOrNothing, NEW ds
  PROVE  /\ Whole(Unindexed(ds))
         /\ Unindexed(ds) \subseteq Chunks(Documents)
         /\ \A d \in Documents : ChunksOf[d] \cap Unindexed(ds) # {} =>
              d \in ds /\ docs[d] # "absent"
<1>1. ASSUME NEW d \in Documents, NEW c \in ChunksOf[d], c \in Unindexed(ds)
      PROVE  d \in ds \cap Parsed /\ ChunksOf[d] \subseteq Unindexed(ds)
  <2>1. PICK e \in ds \cap Parsed : c \in ChunksOf[e]
    BY <1>1 DEF Unindexed, Chunks
  <2>2. e = d
    BY <1>1, <2>1 DEF DocumentsAssumption, Parsed
  <2>3. ChunksOf[d] \cap embedded = {}
    BY <1>1 DEF Unindexed, AllOrNothing
  <2> QED
    BY <2>1, <2>2, <2>3 DEF Unindexed, Chunks
<1> QED
  BY <1>1 DEF Whole, Unindexed, Chunks, Parsed

LEMMA NextIndex == IndexInv /\ [Next]_vars => IndexInv'
<1> SUFFICES ASSUME IndexInv, [Next]_vars PROVE IndexInv'
  OBVIOUS
<1> USE DEF IndexInv
<1>a. ASSUME NEW i \in Runs, UNCHANGED <<docs, embedded>>,
             NextDocument(i) \/ Fail(i) \/ EndTask(i)
      PROVE  IndexInv'
  <2>1. /\ RunType' /\ run'[i].selected = {}
        /\ run'[i].step # "idle" => run'[i].queue # <<>>
        /\ \A k \in Runs \ {i} : run'[k] = run[k]
    BY <1>a, NextKeeps
  <2>2. SelectionOf(i)'
    BY <2>1 DEF SelectionOf, Whole
  <2> QED
    BY <1>a, <2>1, <2>2, OthersKeep DEF AllOrNothing
<1>b. ASSUME NEW i \in Runs, UNCHANGED <<docs, embedded>>, run[i].step # "idle",
             NEW step \in {"insert", "commit"}, GoTo(i, step, run[i].selected)
      PROVE  IndexInv'
  <2>1. /\ RunType' /\ run'[i] = [run[i] EXCEPT !.step = step]
        /\ \A k \in Runs \ {i} : run'[k] = run[k]
    BY <1>b DEF GoTo, RunType
  <2>2. SelectionOf(i)'
    <3>1. /\ run'[i].step = step /\ run'[i].queue = run[i].queue
          /\ run'[i].selected = run[i].selected
      BY <2>1 DEF RunType
    <3>2. SelectionOf(i)
      OBVIOUS
    <3>3. docs' = docs
      BY <1>b
    <3> HIDE DEF IndexInv
    <3> QED BY <1>b, <3>1, <3>2, <3>3 DEF SelectionOf, Whole
  <2>3. /\ docs' \in [Documents -> {"absent", "parsed", "deleted"}]
        /\ \A d \in Documents : docs[d] # "absent" => docs'[d] # "absent"
        /\ AllOrNothing'
    BY <1>b DEF AllOrNothing
  <2>4. ASSUME NEW k \in Runs, k # i PROVE SelectionOf(k)'
    BY <2>1, <2>3, <2>4, OthersKeep
  <2> QED
    BY <2>1, <2>2, <2>3, <2>4
<1>1. ASSUME NEW t \in Tasks, NEW d \in Documents, Store(t, d) PROVE IndexInv'
  <2>0. t \in Runs /\ run[t].queue \in Seq(SUBSET Documents)
    BY DEF Runs, RunType, Queues
  <2>1. /\ Append(run[t].queue, {d}) \in Seq(SUBSET Documents)
        /\ Append(run[t].queue, {d}) # <<>>
    BY <2>0
  <2>2. /\ RunType' /\ run'[t].selected = {} /\ run'[t].queue # <<>>
        /\ \A k \in Runs \ {t} : run'[k] = run[k]
    BY <1>1, <2>0, <2>1 DEF Store, RunType, Queues
  <2>3. SelectionOf(t)'
    BY <2>2 DEF SelectionOf, Whole
  <2>4. /\ docs' \in [Documents -> {"absent", "parsed", "deleted"}]
        /\ \A e \in Documents : docs[e] # "absent" => docs'[e] # "absent"
    BY <1>1 DEF Store
  <2> QED
    BY <1>1, <2>0, <2>2, <2>3, <2>4, OthersKeep DEF Store, AllOrNothing
<1>2. ASSUME NEW i \in Runs, NEW ds \in SUBSET Documents, Start(i, ds) PROVE IndexInv'
  <2>1. /\ RunType' /\ run'[i].selected = {} /\ run'[i].queue # <<>>
        /\ \A k \in Runs \ {i} : run'[k] = run[k]
    BY <1>2 DEF Start, RunType, Queues
  <2>2. SelectionOf(i)'
    BY <2>1 DEF SelectionOf, Whole
  <2> QED
    BY <1>2, <2>1, <2>2, OthersKeep DEF Start, AllOrNothing
<1>3. ASSUME NEW i \in Runs, Schedule(i) PROVE IndexInv'
  <2>1. /\ RunType' /\ run'[i].selected = {} /\ run'[i].queue = run[i].queue
        /\ \A k \in Runs \ {i} : run'[k] = run[k]
    BY <1>3 DEF Schedule, GoTo, RunType
  <2>2. SelectionOf(i)'
    BY <1>3, <2>1 DEF SelectionOf, Whole, Schedule
  <2> QED
    BY <1>3, <2>1, <2>2, OthersKeep DEF Schedule, AllOrNothing
<1>4. ASSUME NEW i \in Runs, Select(i) PROVE IndexInv'
  <2> DEFINE found == Unindexed(Head(run[i].queue))
  <2>1. CASE NextDocument(i)
    BY <1>a, <1>4, <2>1 DEF Select
  <2>2. CASE GoTo(i, "embed", found)
    <3>1. /\ Whole(found) /\ found \subseteq Chunks(Documents)
          /\ \A d \in Documents : ChunksOf[d] \cap found # {} =>
               d \in Head(run[i].queue) /\ docs[d] # "absent"
      BY DocumentsAssumption, SelectionIsWhole
    <3> HIDE DEF found
    <3>2. /\ RunType' /\ run'[i] = [run[i] EXCEPT !.step = "embed", !.selected = found]
          /\ \A k \in Runs \ {i} : run'[k] = run[k]
      BY <2>2, <3>1 DEF GoTo, RunType
    <3>3. /\ run'[i].step = "embed" /\ run'[i].selected = found
          /\ run'[i].queue = run[i].queue /\ run[i].queue # <<>>
      BY <1>4, <3>2 DEF Select, SelectionOf, RunType
    <3>4. SelectionOf(i)'
      BY <1>4, <3>1, <3>3 DEF SelectionOf, Whole, Select
    <3> QED
      BY <1>4, <3>2, <3>4, OthersKeep DEF Select, AllOrNothing
  <2> QED
    BY <1>4, <2>1, <2>2 DEF Select
<1>5. ASSUME NEW i \in Runs, Embed(i) \/ Insert(i) PROVE IndexInv'
  BY <1>a, <1>b, <1>5 DEF Embed, Insert
<1>6. ASSUME NEW i \in Runs, Commit(i) PROVE IndexInv'
  <2>1. /\ RunType' /\ run'[i].selected = {}
        /\ run'[i].step # "idle" => run'[i].queue # <<>>
        /\ \A k \in Runs \ {i} : run'[k] = run[k]
    BY <1>6, NextKeeps DEF Commit
  <2>2. SelectionOf(i)'
    BY <2>1 DEF SelectionOf, Whole
  <2>3. AllOrNothing'
    BY <1>6 DEF Commit, AllOrNothing, SelectionOf, Whole
  <2> QED
    BY <1>6, <2>1, <2>2, <2>3, OthersKeep DEF Commit
<1>7. ASSUME NEW i \in Runs, Break(i) PROVE IndexInv'
  BY <1>a, <1>7 DEF Break
<1>8. CASE Crash
  <2>1. RunType' /\ \A i \in Runs : run'[i] = Idle
    BY <1>8, EmptySeq DEF Crash, RunType, Queues, Idle
  <2>2. \A i \in Runs : SelectionOf(i)'
    BY <2>1 DEF SelectionOf, Whole, Idle
  <2> QED
    BY <1>8, <2>1, <2>2 DEF Crash, AllOrNothing
<1>9. ASSUME NEW d \in Documents, StoreOnly(d) \/ Delete(d) PROVE IndexInv'
  <2>1. /\ docs' \in [Documents -> {"absent", "parsed", "deleted"}]
        /\ \A e \in Documents : docs[e] # "absent" => docs'[e] # "absent"
        /\ run' = run
    BY <1>9 DEF StoreOnly, Delete
  <2>2. RunType' /\ \A i \in Runs : SelectionOf(i)'
    BY <2>1 DEF RunType, SelectionOf, Whole
  <2>3. AllOrNothing'
    BY <1>9, DocumentsAssumption DEF StoreOnly, Delete, AllOrNothing, DocumentsAssumption
  <2> QED
    BY <2>1, <2>2, <2>3
<1>10. CASE UNCHANGED vars
  BY <1>10 DEF vars, RunType, AllOrNothing, SelectionOf, Whole
<1>11. ASSUME NEW i \in Runs, Advance(i) PROVE IndexInv'
  BY <1>3, <1>4, <1>5, <1>6, <1>11 DEF Advance
<1> QED
  BY <1>1, <1>2, <1>7, <1>8, <1>9, <1>10, <1>11 DEF Next, Runs

\* Dense retrieval finds a document with all of its chunks or with none.
THEOREM IndexedAsAWhole == Spec => []AllOrNothing
<1>1. IndexInv => AllOrNothing
  BY DEF IndexInv
<1> QED
  BY InitIndex, NextIndex, <1>1, PTL DEF Spec

\* The request or task that loses against another on a document may fail: the
\* other has indexed the document, or it is deleted.
THEOREM LosersLeaveNothing == Spec => ConflictsAreCovered
<1> DEFINE Covered ==
      \A i \in Runs : \A d \in Documents :
        /\ run[i].step = "insert" /\ Head(run[i].queue) = {d}
        /\ Insert(i) /\ run'[i].step # "commit"
        => docs[d] = "deleted" \/ ChunksOf[d] \subseteq embedded
<1>1. IndexInv => Covered
  <2> SUFFICES ASSUME IndexInv, NEW i \in Runs, NEW d \in Documents,
                      Head(run[i].queue) = {d}, Insert(i), run'[i].step # "commit"
               PROVE  docs[d] = "deleted" \/ ChunksOf[d] \subseteq embedded
    OBVIOUS
  <2>1. Conflict(i)
    BY DEF Insert, GoTo, IndexInv, RunType
  <2>2. PICK c \in run[i].selected : c \notin Unindexed(Documents)
    BY <2>1 DEF Conflict
  <2>3. c \in ChunksOf[d] /\ docs[d] # "absent"
    <3>1. PICK e \in Documents : c \in ChunksOf[e]
      BY <2>2 DEF IndexInv, RunType, Chunks
    <3>2. e \in Head(run[i].queue) /\ docs[e] # "absent"
      BY <2>2, <3>1 DEF IndexInv, SelectionOf
    <3> QED
      BY <3>1, <3>2
  <2>4. c \in embedded \/ docs[d] # "parsed"
    BY <2>2, <2>3 DEF Unindexed, Chunks, Parsed
  <2> QED
    BY <2>3, <2>4 DEF IndexInv, AllOrNothing
<1>2. IndexInv /\ [Next]_vars => [Covered]_vars
  BY <1>1
<1> QED
  BY InitIndex, NextIndex, <1>2, PTL DEF Spec, ConflictsAreCovered
===============================================================================
