------------------------------- MODULE Indexing -------------------------------
(***************************************************************************)
(* Embeddings of chunks: ChunkIndexer of app/retrieval/indexer.py, run in  *)
(* the background after an upload to a case (app/api/routes/cases.py), by  *)
(* POST /documents/{id}/index and, for everything, by the evaluations.     *)
(*                                                                         *)
(* A run selects chunks that have no embedding, awaits the embeddings, and *)
(* inserts all of them in one transaction.  PostgreSQL lets an insert wait *)
(* for another transaction that inserts an embedding of the same chunk,    *)
(* and a deletion wait for one that refers to a chunk it deletes.          *)
(***************************************************************************)
EXTENDS Integers, Sequences, FiniteSets

CONSTANTS
  Documents,
  ChunksOf,   \* ChunksOf[d]: the chunks of document d
  Tasks,      \* background tasks of uploads
  Requests,   \* requests to index one document
  Suites,     \* evaluations, which index what is pending
  MaxFaults   \* bound: failures of the server, the database or Ollama

Runs == Tasks \cup Requests \cup Suites

ASSUME DocumentsAssumption ==
  /\ DOMAIN ChunksOf = Documents
  /\ \A d, e \in Documents : d # e => ChunksOf[d] \cap ChunksOf[e] = {}
  /\ MaxFaults \in Nat

VARIABLES
  docs,      \* docs[d]: "absent", "parsed" or "deleted"
  embedded,  \* chunks with a row of chunk_embeddings
  run,       \* run[i]: step, the sets of documents still to index, selected chunks
  faults     \* failures so far

vars == <<docs, embedded, run, faults>>

Idle == [step |-> "idle", queue |-> <<>>, selected |-> {}]

Parsed == {d \in Documents : docs[d] = "parsed"}
Chunks(ds) == UNION {ChunksOf[d] : d \in ds}

GoTo(i, step, selected) ==
  run' = [run EXCEPT ![i].step = step, ![i].selected = selected]

(***************************************************************************)
(* POST /cases/{id}/documents stores its files one by one and schedules    *)
(* the indexing of those it stored, new ones or duplicates, at its end.    *)
(***************************************************************************)
Store(t, d) ==
  /\ t \in Tasks /\ run[t].step \in {"idle", "storing"}
  /\ docs[d] # "deleted"
  /\ Len(run[t].queue) < Cardinality(Documents)
  /\ docs' = [docs EXCEPT ![d] = "parsed"]
  /\ run' = [run EXCEPT ![t] = [step |-> "storing", queue |-> Append(run[t].queue, {d}),
                                selected |-> {}]]
  /\ UNCHANGED <<embedded, faults>>

\* POST /documents does not index what it stores.
StoreOnly(d) ==
  /\ docs[d] = "absent"
  /\ docs' = [docs EXCEPT ![d] = "parsed"]
  /\ UNCHANGED <<embedded, run, faults>>

Schedule(t) ==
  /\ run[t].step = "storing"
  /\ GoTo(t, "select", {})
  /\ UNCHANGED <<docs, embedded, faults>>

\* POST /documents/{id}/index and index_pending.
Start(i, ds) ==
  /\ run[i] = Idle
  /\ run' = [run EXCEPT ![i] = [step |-> "select", queue |-> <<ds>>, selected |-> {}]]
  /\ UNCHANGED <<docs, embedded, faults>>

(***************************************************************************)
(* _index, with the session it opens for each call.                        *)
(***************************************************************************)
\* The end of a call, by a return or an exception, which _index_documents
\* catches: the next document follows.
NextDocument(i) ==
  run' = [run EXCEPT ![i] =
            IF Len(@.queue) > 1
            THEN [step |-> "select", queue |-> Tail(@.queue), selected |-> {}]
            ELSE Idle]

\* An exception.  Mutant: it ends the task.
EndTask(i) == run' = [run EXCEPT ![i] = Idle]
Fail(i) == NextDocument(i)

Unindexed(ds) == Chunks(ds \cap Parsed) \ embedded

Select(i) ==
  /\ run[i].step = "select"
  /\ LET found == Unindexed(Head(run[i].queue))
     IN  IF found = {} THEN NextDocument(i) ELSE GoTo(i, "embed", found)
  /\ UNCHANGED <<docs, embedded, faults>>

Embed(i) ==
  /\ run[i].step = "embed"
  /\ GoTo(i, "insert", run[i].selected)
  /\ UNCHANGED <<docs, embedded, faults>>

\* Runs that have inserted rows of these chunks and not committed them.
Inserting(chunks) ==
  {i \in Runs : run[i].step = "commit" /\ run[i].selected \cap chunks # {}}

\* IntegrityError: a chunk has an embedding by now, or is gone.
Conflict(i) == ~(run[i].selected \subseteq Unindexed(Documents))

\* Mutant: the insert gives up where it has to wait.
InsertNoWait(i) ==
  /\ run[i].step = "insert"
  /\ IF Conflict(i) \/ Inserting(run[i].selected) # {}
     THEN Fail(i) ELSE GoTo(i, "commit", run[i].selected)
  /\ UNCHANGED <<docs, embedded, faults>>
Insert(i) ==
  /\ run[i].step = "insert"
  /\ Inserting(run[i].selected) = {}
  /\ IF Conflict(i) THEN Fail(i) ELSE GoTo(i, "commit", run[i].selected)
  /\ UNCHANGED <<docs, embedded, faults>>

\* Mutant: every chunk is committed for itself.
CommitEach(i) ==
  /\ run[i].step = "commit"
  /\ \E c \in run[i].selected :
       /\ embedded' = embedded \cup {c}
       /\ IF run[i].selected = {c} THEN NextDocument(i)
          ELSE GoTo(i, "commit", run[i].selected \ {c})
  /\ UNCHANGED <<docs, faults>>
Commit(i) ==
  /\ run[i].step = "commit"
  /\ embedded' = embedded \cup run[i].selected
  /\ NextDocument(i)
  /\ UNCHANGED <<docs, faults>>

(***************************************************************************)
(* The environment.                                                        *)
(***************************************************************************)
Break(i) ==
  /\ faults < MaxFaults /\ run[i].step \in {"select", "embed", "insert", "commit"}
  /\ faults' = faults + 1
  /\ Fail(i)
  /\ UNCHANGED <<docs, embedded>>

Crash ==
  /\ faults < MaxFaults
  /\ faults' = faults + 1
  /\ run' = [i \in Runs |-> Idle]
  /\ UNCHANGED <<docs, embedded>>

\* Chunks and embeddings are deleted with the document.
Delete(d) ==
  /\ docs[d] = "parsed" /\ Inserting(ChunksOf[d]) = {}
  /\ docs' = [docs EXCEPT ![d] = "deleted"]
  /\ embedded' = embedded \ ChunksOf[d]
  /\ UNCHANGED <<run, faults>>

Init ==
  /\ docs = [d \in Documents |-> "absent"]
  /\ embedded = {} /\ run = [i \in Runs |-> Idle] /\ faults = 0

Advance(i) == Schedule(i) \/ Select(i) \/ Embed(i) \/ Insert(i) \/ Commit(i)

Next ==
  \/ \E t \in Tasks, d \in Documents : Store(t, d)
  \/ \E r \in Requests, d \in Documents : Start(r, {d})
  \/ \E s \in Suites : Start(s, Documents)
  \/ \E i \in Runs : Advance(i) \/ Break(i)
  \/ \E d \in Documents : StoreOnly(d) \/ Delete(d)
  \/ Crash

Spec == Init /\ [][Next]_vars

\* Uploads come to their end, embeddings are awaited no longer than the timeout
\* of the client, and a transaction waits only for others that are in progress.
Fairness == \A i \in Runs : WF_vars(Advance(i))
FairSpec == Spec /\ Fairness

------------------------------------------------------------------------------
TypeOK ==
  /\ docs \in [Documents -> {"absent", "parsed", "deleted"}]
  /\ embedded \subseteq Chunks(Parsed)
  /\ \A i \in Runs :
       /\ run[i].step \in {"idle", "storing", "select", "embed", "insert", "commit"}
       /\ \A k \in DOMAIN run[i].queue : run[i].queue[k] \subseteq Documents
       /\ run[i].selected \subseteq
            IF run[i].queue = <<>> THEN {} ELSE Chunks(Head(run[i].queue))
  /\ faults \in 0..MaxFaults

\* However many runs index the same chunks, and whichever fail, a document that
\* dense retrieval finds is found with all its chunks.
AllOrNothing ==
  \A d \in Documents : ChunksOf[d] \subseteq embedded \/ ChunksOf[d] \cap embedded = {}

\* Of two runs that select the same chunks the second fails.  If it was to index
\* one document, that is indexed then, or deleted: nothing is left for a retry.
ConflictsAreCovered ==
  [][\A i \in Runs : \A d \in Documents :
       /\ run[i].step = "insert" /\ Head(run[i].queue) = {d}
       /\ Insert(i) /\ run'[i].step # "commit"
       => docs[d] = "deleted" \/ ChunksOf[d] \subseteq embedded]_vars

\* A document whose indexing was scheduled is indexed, unless it is deleted or
\* something breaks: neither conflicts with other runs nor the deletion of other
\* documents of the upload stop the task.
ScheduledIsIndexed ==
  \A t \in Tasks : \A d \in Documents :
    (run[t].step = "select" /\ \E k \in DOMAIN run[t].queue : run[t].queue[k] = {d})
      ~> (ChunksOf[d] \subseteq embedded \/ docs[d] = "deleted" \/ faults > 0)

===============================================================================
