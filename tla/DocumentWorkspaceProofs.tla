------------------------ MODULE DocumentWorkspaceProofs ------------------------
(***************************************************************************)
(* For any number of requests, documents, cases and scopes: no content is  *)
(* stored twice, and only a failure leaves a parsed document without its   *)
(* event or its file.                                                      *)
(*                                                                         *)
(* The unique index sees the key of a row, the property speaks of its      *)
(* scope.  The two agree on every row but the old ones, which no insertion *)
(* adds to; so what an upload learnt about the old rows of its scope, long *)
(* before it inserts, stays true, and what it learnt about the others the  *)
(* index checks again.  For the second property the proof follows the      *)
(* document a request works on: an upload that finds an old row never      *)
(* becomes one that owes an event, and a deletion unlinks only files of    *)
(* rows that are gone.                                                     *)
(***************************************************************************)
EXTENDS DocumentWorkspace, SequenceTheorems, WellFoundedInduction, TLAPS

Old == DOMAIN OldRows
Gone(d) == docs[d].status = "deleted"

\* Keys follow scopes, but for old rows, which keep their scope.
KeysFollowScopes ==
  /\ \A d \in Documents : Exists(d) =>
       \/ docs[d].key = docs[d].scope
       \/ docs[d].key = OldKey /\ d \in Old
  /\ \A d \in Old : docs[d].status # "absent" /\ (Exists(d) => docs[d].scope = OldRows[d])

\* An upload that is about to insert knows that no old row is in its way,
\* one that inserts a case has a case.
BeforeInsert(q) ==
  LET r == req[q]
  IN  /\ r.pc = "insert_case" => CaseOf(q) # NoCase
      /\ r.pc \in {"duplicate", "old_duplicate", "upgrade", "create_case", "present"} =>
           r.after = "duplicate"
      /\ r.pc = "insert" => r.after = "insert"
      /\ r.pc \in {"ensure", "insert_case", "insert"} /\ r.after = "insert" =>
           /\ Parsing[Scope(q)] # "unsupported"
           /\ \A d \in Documents :
                Exists(d) /\ docs[d].scope = Scope(q) => docs[d].key # OldKey

\* The document that an upload works on is an old row, or the one it inserted.
ItsDocument(q) ==
  LET r == req[q]
  IN  /\ r.pc = "upgrade" => (Exists(r.doc) => docs[r.doc].scope = Scope(q))
      /\ r.pc \in {"upgrade", "refresh"} /\ r.after = "duplicate" => r.doc \in Old
      /\ r.pc \in Ingesting \cup {"upgrade"} => docs[r.doc].status # "absent"
      /\ r.pc = "write" => r.doc \in recorded

\* A deletion unlinks the files of rows that are gone, or are about to be.
ItsFiles(q) ==
  \A d \in req[q].gone :
    /\ req[q].pc = "unlink" => Gone(d)
    /\ req[q].pc = "delete_case" =>
         Gone(d) \/ (Exists(d) /\ ScopeCase[docs[d].scope] = req[q].case)

IInv ==
  /\ TypeOK
  /\ KeysFollowScopes
  /\ OneDocumentPerScope
  /\ \A q \in Requests : BeforeInsert(q) /\ ItsDocument(q) /\ ItsFiles(q)
  /\ IngestionIsComplete

------------------------------------------------------------------------------
(***************************************************************************)
(* The first of the files that are left.                                   *)
(***************************************************************************)
LEMMA MinOfNumbers ==
  ASSUME NEW S, S \subseteq Nat, S # {}
  PROVE  Min(S) \in S
<1> DEFINE lt == {p \in Nat \X Nat : p[1] < p[2]}
<1>1. IsWellFoundedOn(lt, Nat)
  BY NatLessThanWellFounded DEF OpToRel
<1> HIDE DEF lt
<1>2. PICK x \in S : \A y \in S : ~(<<y, x>> \in lt)
  BY <1>1, WFMin
<1>3. ASSUME NEW y \in S PROVE x <= y
  <2>1. x \in Nat /\ y \in Nat /\ <<y, x>> \notin lt
    BY <1>2
  <2>2. ~(y < x)
    BY <2>1 DEF lt
  <2> QED
    BY <2>1, <2>2
<1> QED
  BY <1>3 DEF Min

Sensible(r) ==
  /\ r \in Request
  /\ r.todo \subseteq DOMAIN r.items
  /\ r.pc \in Uploading => r.todo # {}
  /\ r.pc \in Ingesting \cup {"upgrade"} => r.doc \in Documents

LEMMA Facts ==
  ASSUME IInv, NEW q \in Requests
  PROVE  /\ Sensible(req[q]) /\ req \in [Requests -> Request]
         /\ BeforeInsert(q) /\ ItsDocument(q) /\ ItsFiles(q)
         /\ req[q].pc \in Uploading => Min(req[q].todo) \in req[q].todo /\ Scope(q) \in Scopes
<1>1. Sensible(req[q]) /\ req \in [Requests -> Request] /\ BeforeInsert(q) /\ ItsDocument(q) /\ ItsFiles(q)
  BY DEF IInv, TypeOK, Sensible
<1>2. ASSUME req[q].pc \in Uploading
      PROVE  Min(req[q].todo) \in req[q].todo /\ Scope(q) \in Scopes
  <2>1. req[q].todo \subseteq Nat /\ req[q].todo # {} /\ req[q].items \in Seq(Scopes)
        /\ req[q].todo \subseteq DOMAIN req[q].items
    BY <1>1, <1>2 DEF Sensible, Request
  <2>2. Min(req[q].todo) \in req[q].todo
    BY <2>1, MinOfNumbers
  <2> QED
    BY <2>1, <2>2 DEF Scope
<1> QED
  BY <1>1, <1>2

------------------------------------------------------------------------------
(***************************************************************************)
(* A step of one request: what the others know stays true while rows only  *)
(* come into being, get their scoped key, and go.                          *)
(***************************************************************************)
Changes(q, r) == req' = [req EXCEPT ![q] = r] /\ req'[q] = r

RowsEvolve ==
  /\ docs' \in [Documents -> Row]
  /\ \A d \in Documents :
       /\ docs[d].status # "absent" => docs'[d].status # "absent"
       /\ Gone(d) => Gone(d)'
       /\ Exists(d) => Exists(d)' \/ Gone(d)'
       /\ Exists(d)' /\ docs[d].status # "absent" =>
            Exists(d) /\ docs'[d].scope = docs[d].scope
       /\ Exists(d)' /\ docs'[d].key = OldKey =>
            Exists(d) /\ docs[d].key = OldKey /\ docs'[d].scope = docs[d].scope

\* Every parsed document whose ingestion q might have been in charge of is accounted for.
Accounted(q, r) ==
  \A d \in Documents \ Old : docs'[d].status = "parsed" =>
    \/ /\ docs[d].status = "parsed" /\ (d \in files => d \in files')
       /\ ~(req[q].pc \in Ingesting /\ req[q].doc = d)
    \/ r.pc \in Ingesting /\ r.doc = d
    \/ d \in recorded' /\ d \in files'
    \/ faults' > 0

LEMMA RequestStep ==
  ASSUME IInv, NEW q \in Requests, NEW r, Sensible(r), Changes(q, r),
         RowsEvolve, KeysFollowScopes', OneDocumentPerScope',
         cases' \subseteq Cases, files' \subseteq Documents,
         recorded \subseteq recorded', recorded' \subseteq Documents,
         deletions' \in 0..MaxDeletions, faults' \in 0..MaxFaults, faults <= faults',
         BeforeInsert(q)', ItsDocument(q)', ItsFiles(q)', Accounted(q, r)
  PROVE  IInv'
<1>1. TypeOK'
  BY DEF IInv, TypeOK, Sensible, Changes, RowsEvolve
<1>2. ASSUME NEW t \in Requests \ {q} PROVE BeforeInsert(t)' /\ ItsDocument(t)' /\ ItsFiles(t)'
  <2>1. req'[t] = req[t] /\ req[t] \in Request /\ Scope(t)' = Scope(t)
    BY Facts DEF Changes, Scope
  <2>2. Sensible(req[t]) /\ BeforeInsert(t) /\ ItsDocument(t) /\ ItsFiles(t)
    BY Facts
  <2>3. BeforeInsert(t)'
    BY <2>1, <2>2 DEF BeforeInsert, CaseOf, RowsEvolve
  <2>4. ItsDocument(t)'
    <3>1. req[t].pc \in Ingesting \cup {"upgrade"} => req[t].doc \in Documents
      BY <2>2 DEF Sensible
    <3> QED
      BY <2>1, <2>2, <3>1 DEF ItsDocument, RowsEvolve
  <2>5. ItsFiles(t)'
    <3>1. req[t].gone \subseteq Documents
      BY <2>1 DEF Request
    <3>2. \A d \in Documents : Exists(d) => docs[d].status # "absent"
      BY DEF Exists
    <3> QED
      BY <2>1, <2>2, <3>1, <3>2 DEF ItsFiles, RowsEvolve
  <2> QED
    BY <2>3, <2>4, <2>5
<1>3. IngestionIsComplete'
  <2> SUFFICES ASSUME NEW d \in Documents \ Old, docs'[d].status = "parsed"
               PROVE  \/ d \in recorded' /\ d \in files'
                      \/ \E t \in Requests : req'[t].pc \in Ingesting /\ req'[t].doc = d
                      \/ faults' > 0
    BY DEF IngestionIsComplete, Old
  <2>1. CASE r.pc \in Ingesting /\ r.doc = d
    BY <2>1 DEF Changes
  <2>2. CASE /\ docs[d].status = "parsed" /\ (d \in files => d \in files')
             /\ ~(req[q].pc \in Ingesting /\ req[q].doc = d)
    <3>1. \/ d \in recorded /\ d \in files
          \/ \E t \in Requests : req[t].pc \in Ingesting /\ req[t].doc = d
          \/ faults > 0
      BY <2>2 DEF IInv, IngestionIsComplete, Old
    <3>2. ASSUME NEW t \in Requests, req[t].pc \in Ingesting, req[t].doc = d
          PROVE  req'[t].pc \in Ingesting /\ req'[t].doc = d
      BY <2>2, <3>2, Facts DEF Changes
    <3>3. faults > 0 => faults' > 0
      BY BoundsAssumption DEF IInv, TypeOK
    <3> QED
      BY <2>2, <3>1, <3>2, <3>3
  <2> QED
    BY <2>1, <2>2 DEF Accounted
<1> QED
  BY <1>1, <1>2, <1>3 DEF IInv

\* A step that leaves the rows alone.
LEMMA SameRows ==
  ASSUME IInv, UNCHANGED docs
  PROVE  RowsEvolve /\ KeysFollowScopes' /\ OneDocumentPerScope'
<1>1. docs \in [Documents -> Row]
  BY DEF IInv, TypeOK
<1>2. RowsEvolve
  BY <1>1 DEF RowsEvolve, Gone, Exists
<1> QED
  BY <1>2 DEF IInv, KeysFollowScopes, OneDocumentPerScope, Exists

------------------------------------------------------------------------------
(***************************************************************************)
(* How requests go on.                                                     *)
(***************************************************************************)
LEMMA Idling == Sensible(IdleRequest) /\ IdleRequest.pc = "idle" /\ IdleRequest.todo = {}
          /\ IdleRequest.after = "duplicate"
BY DEF Sensible, IdleRequest, Request, Steps, Uploading, Ingesting

\* A request with nothing behind it yet owes nothing.
LEMMA Free ==
  ASSUME NEW q \in Requests, NEW r, Changes(q, r),
         \/ r.pc \in {"idle", "delete", "list"}
         \/ r.pc \in {"create_case", "present", "ensure"} /\ r.after = "duplicate"
  PROVE  BeforeInsert(q)' /\ ItsDocument(q)' /\ ItsFiles(q)'
BY DEF Changes, BeforeInsert, ItsDocument, ItsFiles, Uploading, Ingesting

LEMMA Becoming ==
  ASSUME IInv, NEW q \in Requests, NEW r, Become(q, r)
  PROVE  Changes(q, r)
BY DEF IInv, TypeOK, Become, Changes

Fields(q, r) ==
  /\ r.items = req[q].items /\ r.todo = req[q].todo /\ r.doc = req[q].doc
  /\ r.after = req[q].after /\ r.case = req[q].case /\ r.gone = req[q].gone

LEMMA Going ==
  ASSUME IInv, NEW q \in Requests, NEW pc \in Steps, GoTo(q, pc)
  PROVE  \E r \in Request : Changes(q, r) /\ r.pc = pc /\ Fields(q, r)
<1> DEFINE r == [req[q] EXCEPT !.pc = pc]
<1>1. req[q] \in Request
  BY Facts DEF Sensible
<1>2. r \in Request /\ r.pc = pc /\ Fields(q, r)
  BY <1>1 DEF Request, Fields
<1>3. Become(q, r)
  BY DEF GoTo
<1> HIDE DEF r
<1> QED
  BY <1>2, <1>3, Becoming

LEMMA Nexting ==
  ASSUME IInv, NEW q \in Requests, req[q].pc \in Uploading, NextFile(q)
  PROVE  \E r : /\ Changes(q, r) /\ Sensible(r)
                /\ r.pc = "idle" \/ (r.pc = "ensure" /\ r.after = "duplicate")
<1> DEFINE rest == req[q].todo \ {Min(req[q].todo)}
           r == [req[q] EXCEPT !.pc = "ensure", !.todo = rest, !.doc = NoDocument,
                               !.after = "duplicate"]
<1>1. CASE rest # {}
  <2>1. Become(q, r)
    BY <1>1 DEF NextFile
  <2>2. Sensible(req[q])
    BY Facts
  <2> HIDE DEF rest
  <2>3. rest \subseteq req[q].todo
    BY DEF rest
  <2>4. r \in Request /\ r.pc = "ensure" /\ r.after = "duplicate" /\ r.todo = rest
        /\ r.items = req[q].items
    BY <2>2, <2>3 DEF Sensible, Request, Steps
  <2>5. Sensible(r)
    BY <1>1, <2>2, <2>3, <2>4 DEF Sensible, Ingesting
  <2> HIDE DEF r
  <2> QED
    BY <2>1, <2>4, <2>5, Becoming
<1>2. CASE rest = {}
  BY <1>2, Idling, Becoming DEF NextFile, End
<1> QED
  BY <1>1, <1>2

LEMMA Refusing ==
  ASSUME IInv, NEW q \in Requests, req[q].pc \in Uploading, Refuse(q)
  PROVE  \E r : /\ Changes(q, r) /\ Sensible(r)
                /\ r.pc = "idle" \/ (r.pc = "ensure" /\ r.after = "duplicate")
BY Nexting, Idling, Becoming DEF Refuse, End

\* No file is lost, and the request was in charge of no document.
LEMMA NothingLost ==
  ASSUME IInv, NEW q \in Requests, NEW r, UNCHANGED docs, files \subseteq files',
         req[q].pc \notin Ingesting \/ req[q].doc \in Old \/ ~Exists(req[q].doc)
           \/ docs[req[q].doc].status = "failed"
  PROVE  Accounted(q, r)
BY DEF Accounted, Exists

\* A step after which a request is idle, or at its next file.
LEMMA MovesOn ==
  ASSUME IInv, NEW q \in Requests, NEW r, Changes(q, r), Sensible(r),
         \/ r.pc \in {"idle", "delete", "list"}
         \/ r.pc \in {"create_case", "present", "ensure"} /\ r.after = "duplicate",
         UNCHANGED <<docs, recorded, files>>, cases' \subseteq Cases,
         deletions' \in 0..MaxDeletions, faults' \in 0..MaxFaults, faults <= faults',
         Accounted(q, r)
  PROVE  IInv'
BY RequestStep, SameRows, Free DEF IInv, TypeOK

------------------------------------------------------------------------------
(***************************************************************************)
(* Requests arrive.                                                        *)
(***************************************************************************)
LEMMA Bounds ==
  ASSUME IInv
  PROVE  /\ deletions \in 0..MaxDeletions /\ faults \in 0..MaxFaults /\ faults <= faults
         /\ cases \subseteq Cases /\ recorded \subseteq Documents /\ files \subseteq Documents
         /\ docs \in [Documents -> Row]
BY BoundsAssumption DEF IInv, TypeOK

LEMMA StartUploadKeeps ==
  ASSUME IInv, NEW q \in Requests, NEW items \in Uploads, StartUpload(q, items)
  PROVE  IInv'
<1> DEFINE r == [IdleRequest EXCEPT !.pc = "ensure", !.items = items, !.todo = DOMAIN items]
<1>1. /\ req[q].pc = "idle" /\ Become(q, r)
      /\ UNCHANGED <<cases, docs, recorded, files, deletions, faults>>
  BY DEF StartUpload
<1>2. items \in Seq(Scopes) /\ DOMAIN items # {} /\ DOMAIN items \subseteq Nat
  BY UploadsAssumption, EmptySeq
<1>3. r.pc = "ensure" /\ r.after = "duplicate" /\ r.items = items /\ r.todo = DOMAIN items
      /\ r \in Request
  BY <1>2 DEF IdleRequest, Request, Steps
<1> HIDE DEF r
<1>4. Sensible(r)
  BY <1>2, <1>3 DEF Sensible, Ingesting
<1>5. Accounted(q, r)
  BY <1>1, NothingLost DEF Ingesting
<1> QED
  BY <1>1, <1>3, <1>4, <1>5, Becoming, Bounds, MovesOn

\* A request with no file to upload, and none to unlink yet.
LEMMA OtherStart ==
  ASSUME IInv, NEW q \in Requests, NEW r \in Request, Become(q, r), r.todo = {},
         req[q].pc \notin Ingesting, r.after = "duplicate",
         r.pc \in {"idle", "delete", "list", "create_case", "present"},
         UNCHANGED <<docs, recorded, files, faults>>, cases' \subseteq Cases,
         deletions' \in 0..MaxDeletions
  PROVE  IInv'
<1>1. Sensible(r)
  BY DEF Sensible, Uploading, Ingesting
<1>2. Accounted(q, r)
  BY NothingLost
<1> QED
  BY <1>1, <1>2, Becoming, Bounds, MovesOn

LEMMA StartDemoKeeps ==
  ASSUME IInv, NEW q \in Requests, StartDemo(q)
  PROVE  IInv'
<1> DEFINE r == [IdleRequest EXCEPT !.demo = TRUE,
                    !.pc = IF DemoCase \in cases THEN "present" ELSE "create_case"]
<1>1. /\ req[q].pc = "idle" /\ Become(q, r)
      /\ UNCHANGED <<cases, docs, recorded, files, deletions, faults>>
  BY DEF StartDemo
<1>2. r \in Request /\ r.pc \in {"present", "create_case"} /\ r.todo = {} /\ r.after = "duplicate"
  BY Idling DEF Sensible, Request, Steps
<1> HIDE DEF r
<1> QED
  BY <1>1, <1>2, Bounds, OtherStart DEF Ingesting

LEMMA DeleteRequestedKeeps ==
  ASSUME IInv, NEW q \in Requests, NEW d \in Documents, DeleteRequested(q, d)
  PROVE  IInv'
<1> DEFINE r == [IdleRequest EXCEPT !.pc = "delete", !.gone = {d}]
<1>1. /\ req[q].pc = "idle" /\ deletions < MaxDeletions /\ deletions' = deletions + 1
      /\ Become(q, r) /\ UNCHANGED <<cases, docs, recorded, files, faults>>
  BY DEF DeleteRequested, StartDeletion
<1>2. r \in Request /\ r.pc = "delete" /\ r.todo = {} /\ r.after = "duplicate"
  BY Idling DEF Sensible, Request, Steps
<1>3. deletions' \in 0..MaxDeletions
  BY <1>1, Bounds, BoundsAssumption
<1> HIDE DEF r
<1> QED
  BY <1>1, <1>2, <1>3, Bounds, OtherStart DEF Ingesting

LEMMA DeleteCaseRequestedKeeps ==
  ASSUME IInv, NEW q \in Requests, NEW c \in Cases, DeleteCaseRequested(q, c)
  PROVE  IInv'
<1> DEFINE r == [IdleRequest EXCEPT !.pc = "list", !.case = c]
<1>1. /\ req[q].pc = "idle" /\ deletions < MaxDeletions /\ deletions' = deletions + 1
      /\ Become(q, r) /\ UNCHANGED <<cases, docs, recorded, files, faults>>
  BY DEF DeleteCaseRequested, StartDeletion
<1>2. r \in Request /\ r.pc = "list" /\ r.todo = {} /\ r.after = "duplicate"
  BY Idling DEF Sensible, Request, Steps
<1>3. deletions' \in 0..MaxDeletions
  BY <1>1, Bounds, BoundsAssumption
<1> HIDE DEF r
<1> QED
  BY <1>1, <1>2, <1>3, Bounds, OtherStart DEF Ingesting

------------------------------------------------------------------------------
(***************************************************************************)
(* The steps of an upload before it has a document.                        *)
(***************************************************************************)
LEMMA EnsureCaseKeeps ==
  ASSUME IInv, NEW q \in Requests, EnsureCase(q)
  PROVE  IInv'
<1>1. /\ req[q].pc = "ensure" /\ UNCHANGED <<cases, docs, recorded, files, deletions, faults>>
      /\ Sensible(req[q]) /\ BeforeInsert(q) /\ req[q].after \in {"duplicate", "insert"}
  BY Facts DEF EnsureCase, Sensible, Request
<1>2. PICK pc \in {req[q].after, "insert_case"} :
             GoTo(q, pc) /\ (pc = "insert_case" => CaseOf(q) # NoCase)
  BY <1>1 DEF EnsureCase
<1>3. PICK r \in Request : Changes(q, r) /\ r.pc = pc /\ Fields(q, r)
  BY <1>1, <1>2, Going DEF Steps
<1>4. Sensible(r)
  BY <1>1, <1>2, <1>3 DEF Sensible, Fields, Uploading, Ingesting
<1>5. Scope(q)' = Scope(q) /\ CaseOf(q)' = CaseOf(q)
  BY <1>3 DEF Changes, Fields, Scope, CaseOf
<1>6. BeforeInsert(q)' /\ ItsDocument(q)' /\ ItsFiles(q)'
  BY <1>1, <1>2, <1>3, <1>5
     DEF BeforeInsert, ItsDocument, ItsFiles, Changes, Fields, Ingesting, Exists
<1>7. Accounted(q, r)
  BY <1>1, NothingLost DEF Ingesting
<1> QED
  BY <1>1, <1>3, <1>4, <1>6, <1>7, Bounds, SameRows, RequestStep

LEMMA InsertLegacyCaseKeeps ==
  ASSUME IInv, NEW q \in Requests, InsertLegacyCase(q)
  PROVE  IInv'
<1>1. /\ req[q].pc = "insert_case" /\ UNCHANGED <<docs, recorded, files, deletions, faults>>
      /\ Sensible(req[q]) /\ BeforeInsert(q) /\ req[q].after \in {"duplicate", "insert"}
  BY Facts DEF InsertLegacyCase, Sensible, Request
<1>2. \A r : Accounted(q, r)
  BY <1>1, NothingLost DEF Ingesting
<1>3. CASE CaseOf(q) \in cases
  <2>1. Changes(q, IdleRequest) /\ UNCHANGED cases
    BY <1>3, Becoming DEF InsertLegacyCase, End
  <2> QED
    BY <1>1, <1>2, <2>1, Idling, Bounds, MovesOn
<1>4. CASE CaseOf(q) \notin cases
  <2>1. cases' = cases \cup {CaseOf(q)} /\ GoTo(q, req[q].after)
    BY <1>4 DEF InsertLegacyCase
  <2>2. PICK r \in Request : Changes(q, r) /\ r.pc = req[q].after /\ Fields(q, r)
    BY <1>1, <2>1, Going DEF Steps
  <2>3. Sensible(r)
    BY <1>1, <2>2 DEF Sensible, Fields, Uploading, Ingesting
  <2>4. Scope(q)' = Scope(q)
    BY <2>2 DEF Changes, Fields, Scope
  <2>5. BeforeInsert(q)' /\ ItsDocument(q)' /\ ItsFiles(q)'
    BY <1>1, <2>2, <2>4
       DEF BeforeInsert, ItsDocument, ItsFiles, Changes, Fields, Ingesting, Exists
  <2>6. cases' \subseteq Cases
    <3>1. CaseOf(q) \in Cases
      BY <1>1, Facts, ScopeAssumption DEF BeforeInsert, CaseOf, Uploading
    <3> QED
      BY <2>1, <3>1, Bounds
  <2> QED
    BY <1>1, <1>2, <2>2, <2>3, <2>5, <2>6, Bounds, SameRows, RequestStep
<1> QED
  BY <1>3, <1>4

LEMMA FindDuplicateKeeps ==
  ASSUME IInv, NEW q \in Requests, FindDuplicate(q)
  PROVE  IInv'
<1>1. /\ req[q].pc = "duplicate" /\ UNCHANGED <<cases, docs, recorded, files, deletions, faults>>
      /\ Sensible(req[q]) /\ BeforeInsert(q)
  BY Facts DEF FindDuplicate
<1>2. \A r : Accounted(q, r)
  BY <1>1, NothingLost DEF Ingesting
<1>3. CASE NextFile(q)
  <2>1. PICK r : /\ Changes(q, r) /\ Sensible(r)
                 /\ r.pc = "idle" \/ (r.pc = "ensure" /\ r.after = "duplicate")
    BY <1>1, <1>3, Nexting DEF Uploading
  <2> QED
    BY <1>1, <1>2, <2>1, Bounds, MovesOn
<1>4. CASE GoTo(q, "old_duplicate")
  <2>1. PICK r \in Request : Changes(q, r) /\ r.pc = "old_duplicate" /\ Fields(q, r)
    BY <1>4, Going DEF Steps
  <2>2. Sensible(r)
    BY <1>1, <2>1 DEF Sensible, Fields, Uploading, Ingesting
  <2>3. BeforeInsert(q)' /\ ItsDocument(q)' /\ ItsFiles(q)'
    BY <1>1, <2>1 DEF BeforeInsert, ItsDocument, ItsFiles, Changes, Fields, Ingesting
  <2> QED
    BY <1>1, <1>2, <2>1, <2>2, <2>3, Bounds, SameRows, RequestStep
<1> QED
  BY <1>3, <1>4 DEF FindDuplicate

LEMMA FindOldDuplicateKeeps ==
  ASSUME IInv, NEW q \in Requests, FindOldDuplicate(q)
  PROVE  IInv'
<1>1. /\ req[q].pc = "old_duplicate"
      /\ UNCHANGED <<cases, docs, recorded, files, deletions, faults>>
      /\ Sensible(req[q]) /\ req[q].after = "duplicate"
  BY Facts DEF FindOldDuplicate, BeforeInsert
<1>2. \A r : Accounted(q, r)
  BY <1>1, NothingLost DEF Ingesting
<1>3. CASE NextFile(q) \/ Refuse(q)
  <2>1. PICK r : /\ Changes(q, r) /\ Sensible(r)
                 /\ r.pc = "idle" \/ (r.pc = "ensure" /\ r.after = "duplicate")
    BY <1>1, <1>3, Nexting, Refusing DEF Uploading
  <2> QED
    BY <1>1, <1>2, <2>1, Bounds, MovesOn
<1>4. ASSUME NEW d \in OfScope(Scope(q)), docs[d].key # Scope(q),
             Become(q, [req[q] EXCEPT !.pc = "upgrade", !.doc = d])
      PROVE  IInv'
  <2> DEFINE r == [req[q] EXCEPT !.pc = "upgrade", !.doc = d]
  <2>1. d \in Documents /\ Exists(d) /\ docs[d].scope = Scope(q)
    BY DEF OfScope
  <2>2. d \in Old /\ docs[d].status # "absent"
    BY <1>4, <2>1 DEF IInv, KeysFollowScopes, Exists
  <2>3. r \in Request /\ r.pc = "upgrade" /\ r.doc = d /\ r.todo = req[q].todo
        /\ r.items = req[q].items /\ r.after = "duplicate"
    BY <1>1, <2>1 DEF Sensible, Request, Steps
  <2>4. Changes(q, r)
    BY <1>4, Becoming
  <2> HIDE DEF r
  <2>5. Sensible(r)
    BY <1>1, <2>1, <2>3 DEF Sensible, Uploading
  <2>6. Scope(q)' = Scope(q)
    BY <2>3, <2>4 DEF Changes, Scope
  <2>7. BeforeInsert(q)' /\ ItsDocument(q)' /\ ItsFiles(q)'
    BY <1>1, <2>1, <2>2, <2>3, <2>4, <2>6 DEF BeforeInsert, ItsDocument, ItsFiles, Changes, Ingesting
  <2> QED
    BY <1>1, <1>2, <2>4, <2>5, <2>7, Bounds, SameRows, RequestStep
<1>5. ASSUME OfScope(Scope(q)) = {}, Parsing[Scope(q)] # "unsupported",
             Become(q, [req[q] EXCEPT !.pc = "ensure", !.after = "insert"])
      PROVE  IInv'
  <2> DEFINE r == [req[q] EXCEPT !.pc = "ensure", !.after = "insert"]
  <2>1. r \in Request /\ r.pc = "ensure" /\ r.todo = req[q].todo
        /\ r.items = req[q].items /\ r.after = "insert"
    BY <1>1 DEF Sensible, Request, Steps
  <2>2. Changes(q, r)
    BY <1>5, Becoming
  <2> HIDE DEF r
  <2>3. Sensible(r)
    BY <1>1, <2>1 DEF Sensible, Uploading, Ingesting
  <2>4. Scope(q)' = Scope(q)
    BY <2>1, <2>2 DEF Changes, Scope
  <2>5. \A d \in Documents : Exists(d)' => docs'[d].scope # Scope(q)
    BY <1>1, <1>5 DEF OfScope, Exists
  <2>6. BeforeInsert(q)' /\ ItsDocument(q)' /\ ItsFiles(q)'
    BY <1>5, <2>1, <2>2, <2>4, <2>5 DEF BeforeInsert, ItsDocument, ItsFiles, Changes, Ingesting
  <2> QED
    BY <1>1, <1>2, <2>2, <2>3, <2>6, Bounds, SameRows, RequestStep
<1> QED
  BY <1>3, <1>4, <1>5 DEF FindOldDuplicate

------------------------------------------------------------------------------
(***************************************************************************)
(* The steps that write rows.                                              *)
(***************************************************************************)
LEMMA UpgradeKeyKeeps ==
  ASSUME IInv, NEW q \in Requests, UpgradeKey(q)
  PROVE  IInv'
<1>1. PICK d : d = req[q].doc
  OBVIOUS
<1>2. /\ req[q].pc = "upgrade" /\ UNCHANGED <<cases, recorded, files, deletions, faults>>
      /\ Sensible(req[q]) /\ req[q].after = "duplicate" /\ d \in Documents /\ d \in Old
      /\ docs[d].status # "absent" /\ (Exists(d) => docs[d].scope = Scope(q))
      /\ Scope(q) \in Scopes
  BY <1>1, Facts DEF UpgradeKey, BeforeInsert, ItsDocument, Sensible, Uploading
<1>3. CASE ~Exists(d)
  <2>1. Changes(q, IdleRequest) /\ UNCHANGED docs
    BY <1>1, <1>3, Becoming DEF UpgradeKey, End
  <2>2. Accounted(q, IdleRequest)
    BY <1>2, <2>1, NothingLost DEF Ingesting
  <2> QED
    BY <1>2, <2>1, <2>2, Idling, Bounds, MovesOn
<1>4. CASE Exists(d)
  <2>1. docs' = [docs EXCEPT ![d].key = Scope(q)] /\ GoTo(q, "refresh")
    BY <1>1, <1>4 DEF UpgradeKey
  <2>2. PICK r \in Request : Changes(q, r) /\ r.pc = "refresh" /\ Fields(q, r)
    BY <2>1, Going DEF Steps, Ingesting
  <2>3. Sensible(r)
    BY <1>2, <2>2 DEF Sensible, Fields, Uploading, Ingesting
  <2>4. /\ docs \in [Documents -> Row] /\ docs[d] \in Row
        /\ \A e \in Documents \ {d} : docs'[e] = docs[e]
        /\ docs'[d].status = docs[d].status /\ docs'[d].scope = docs[d].scope
        /\ docs'[d].key = Scope(q) /\ docs' \in [Documents -> Row]
    BY <1>2, <2>1, Bounds DEF Row
  <2>5. RowsEvolve
    BY <1>2, <2>4, SentinelAssumption DEF RowsEvolve, Exists, Gone
  <2>6. KeysFollowScopes' /\ OneDocumentPerScope'
    <3>1. KeysFollowScopes'
      BY <1>2, <2>4, OldRowsAssumption DEF IInv, KeysFollowScopes, Exists, Old
    <3>2. OneDocumentPerScope'
      BY <2>4 DEF IInv, OneDocumentPerScope, Exists
    <3> QED
      BY <3>1, <3>2
  <2>7. BeforeInsert(q)' /\ ItsDocument(q)' /\ ItsFiles(q)'
    BY <1>1, <1>2, <2>2, <2>4 DEF BeforeInsert, ItsDocument, ItsFiles, Changes, Fields, Ingesting
  <2>8. Accounted(q, r)
    BY <1>2, <2>4 DEF Accounted, Ingesting
  <2> QED
    BY <1>2, <2>2, <2>3, <2>5, <2>6, <2>7, <2>8, Bounds, RequestStep
<1> QED
  BY <1>3, <1>4

LEMMA InsertDocumentKeeps ==
  ASSUME IInv, NEW q \in Requests, InsertDocument(q)
  PROVE  IInv'
<1>1. PICK d, s : d = NewId /\ s = Scope(q)
  OBVIOUS
<1>2. /\ req[q].pc = "insert" /\ UNCHANGED <<cases, recorded, files, deletions, faults>>
      /\ Sensible(req[q]) /\ req[q].after = "insert" /\ s \in Scopes
      /\ Parsing[s] \in {"parsed", "failed"}
      /\ \A e \in Documents : Exists(e) /\ docs[e].scope = s => docs[e].key # OldKey
  BY <1>1, Facts, ScopeAssumption DEF InsertDocument, BeforeInsert, Uploading
<1>3. d \in Documents /\ docs[d].status = "absent"
  BY <1>1 DEF InsertDocument, NewId, Fresh
<1>4. CASE ~(WithKey(s) = {} /\ CaseOf(q) \in cases \cup {NoCase})
  <2>1. Changes(q, IdleRequest) /\ UNCHANGED docs
    BY <1>1, <1>4, Becoming DEF InsertDocument, End
  <2>2. Accounted(q, IdleRequest)
    BY <1>2, <2>1, NothingLost DEF Ingesting
  <2> QED
    BY <1>2, <2>1, <2>2, Idling, Bounds, MovesOn
<1>5. CASE WithKey(s) = {} /\ CaseOf(q) \in cases \cup {NoCase}
  <2> DEFINE r == [req[q] EXCEPT !.pc = "refresh", !.doc = d]
  <2>1. /\ docs' = [docs EXCEPT ![d] = [status |-> Parsing[s], scope |-> s, key |-> s]]
        /\ Become(q, r)
    BY <1>1, <1>5 DEF InsertDocument
  <2>2. r \in Request /\ r.pc = "refresh" /\ r.todo = req[q].todo /\ r.items = req[q].items
        /\ r.after = "insert" /\ r.doc = d
    BY <1>2, <1>3 DEF Sensible, Request, Steps, Ingesting
  <2> HIDE DEF r
  <2>3. Sensible(r) /\ Changes(q, r)
    BY <1>2, <1>3, <2>1, <2>2, Becoming DEF Sensible, Uploading
  <2>4. /\ \A e \in Documents \ {d} : docs'[e] = docs[e]
        /\ docs'[d].status = Parsing[s] /\ docs'[d].scope = s /\ docs'[d].key = s
        /\ docs' \in [Documents -> Row]
    BY <1>2, <1>3, <2>1, Bounds DEF Row
  <2>5. RowsEvolve
    BY <1>2, <1>3, <2>4, SentinelAssumption DEF RowsEvolve, Exists, Gone
  <2>6. \A e \in Documents : Exists(e) => docs[e].scope # s
    BY <1>2, <1>5 DEF WithKey, IInv, KeysFollowScopes
  <2>7. d \notin Old
    BY <1>3 DEF IInv, KeysFollowScopes
  <2>8. KeysFollowScopes'
    BY <2>4, <2>7, OldRowsAssumption DEF IInv, KeysFollowScopes, Exists, Old
  <2>9. OneDocumentPerScope'
    BY <2>4, <2>6 DEF IInv, OneDocumentPerScope, Exists
  <2>10. BeforeInsert(q)' /\ ItsDocument(q)' /\ ItsFiles(q)'
    BY <1>2, <2>2, <2>3, <2>4 DEF BeforeInsert, ItsDocument, ItsFiles, Changes, Ingesting
  <2>11. Accounted(q, r)
    BY <1>2, <2>2, <2>4 DEF Accounted, Ingesting
  <2> QED
    BY <1>2, <2>3, <2>5, <2>8, <2>9, <2>10, <2>11, Bounds, RequestStep
<1> QED
  BY <1>4, <1>5

------------------------------------------------------------------------------
(***************************************************************************)
(* The steps of an upload that has a document.                             *)
(***************************************************************************)
LEMMA RefreshKeeps ==
  ASSUME IInv, NEW q \in Requests, Refresh(q)
  PROVE  IInv'
<1>1. PICK d : d = req[q].doc
  OBVIOUS
<1>2. /\ req[q].pc = "refresh" /\ UNCHANGED <<cases, docs, recorded, files, deletions, faults>>
      /\ Sensible(req[q]) /\ d \in Documents /\ docs[d].status # "absent"
      /\ req[q].after = "duplicate" => d \in Old
  BY <1>1, Facts DEF Refresh, ItsDocument, Sensible, Ingesting
<1>3. CASE ~Exists(d) /\ End(q)
  <2>1. Changes(q, IdleRequest)
    BY <1>3, Becoming DEF End
  <2>2. Accounted(q, IdleRequest)
    BY <1>1, <1>2, <1>3, NothingLost
  <2> QED
    BY <1>2, <2>1, <2>2, Idling, Bounds, MovesOn
<1>4. CASE \/ Exists(d) /\ req[q].after = "duplicate" /\ NextFile(q)
           \/ docs[d].status = "failed" /\ Refuse(q)
  <2>1. PICK r : /\ Changes(q, r) /\ Sensible(r)
                 /\ r.pc = "idle" \/ (r.pc = "ensure" /\ r.after = "duplicate")
    BY <1>2, <1>4, Nexting, Refusing DEF Uploading, Ingesting
  <2>2. Accounted(q, r)
    BY <1>1, <1>2, <1>4, NothingLost
  <2> QED
    BY <1>2, <2>1, <2>2, Bounds, MovesOn
<1>5. CASE docs[d].status = "parsed" /\ GoTo(q, "record")
  <2>1. PICK r \in Request : Changes(q, r) /\ r.pc = "record" /\ Fields(q, r)
    BY <1>5, Going DEF Steps, Ingesting
  <2>2. Sensible(r)
    BY <1>2, <2>1 DEF Sensible, Fields, Uploading, Ingesting
  <2>3. BeforeInsert(q)' /\ ItsDocument(q)' /\ ItsFiles(q)'
    BY <1>1, <1>2, <2>1 DEF BeforeInsert, ItsDocument, ItsFiles, Changes, Fields, Ingesting
  <2>4. Accounted(q, r)
    BY <1>2, <2>1 DEF Accounted, Fields, Ingesting
  <2> QED
    BY <1>2, <2>1, <2>2, <2>3, <2>4, Bounds, SameRows, RequestStep
<1> QED
  BY <1>1, <1>3, <1>4, <1>5 DEF Refresh

LEMMA RecordIngestionKeeps ==
  ASSUME IInv, NEW q \in Requests, RecordIngestion(q)
  PROVE  IInv'
<1>1. PICK d : d = req[q].doc
  OBVIOUS
<1>2. /\ req[q].pc = "record" /\ UNCHANGED <<cases, docs, files, deletions, faults>>
      /\ recorded' = recorded \cup {d} /\ GoTo(q, "write")
      /\ Sensible(req[q]) /\ d \in Documents /\ docs[d].status # "absent"
  BY <1>1, Facts DEF RecordIngestion, ItsDocument, Sensible, Ingesting
<1>3. PICK r \in Request : Changes(q, r) /\ r.pc = "write" /\ Fields(q, r)
  BY <1>2, Going DEF Steps, Ingesting
<1>4. Sensible(r)
  BY <1>2, <1>3 DEF Sensible, Fields, Uploading, Ingesting
<1>5. BeforeInsert(q)' /\ ItsDocument(q)' /\ ItsFiles(q)'
  BY <1>1, <1>2, <1>3 DEF BeforeInsert, ItsDocument, ItsFiles, Changes, Fields, Ingesting
<1>6. Accounted(q, r)
  BY <1>2, <1>3 DEF Accounted, Fields, Ingesting
<1>7. recorded' \subseteq Documents
  BY <1>2, Bounds
<1> QED
  BY <1>2, <1>3, <1>4, <1>5, <1>6, <1>7, Bounds, SameRows, RequestStep

LEMMA WriteFileKeeps ==
  ASSUME IInv, NEW q \in Requests, WriteFile(q)
  PROVE  IInv'
<1>1. PICK d : d = req[q].doc
  OBVIOUS
<1>2. /\ req[q].pc = "write" /\ UNCHANGED <<cases, docs, recorded, deletions, faults>>
      /\ files' = files \cup {d} /\ NextFile(q) /\ d \in Documents /\ d \in recorded
  BY <1>1, Facts DEF WriteFile, ItsDocument, Sensible, Ingesting
<1>3. PICK r : /\ Changes(q, r) /\ Sensible(r)
               /\ r.pc = "idle" \/ (r.pc = "ensure" /\ r.after = "duplicate")
  BY <1>2, Nexting DEF Uploading, Ingesting
<1>4. BeforeInsert(q)' /\ ItsDocument(q)' /\ ItsFiles(q)'
  BY <1>3, Free
<1>5. Accounted(q, r)
  BY <1>1, <1>2 DEF Accounted
<1>6. files' \subseteq Documents
  BY <1>2, Bounds
<1> QED
  BY <1>2, <1>3, <1>4, <1>5, <1>6, Bounds, SameRows, RequestStep

------------------------------------------------------------------------------
(***************************************************************************)
(* The demo case.                                                          *)
(***************************************************************************)
LEMMA CreateDemoCaseKeeps ==
  ASSUME IInv, NEW q \in Requests, CreateDemoCase(q)
  PROVE  IInv'
<1>1. /\ req[q].pc = "create_case" /\ UNCHANGED <<docs, recorded, files, deletions, faults>>
      /\ Sensible(req[q]) /\ req[q].after = "duplicate"
  BY Facts DEF CreateDemoCase, BeforeInsert
<1>2. \A r : Accounted(q, r)
  BY <1>1, NothingLost DEF Ingesting
<1>3. CASE DemoCase \in cases
  <2>1. Changes(q, IdleRequest) /\ UNCHANGED cases
    BY <1>3, Becoming DEF CreateDemoCase, End
  <2> QED
    BY <1>1, <1>2, <2>1, Idling, Bounds, MovesOn
<1>4. CASE DemoCase \notin cases
  <2>1. cases' = cases \cup {DemoCase} /\ GoTo(q, "present")
    BY <1>4 DEF CreateDemoCase
  <2>2. PICK r \in Request : Changes(q, r) /\ r.pc = "present" /\ Fields(q, r)
    BY <2>1, Going DEF Steps
  <2>3. Sensible(r)
    BY <1>1, <2>2 DEF Sensible, Fields, Uploading, Ingesting
  <2>4. cases' \subseteq Cases
    BY <2>1, Bounds, DemoAssumption
  <2> QED
    BY <1>1, <1>2, <2>2, <2>3, <2>4, Bounds, MovesOn DEF Fields
<1> QED
  BY <1>3, <1>4

LEMMA SelectPresentKeeps ==
  ASSUME IInv, NEW q \in Requests, SelectPresent(q)
  PROVE  IInv'
<1>1. /\ req[q].pc = "present"
      /\ UNCHANGED <<cases, docs, recorded, files, deletions, faults>>
      /\ Sensible(req[q]) /\ req[q].after = "duplicate"
  BY Facts DEF SelectPresent, BeforeInsert
<1>2. \A r : Accounted(q, r)
  BY <1>1, NothingLost DEF Ingesting
<1>3. CASE MissingFromDemo = {}
  <2>1. Changes(q, IdleRequest)
    BY <1>3, Becoming DEF SelectPresent, End
  <2> QED
    BY <1>1, <1>2, <2>1, Idling, Bounds, MovesOn
<1>4. CASE MissingFromDemo # {}
  <2> DEFINE r == [req[q] EXCEPT !.pc = "ensure", !.items = DemoPack, !.todo = MissingFromDemo]
  <2>1. Changes(q, r)
    BY <1>4, Becoming DEF SelectPresent
  <2>2. MissingFromDemo \subseteq DOMAIN DemoPack /\ DOMAIN DemoPack \subseteq Nat
        /\ DemoPack \in Seq(Scopes)
    BY DemoAssumption DEF MissingFromDemo
  <2>3. r \in Request /\ r.pc = "ensure" /\ r.todo = MissingFromDemo /\ r.items = DemoPack
        /\ r.after = "duplicate"
    BY <1>1, <2>2 DEF Sensible, Request, Steps
  <2> HIDE DEF r
  <2>4. Sensible(r)
    BY <1>4, <2>2, <2>3 DEF Sensible, Ingesting
  <2> QED
    BY <1>1, <1>2, <2>1, <2>3, <2>4, Bounds, MovesOn
<1> QED
  BY <1>3, <1>4

------------------------------------------------------------------------------
(***************************************************************************)
(* Deletions.                                                              *)
(***************************************************************************)
LEMMA RowsDeleted ==
  ASSUME IInv, NEW D \in SUBSET Documents, docs' = RowsWithout(D)
  PROVE  /\ RowsEvolve /\ KeysFollowScopes' /\ OneDocumentPerScope'
         /\ \A d \in D : Gone(d)'
         /\ \A d \in Documents : docs'[d].status = "parsed" => docs[d].status = "parsed"
<1>1. docs \in [Documents -> Row]
  BY Bounds
<1>2. /\ \A d \in D : docs'[d] \in Row /\ docs'[d].status = "deleted"
      /\ \A d \in Documents \ D : docs'[d] = docs[d]
      /\ docs' \in [Documents -> Row]
  BY <1>1 DEF RowsWithout, AbsentRow, Row
<1>3. RowsEvolve
  BY <1>2 DEF RowsEvolve, Exists, Gone
<1>4. KeysFollowScopes'
  BY <1>2, OldRowsAssumption DEF IInv, KeysFollowScopes, Exists, Old
<1>5. OneDocumentPerScope'
  BY <1>2 DEF IInv, OneDocumentPerScope, Exists
<1> QED
  BY <1>2, <1>3, <1>4, <1>5 DEF Gone

LEMMA DeleteDocumentKeeps ==
  ASSUME IInv, NEW q \in Requests, DeleteDocument(q)
  PROVE  IInv'
<1>1. PICK D : D = req[q].gone
  OBVIOUS
<1>2. /\ req[q].pc = "delete" /\ UNCHANGED <<cases, recorded, files, deletions, faults>>
      /\ docs' = RowsWithout(D) /\ GoTo(q, "unlink")
      /\ Sensible(req[q]) /\ D \in SUBSET Documents
  BY <1>1, Facts DEF DeleteDocument, Sensible, Request
<1>3. PICK r \in Request : Changes(q, r) /\ r.pc = "unlink" /\ Fields(q, r)
  BY <1>2, Going DEF Steps
<1>4. Sensible(r)
  BY <1>2, <1>3 DEF Sensible, Fields, Uploading, Ingesting
<1>5. BeforeInsert(q)' /\ ItsDocument(q)' /\ ItsFiles(q)'
  BY <1>1, <1>2, <1>3, RowsDeleted DEF BeforeInsert, ItsDocument, ItsFiles, Changes, Fields, Ingesting
<1>6. Accounted(q, r)
  BY <1>2, RowsDeleted DEF Accounted, Ingesting
<1> QED
  BY <1>2, <1>3, <1>4, <1>5, <1>6, Bounds, RowsDeleted, RequestStep

LEMMA ListDocumentsKeeps ==
  ASSUME IInv, NEW q \in Requests, ListDocuments(q)
  PROVE  IInv'
<1> DEFINE r == [req[q] EXCEPT !.pc = "delete_case", !.gone = InCase(req[q].case)]
<1>1. /\ req[q].pc = "list" /\ UNCHANGED <<cases, docs, recorded, files, deletions, faults>>
      /\ Changes(q, r) /\ Sensible(req[q])
  BY Facts, Becoming DEF ListDocuments
<1>2. r \in Request /\ r.pc = "delete_case" /\ r.todo = req[q].todo /\ r.items = req[q].items
      /\ r.case = req[q].case /\ r.gone = InCase(req[q].case)
  BY <1>1 DEF Sensible, Request, Steps, InCase
<1> HIDE DEF r
<1>3. Sensible(r)
  BY <1>1, <1>2 DEF Sensible, Uploading, Ingesting
<1>4. ItsFiles(q)'
  BY <1>1, <1>2 DEF ItsFiles, Changes, InCase, Exists
<1>5. BeforeInsert(q)' /\ ItsDocument(q)'
  BY <1>1, <1>2 DEF BeforeInsert, ItsDocument, Changes, Ingesting
<1>6. Accounted(q, r)
  BY <1>1, NothingLost DEF Ingesting
<1> QED
  BY <1>1, <1>3, <1>4, <1>5, <1>6, Bounds, SameRows, RequestStep

LEMMA DeleteCaseKeeps ==
  ASSUME IInv, NEW q \in Requests, DeleteCase(q)
  PROVE  IInv'
<1>1. PICK D : D = InCase(req[q].case)
  OBVIOUS
<1>2. /\ req[q].pc = "delete_case" /\ UNCHANGED <<recorded, files, deletions, faults>>
      /\ docs' = RowsWithout(D) /\ GoTo(q, "unlink") /\ cases' \subseteq cases
      /\ Sensible(req[q]) /\ D \in SUBSET Documents /\ ItsFiles(q)
      /\ req[q].gone \in SUBSET Documents
  BY <1>1, Facts DEF DeleteCase, Sensible, Request, InCase
<1>3. PICK r \in Request : Changes(q, r) /\ r.pc = "unlink" /\ Fields(q, r)
  BY <1>2, Going DEF Steps
<1>4. Sensible(r)
  BY <1>2, <1>3 DEF Sensible, Fields, Uploading, Ingesting
<1>5. \A d \in req[q].gone : Gone(d)'
  <2>1. \A d \in req[q].gone : Gone(d) \/ d \in D
    BY <1>1, <1>2 DEF ItsFiles, InCase
  <2>2. RowsEvolve /\ \A d \in D : Gone(d)'
    BY <1>2, RowsDeleted
  <2> QED
    BY <1>2, <2>1, <2>2 DEF RowsEvolve
<1>6. BeforeInsert(q)' /\ ItsDocument(q)' /\ ItsFiles(q)'
  BY <1>3, <1>5 DEF BeforeInsert, ItsDocument, ItsFiles, Changes, Fields, Ingesting
<1>7. Accounted(q, r)
  BY <1>2, RowsDeleted DEF Accounted, Ingesting
<1>8. cases' \subseteq Cases
  BY <1>2, Bounds
<1> QED
  BY <1>2, <1>3, <1>4, <1>6, <1>7, <1>8, Bounds, RowsDeleted, RequestStep

LEMMA UnlinkKeeps ==
  ASSUME IInv, NEW q \in Requests, Unlink(q)
  PROVE  IInv'
<1>1. /\ req[q].pc = "unlink" /\ UNCHANGED <<cases, docs, recorded, deletions, faults>>
      /\ files' = files \ req[q].gone /\ Changes(q, IdleRequest)
      /\ \A d \in req[q].gone : Gone(d)
  BY Facts, Becoming DEF Unlink, End, ItsFiles
<1>2. BeforeInsert(q)' /\ ItsDocument(q)' /\ ItsFiles(q)'
  BY <1>1, Idling, Free
<1>3. Accounted(q, IdleRequest)
  BY <1>1 DEF Accounted, Gone, Ingesting
<1>4. files' \subseteq Documents
  BY <1>1, Bounds
<1> QED
  BY <1>1, <1>2, <1>3, <1>4, Idling, Bounds, SameRows, RequestStep

------------------------------------------------------------------------------
(***************************************************************************)
(* Failures.                                                               *)
(***************************************************************************)
LEMMA FaultKeeps ==
  ASSUME IInv, NEW q \in Requests, Fault(q)
  PROVE  IInv'
<1>1. /\ faults < MaxFaults /\ faults' = faults + 1 /\ Changes(q, IdleRequest)
      /\ UNCHANGED <<cases, docs, recorded, files, deletions>>
  BY Becoming DEF Fault, End
<1>2. faults' \in 0..MaxFaults /\ faults <= faults' /\ faults' > 0
  BY <1>1, Bounds, BoundsAssumption
<1>3. Accounted(q, IdleRequest)
  BY <1>2 DEF Accounted
<1> QED
  BY <1>1, <1>2, <1>3, Idling, Bounds, MovesOn

LEMMA CrashKeeps ==
  ASSUME IInv, Crash
  PROVE  IInv'
<1>1. /\ faults < MaxFaults /\ faults' = faults + 1 /\ req' = [q \in Requests |-> IdleRequest]
      /\ UNCHANGED <<cases, docs, recorded, files, deletions>>
  BY DEF Crash
<1>2. faults' \in 0..MaxFaults /\ faults' > 0
  BY <1>1, Bounds, BoundsAssumption
<1>3. TypeOK'
  BY <1>1, <1>2, Idling DEF IInv, TypeOK, Sensible
<1>4. ASSUME NEW q \in Requests PROVE BeforeInsert(q)' /\ ItsDocument(q)' /\ ItsFiles(q)'
  BY <1>1, Idling DEF BeforeInsert, ItsDocument, ItsFiles, Ingesting
<1>5. IngestionIsComplete'
  BY <1>2 DEF IngestionIsComplete
<1> QED
  BY <1>1, <1>3, <1>4, <1>5, SameRows DEF IInv

------------------------------------------------------------------------------
LEMMA Start == Init => IInv
<1> SUFFICES ASSUME Init PROVE IInv
  OBVIOUS
<1>1. \A d \in Documents :
        IF d \in Old
        THEN /\ docs[d].status = Parsing[OldRows[d]]
             /\ docs[d].scope = OldRows[d] /\ docs[d].key = OldKey
        ELSE docs[d].status = "absent"
  BY DEF Init, Old, AbsentRow
<1>2. \A d \in Old : Parsing[OldRows[d]] \in {"parsed", "failed"} /\ d \in Documents
  BY OldRowsAssumption, ScopeAssumption DEF Old
<1>3. TypeOK
  <2>1. docs \in [Documents -> Row]
    BY <1>2, OldRowsAssumption, ScopeAssumption DEF Init, Row, AbsentRow, Old
  <2>2. cases \subseteq Cases
    BY OldRowsAssumption, ScopeAssumption DEF Init
  <2>3. recorded \subseteq Documents /\ files \subseteq Documents
    BY OldRowsAssumption DEF Init
  <2>4. deletions \in 0..MaxDeletions /\ faults \in 0..MaxFaults
    BY BoundsAssumption DEF Init
  <2> QED
    BY <2>1, <2>2, <2>3, <2>4, Idling DEF Init, TypeOK, Sensible
<1>4. KeysFollowScopes
  BY <1>1, <1>2 DEF KeysFollowScopes, Exists
<1>5. OneDocumentPerScope
  BY <1>1, OldRowsAssumption DEF OneDocumentPerScope, Exists, Old
<1>6. ASSUME NEW q \in Requests PROVE BeforeInsert(q) /\ ItsDocument(q) /\ ItsFiles(q)
  BY Idling DEF Init, BeforeInsert, ItsDocument, ItsFiles, Ingesting
<1>7. IngestionIsComplete
  BY <1>1 DEF IngestionIsComplete, Old
<1> QED
  BY <1>3, <1>4, <1>5, <1>6, <1>7 DEF IInv

LEMMA Advance == IInv /\ [Next]_vars => IInv'
<1> SUFFICES ASSUME IInv, [Next]_vars PROVE IInv'
  OBVIOUS
<1>1. ASSUME NEW q \in Requests, NEW items \in Uploads, StartUpload(q, items) PROVE IInv'
  BY <1>1, StartUploadKeeps
<1>2. ASSUME NEW q \in Requests, StartDemo(q) PROVE IInv'
  BY <1>2, StartDemoKeeps
<1>3. ASSUME NEW q \in Requests, NEW d \in Documents, DeleteRequested(q, d) PROVE IInv'
  BY <1>3, DeleteRequestedKeeps
<1>4. ASSUME NEW q \in Requests, NEW c \in Cases, DeleteCaseRequested(q, c) PROVE IInv'
  BY <1>4, DeleteCaseRequestedKeeps
<1>5. ASSUME NEW q \in Requests, UploadStep(q) PROVE IInv'
  BY <1>5, EnsureCaseKeeps, InsertLegacyCaseKeeps, FindDuplicateKeeps, FindOldDuplicateKeeps,
     UpgradeKeyKeeps, InsertDocumentKeeps, RefreshKeeps, RecordIngestionKeeps, WriteFileKeeps
     DEF UploadStep
<1>6. ASSUME NEW q \in Requests, DemoStep(q) PROVE IInv'
  BY <1>6, CreateDemoCaseKeeps, SelectPresentKeeps DEF DemoStep
<1>7. ASSUME NEW q \in Requests, DeletionStep(q) PROVE IInv'
  BY <1>7, DeleteDocumentKeeps, ListDocumentsKeeps, DeleteCaseKeeps, UnlinkKeeps DEF DeletionStep
<1>8. ASSUME NEW q \in Requests, Fault(q) PROVE IInv'
  BY <1>8, FaultKeeps
<1>9. CASE Crash
  BY <1>9, CrashKeeps
<1>10. CASE UNCHANGED vars
  <2>1. \A q \in Requests : Scope(q)' = Scope(q) /\ CaseOf(q)' = CaseOf(q)
    BY <1>10 DEF vars, Scope, CaseOf
  <2>2. TypeOK'
    BY <1>10 DEF vars, IInv, TypeOK
  <2>3. ASSUME NEW q \in Requests PROVE BeforeInsert(q)' /\ ItsDocument(q)' /\ ItsFiles(q)'
    BY <1>10, <2>1, Facts DEF vars, BeforeInsert, ItsDocument, ItsFiles, Exists, Gone
  <2>4. IngestionIsComplete'
    BY <1>10 DEF vars, IInv, IngestionIsComplete
  <2> QED
    BY <1>10, <2>2, <2>3, <2>4, SameRows DEF vars, IInv
<1> QED
  BY <1>1, <1>2, <1>3, <1>4, <1>5, <1>6, <1>7, <1>8, <1>9, <1>10 DEF Next, Step, Rest

\* Every state the program reaches satisfies the invariant.
THEOREM Invariance == Spec => []IInv
<1> QED
  BY Start, Advance, PTL DEF Spec

(***************************************************************************)
(* Rows, files, events and requests stay within their types: an upload has *)
(* a file to deal with, and once a row is committed knows its document.    *)
(***************************************************************************)
THEOREM TypeCorrect == Spec => []TypeOK
<1>1. IInv => TypeOK
  BY DEF IInv
<1> QED
  BY <1>1, Invariance, PTL

(***************************************************************************)
(* However uploads, demo requests and deletions overlap, at most one       *)
(* document exists of a content, a case and a type, older rows included.   *)
(***************************************************************************)
THEOREM NoDuplicates == Spec => []OneDocumentPerScope
<1>1. IInv => OneDocumentPerScope
  BY DEF IInv
<1> QED
  BY <1>1, Invariance, PTL

(***************************************************************************)
(* As long as nothing fails, a parsed document has its event and its file, *)
(* or its upload is still at work on them.                                 *)
(***************************************************************************)
THEOREM IngestionsComplete == Spec => []IngestionIsComplete
<1>1. IInv => IngestionIsComplete
  BY DEF IInv
<1> QED
  BY <1>1, Invariance, PTL
===============================================================================
