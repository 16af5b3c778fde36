----------------------------- MODULE MCAuditTrail -----------------------------
(***************************************************************************)
(* Model checking of AuditTrail: a case with a run and an approved finding *)
(* that are older than the ledger, and a document and a finding that are   *)
(* not.  The case may be deleted and made again, with its event or without *)
(* one.  One row of each table is read: of the two findings, the newer.    *)
(***************************************************************************)
EXTENDS AuditTrail

CONSTANTS c, d, w, t1, t2, none

Trailed == {c, d, w, t1, t2}
OldCase == c :> "created" @@ w :> "running" @@ t1 :> "APPROVED"
OldOrderByKind ==
  [kind \in ToSet(Kinds) |-> CASE kind = "case" -> <<c>> [] kind = "workflow" -> <<w>>
                              [] kind = "review_finding" -> <<t1>> [] OTHER -> <<>>]

KindOfTrailed == c :> "case" @@ d :> "document" @@ w :> "workflow"
                   @@ t1 :> "review_finding" @@ t2 :> "review_finding"
CaseOfTrailed == [e \in Trailed |-> IF e = c THEN none ELSE c]
===============================================================================
