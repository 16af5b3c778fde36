------------------------------ MODULE MCIndexing ------------------------------
(***************************************************************************)
(* Model checking of Indexing: a contract of two chunks and an invoice of  *)
(* one, an upload of both, a request to index one of them and an           *)
(* evaluation that indexes everything.                                     *)
(***************************************************************************)
EXTENDS Indexing, TLC

CONSTANTS contract, invoice, c1, c2, c3, t1, r1, s1

TwoDocuments == {contract, invoice}
TheirChunks  == contract :> {c1, c2} @@ invoice :> {c3}
OneTask      == {t1}
OneRequest   == {r1}
OneSuite     == {s1}
===============================================================================
