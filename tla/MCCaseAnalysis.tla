----------------------------- MODULE MCCaseAnalysis -----------------------------
(***************************************************************************)
(* Model checking of CaseAnalysis: two requests, one run, and a case with  *)
(* one required document, an invoice.                                      *)
(***************************************************************************)
EXTENDS CaseAnalysis, TLC

CONSTANTS q1, q2, w1, c1, invoice, high, none

TwoRequests == {q1, q2}
OneRun      == {w1}
OneCase     == {c1}
InvoiceOnly == {invoice}
OfInvoice   == (invoice :> c1)
HighOnly    == {high}
=================================================================================
