------------------------- MODULE MCDocumentWorkspace -------------------------
(***************************************************************************)
(* Model checking of DocumentWorkspace: the demo case with a contract and  *)
(* an invoice, which is also uploaded after a file of no supported type,   *)
(* and a note in no case, which cannot be parsed and was uploaded before   *)
(* keys were scoped; or an invoice alone.                                  *)
(***************************************************************************)
EXTENDS DocumentWorkspace, TLC

CONSTANTS q1, q2, d1, d2, d3, d4, d5, c1, contract, invoice, image, note, none, old

TwoRequests == {q1, q2}
OneCase     == {c1}

FiveDocuments == {d1, d2, d3, d4, d5}
OldNote       == (d1 :> note)

AllScopes  == {contract, invoice, image, note}
ItsCase    == [s \in AllScopes |-> IF s = note THEN none ELSE c1]
ItsType    == [s \in AllScopes |-> s]
ItsParsing == [s \in AllScopes |-> CASE s = note -> "failed"
                                     [] s = image -> "unsupported"
                                     [] OTHER -> "parsed"]
ItsUploads == {<<contract>>, <<note>>, <<image, invoice>>}
DemoFiles  == <<contract, invoice>>

OneDocument    == {d1}
NoOldRows      == <<>>
InvoiceScope   == {invoice}
InvoiceCase    == (invoice :> c1)
InvoiceType    == (invoice :> invoice)
InvoiceParsing == (invoice :> "parsed")
DemoInvoice    == <<invoice>>
InvoiceUpload  == {<<invoice>>}
==============================================================================
