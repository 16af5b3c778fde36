------------------------ MODULE MCDiscrepancyEngine ------------------------
(***************************************************************************)
(* The documents of DiscrepancyEngine.cfg: an invoice without faults and   *)
(* invoices that differ from it in what one rule looks at, with the same   *)
(* number as the others except one; two contracts, two orders, a policy,   *)
(* and documents whose extraction fails.  No amount lies at the edge of a  *)
(* tolerance, where the code's floats decide.                              *)
(***************************************************************************)
EXTENDS DiscrepancyEngine

Names == "Acme Ltd." :> "acme" @@ "ACME" :> "acme" @@ "Ltd." :> None
           @@ "Beta" :> "beta" @@ None :> None

CompanyName(name) == Names[name]

Document(type, extraction) == [document_type |-> type, extraction |-> extraction]

Clean ==
  [invoice_number |-> "A-1", vendor_name |-> "ACME", issue_date |-> 5, due_date |-> 9,
   currency |-> "USD", subtotal |-> 1000, tax_rate_percent |-> 10, tax |-> 100,
   total |-> 1100, payment_terms |-> "Net 30", po_reference |-> "P-1"]

BeyondOrder    == [Clean EXCEPT !.subtotal = 2000, !.tax = 200, !.total = 2200]
BeyondContract == [Clean EXCEPT !.subtotal = 3000, !.tax = 300, !.total = 3300]
Nothing        == [Clean EXCEPT !.subtotal = 0, !.tax = 0, !.total = 0]
Unlike         == [Clean EXCEPT !.vendor_name = "Beta", !.currency = "EUR",
                                !.issue_date = 1, !.payment_terms = "Net 60"]
Miscounted     == [Clean EXCEPT !.invoice_number = "A-2", !.vendor_name = "Ltd.",
                                !.tax = 300, !.total = 2000, !.po_reference = None]

Contract ==
  [maximum_amount |-> 3000, currency |-> "USD", vendor_name |-> "Acme Ltd.",
   effective_date |-> 2, expiration_date |-> 8, payment_terms |-> "Net 30"]

Order == [approved_amount |-> 2000, vendor_name |-> "ACME"]

Cases ==
  {Document("invoice", e) :
     e \in {Clean, BeyondOrder, BeyondContract, Nothing, Unlike, Miscounted, None}}
  \cup {Document("contract", e) :
          e \in {Contract, [Contract EXCEPT !.maximum_amount = None, !.expiration_date = 4]}}
  \cup {Document("purchase_order", e) : e \in {Order, [Order EXCEPT !.approved_amount = 500]}}
  \cup {Document("policy", [po_reference_required |-> TRUE])}
=============================================================================
