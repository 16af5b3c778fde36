-------------------------- MODULE DiscrepancyEngine --------------------------
(***************************************************************************)
(* What an analysis of a case finds: case_documents_from_extractions of    *)
(* app/agents/graph.py and the rules of app/discrepancy/engine.py, while   *)
(* documents are uploaded, deleted and extracted again.                    *)
(*                                                                         *)
(* Amounts are cents.  A finding is [type, severity, about, field], where  *)
(* about is the invoice's document or, for rules about several invoices,   *)
(* their number.                                                           *)
(*                                                                         *)
(* load_documents selects the documents without ORDER BY: an analysis gets *)
(* them in an order of the database's choice, a parameter of what it finds.*)
(***************************************************************************)
EXTENDS Integers, SequencesExt, FiniteSetsExt

CONSTANTS
  None,
  Documents,         \* what may be uploaded: [document_type, extraction]
  MaxDocuments,      \* bound on the documents of the case
  MaxMissing,        \* bound on the values its invoices lack when one is missed
  normalize_company_name(_)   \* names that are the same company are equal

VARIABLE documents   \* the case: identifier of a document -> document

MONEY_TOLERANCE == 2
TAX_TOLERANCE   == 3

InvoiceFields ==
  {"invoice_number", "vendor_name", "issue_date", "due_date", "currency",
   "subtotal", "tax_rate_percent", "tax", "total", "payment_terms", "po_reference"}

\* An invoice of which the model misses some fields.
Without(extraction, fields) ==
  [f \in InvoiceFields |-> IF f \in fields THEN None ELSE extraction[f]]

\* An invoice that was extracted has all fields, a missing one is None, and it is
\* not a failure, however many are missing.  A name that is missing stays missing.
ASSUME DocumentsAssumption ==
  /\ MaxDocuments \in Nat
  /\ normalize_company_name(None) = None
  /\ \A d \in Documents :
       /\ d = [document_type |-> d.document_type, extraction |-> d.extraction]
       /\ d.document_type = "invoice" /\ d.extraction # None =>
            /\ d.extraction = Without(d.extraction, {})
            /\ \A fields \in SUBSET InvoiceFields : Without(d.extraction, fields) # None

(***************************************************************************)
(* case_documents_from_extractions: all invoices, and the first contract,  *)
(* purchase order and policy.  extraction = None if it failed.             *)
(***************************************************************************)
Extracted(docs, type) ==
  {i \in DOMAIN docs : docs[i].document_type = type /\ docs[i].extraction # None}

Orders(docs) == SetToSeqs(DOMAIN docs)

Precedes(order, i, j) ==
  \E k, l \in DOMAIN order : k < l /\ order[k] = i /\ order[l] = j

Earliest(order, found) ==
  CHOOSE i \in found : \A j \in found \ {i} : Precedes(order, i, j)

\* Mutant: a document whose extraction failed counts as the first as well.
FirstUploaded(docs, order, type) ==
  LET found == {i \in DOMAIN docs : docs[i].document_type = type}
  IN  IF found = {} THEN None ELSE docs[Earliest(order, found)].extraction
FirstOf(docs, order, type) ==
  LET found == Extracted(docs, type)
  IN  IF found = {} THEN None ELSE docs[Earliest(order, found)].extraction

CaseDocuments(docs, order) ==
  [contract       |-> FirstOf(docs, order, "contract"),
   purchase_order |-> FirstOf(docs, order, "purchase_order"),
   policy         |-> FirstOf(docs, order, "policy"),
   invoices       |-> [i \in Extracted(docs, "invoice") |-> docs[i].extraction]]

\* A field of a document that may be missing.
Field(document, field) == IF document = None THEN None ELSE document[field]

Known(values) == None \notin values

(***************************************************************************)
(* The rules for one invoice.                                              *)
(***************************************************************************)
Finding(type, severity, about, field) ==
  [type |-> type, severity |-> severity, about |-> about, field |-> field]

If(condition, finding) == IF condition THEN {finding} ELSE {}

Exceeds(total, limit) == Known({total, limit}) /\ total > limit + MONEY_TOLERANCE

ExceedsContract(case, i) ==
  Exceeds(case.invoices[i].total, Field(case.contract, "maximum_amount"))

ExceedsOrder(case, i) ==
  Exceeds(case.invoices[i].total, Field(case.purchase_order, "approved_amount"))

\* The purchase order is checked when the contract is respected.
\* Mutant: or only when there is no contract.
CheckAmountsApart(case, i) ==
  If(ExceedsContract(case, i), Finding("amount_exceeds_contract", "high", i, "total"))
  \cup If(case.contract = None /\ ExceedsOrder(case, i),
          Finding("po_mismatch", "high", i, "total"))
\* Mutant: or always.
CheckAmountsBoth(case, i) ==
  If(ExceedsContract(case, i), Finding("amount_exceeds_contract", "high", i, "total"))
  \cup If(ExceedsOrder(case, i), Finding("po_mismatch", "high", i, "total"))
CheckAmounts(case, i) ==
  If(ExceedsContract(case, i), Finding("amount_exceeds_contract", "high", i, "total"))
  \cup If(~ExceedsContract(case, i) /\ ExceedsOrder(case, i),
          Finding("po_mismatch", "high", i, "total"))

Differ(a, b) == Known({a, b}) /\ a # b

_check_currency(case, i) ==
  If(Differ(case.invoices[i].currency, Field(case.contract, "currency")),
     Finding("wrong_currency", "high", i, "currency"))

_check_payment_terms(case, i) ==
  If(Differ(case.invoices[i].payment_terms, Field(case.contract, "payment_terms")),
     Finding("inconsistent_payment_terms", "medium", i, "payment_terms"))

_check_vendor(case, i) ==
  LET vendor == normalize_company_name(case.invoices[i].vendor_name)
      references == {normalize_company_name(Field(case.contract, "vendor_name")),
                     normalize_company_name(Field(case.purchase_order, "vendor_name"))}
                    \ {None}
  IN  If(vendor # None /\ references # {} /\ vendor \notin references,
         Finding("vendor_name_mismatch", "medium", i, "vendor_name"))

_check_dates(case, i) ==
  LET issued     == case.invoices[i].issue_date
      effective  == Field(case.contract, "effective_date")
      expiration == Field(case.contract, "expiration_date")
  IN  If(\/ Known({issued, expiration}) /\ issued > expiration
         \/ Known({issued, effective}) /\ issued < effective,
         Finding("invoice_date_outside_contract", "medium", i, "issue_date"))

Far(a, b, tolerance) == a - b > tolerance \/ b - a > tolerance

\* Mutant: a subtotal, tax or total that is missing counts as nothing.
Amount(a) == IF a = None THEN 0 ELSE a
CheckTotalsOfAll(case, i) ==
  LET invoice == case.invoices[i]
  IN  If(Far(Amount(invoice.subtotal) + Amount(invoice.tax), Amount(invoice.total),
             MONEY_TOLERANCE),
         Finding("incorrect_total", "high", i, "total"))
_check_totals(case, i) ==
  LET invoice == case.invoices[i]
  IN  If(/\ Known({invoice.subtotal, invoice.tax, invoice.total})
         /\ Far(invoice.subtotal + invoice.tax, invoice.total, MONEY_TOLERANCE),
         Finding("incorrect_total", "high", i, "total"))

\* round(subtotal * rate / 100, 2)
_check_tax(case, i) ==
  LET invoice == case.invoices[i]
  IN  If(/\ Known({invoice.subtotal, invoice.tax, invoice.tax_rate_percent})
         /\ Far((invoice.subtotal * invoice.tax_rate_percent + 50) \div 100,
                invoice.tax, TAX_TOLERANCE),
         Finding("incorrect_tax_calculation", "medium", i, "tax"))

_REQUIRED_INVOICE_FIELDS == {"invoice_number", "issue_date", "due_date", "total"}

_check_missing_fields(case, i) ==
  {Finding("missing_required_field", "low", i, field) :
     field \in {f \in _REQUIRED_INVOICE_FIELDS : case.invoices[i][f] = None}}

_check_policy(case, i) ==
  If(/\ Field(case.policy, "po_reference_required") = TRUE
     /\ case.invoices[i].po_reference = None,
     Finding("policy_violation", "medium", i, "po_reference"))

CheckInvoice(case, i) ==
  CheckAmounts(case, i) \cup _check_currency(case, i) \cup _check_vendor(case, i)
  \cup _check_dates(case, i) \cup _check_payment_terms(case, i)
  \cup _check_totals(case, i) \cup _check_tax(case, i)
  \cup _check_missing_fields(case, i) \cup _check_policy(case, i)

(***************************************************************************)
(* Invoices with one number.  Totals of zero do not take part in the       *)
(* comparison, and one unknown total ends it.                              *)
(***************************************************************************)
Sharing(case, number) ==
  {i \in DOMAIN case.invoices : case.invoices[i].invoice_number = number}

TotalsOf(case, number) == {case.invoices[i].total : i \in Sharing(case, number)}

SharedNumbers(case) ==
  {number \in {case.invoices[i].invoice_number : i \in DOMAIN case.invoices} \ {None} :
     Cardinality(Sharing(case, number)) >= 2}

_check_duplicates(case) ==
  {Finding(IF /\ Known(TotalsOf(case, number))
              /\ Cardinality(TotalsOf(case, number) \ {0}) > 1
           THEN "conflicting_invoice_number" ELSE "duplicate_invoice",
           "high", number, "invoice_number") :
     number \in SharedNumbers(case)}

analyze_case(case) ==
  _check_duplicates(case) \cup UNION {CheckInvoice(case, i) : i \in DOMAIN case.invoices}

Findings(docs, order) == analyze_case(CaseDocuments(docs, order))

\* run_rules: a failed extraction requires a review as well.
requires_review(docs, order) ==
  \/ \E f \in Findings(docs, order) : f.severity = "high"
  \/ \E i \in DOMAIN docs : docs[i].extraction = None

(***************************************************************************)
(* What happens to the documents between two analyses.                     *)
(***************************************************************************)
Init == documents = <<>>

Upload(document) ==
  /\ Cardinality(DOMAIN documents) < MaxDocuments
  /\ LET new == Min((1..MaxDocuments) \ DOMAIN documents)
     IN  documents' = [i \in DOMAIN documents \cup {new} |->
                         IF i = new THEN document ELSE documents[i]]

Delete(i) == documents' = Restrict(documents, DOMAIN documents \ {i})

\* force_reextract: the model misses a value it found before, or fails.
Missing(docs) ==
  {value \in Extracted(docs, "invoice") \X InvoiceFields :
     docs[value[1]].extraction[value[2]] = None}

MissValue(i, field) ==
  /\ i \in Extracted(documents, "invoice")
  /\ Cardinality(Missing(documents)) < MaxMissing
  /\ documents' = [documents EXCEPT ![i].extraction[field] = None]

FailExtraction(i) == documents' = [documents EXCEPT ![i].extraction = None]

Next ==
  \/ \E document \in Documents : Upload(document)
  \/ \E i \in DOMAIN documents :
       \/ Delete(i) \/ FailExtraction(i)
       \/ \E field \in InvoiceFields : MissValue(i, field)

Spec == Init /\ [][Next]_documents

AboutSeveral == {"duplicate_invoice", "conflicting_invoice_number"}

About(docs, order, i) ==
  {f \in Findings(docs, order) : f.type \notin AboutSeveral /\ f.about = i}

\* An invoice beyond the contract's maximum or the order's amount is reported
\* for its amount, once: leaving the order to the contract hides nothing.
ExcessIsReportedOnce ==
  \A order \in Orders(documents) :
    LET case == CaseDocuments(documents, order)
    IN  \A i \in DOMAIN case.invoices :
          Cardinality({f \in About(documents, order, i) :
                         f.type \in {"amount_exceeds_contract", "po_mismatch"}})
            = IF ExceedsContract(case, i) \/ ExceedsOrder(case, i) THEN 1 ELSE 0

\* A value that is not found is not a contradiction: an invoice of which the
\* model misses a value gets no finding it did not have, except that a field
\* is missing or that it does not name a purchase order.
MissedValuesAccuseNobody ==
  [][\A i \in DOMAIN documents : \A field \in InvoiceFields :
       MissValue(i, field) =>
         \A order \in Orders(documents) :
           \A f \in About(documents', order, i) \ About(documents, order, i) :
             f.type \in {"missing_required_field", "policy_violation"}]_documents

References == {"contract", "purchase_order", "policy"}

\* Analysing a case again finds the same, in whatever order its documents are
\* loaded, as long as the extraction of at most one contract, one purchase
\* order and one policy succeeds: those that fail do not take its place.
ReproducibleWithOneOfEach ==
  (\A type \in References : Cardinality(Extracted(documents, type)) <= 1)
  => \A o1, o2 \in Orders(documents) : Findings(documents, o1) = Findings(documents, o2)

\* A case that must be reviewed still must be when an invoice comes, or a
\* contract, order or policy where none was extracted, wherever it is loaded
\* among the others: no such document turns a serious finding into silence.
UploadsKeepReview ==
  [][\A document \in Documents :
       /\ Upload(document)
       /\ document.document_type \in References =>
            Extracted(documents, document.document_type) = {}
       => \A order \in Orders(documents), later \in Orders(documents') :
            /\ \A i, j \in DOMAIN documents :
                 Precedes(order, i, j) => Precedes(later, i, j)
            /\ requires_review(documents, order)
            => requires_review(documents', later)]_documents

=============================================================================
