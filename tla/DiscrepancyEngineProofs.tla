------------------------ MODULE DiscrepancyEngineProofs ------------------------
(***************************************************************************)
(* For any documents, any normalisation of names and any number of         *)
(* uploads: an excess is reported once, findings do not depend on the      *)
(* order in which the documents of a case are loaded, a value that is      *)
(* missed accuses nobody, and a document that comes silences nothing.      *)
(*                                                                         *)
(* The rules are taken one by one: of which types their findings are, what *)
(* they do with less to know and with more documents.  CaseInv says what   *)
(* the steps leave of the documents that were uploaded.                    *)
(***************************************************************************)
EXTENDS DiscrepancyEngine, FiniteSetTheorems, WellFoundedInduction, TLAPS

LEMMA IfFinding ==
  ASSUME NEW condition, NEW type, NEW severity, NEW about, NEW field,
         NEW f \in If(condition, Finding(type, severity, about, field))
  PROVE  /\ condition
         /\ f.type = type /\ f.severity = severity /\ f.about = about
BY DEF If, Finding

AmountRules == {"amount_exceeds_contract", "po_mismatch"}

LEMMA AmountFindings ==
  ASSUME NEW case, NEW i, NEW f \in CheckAmounts(case, i)
  PROVE  f.about = i /\ f.type \in AmountRules
BY IfFinding DEF CheckAmounts, AmountRules

\* What the other rules for one invoice find.
OtherRules ==
  {"wrong_currency", "vendor_name_mismatch", "invoice_date_outside_contract",
   "inconsistent_payment_terms", "incorrect_total", "incorrect_tax_calculation",
   "missing_required_field", "policy_violation"}

LEMMA OtherFindings ==
  ASSUME NEW case, NEW i, NEW f \in CheckInvoice(case, i), f \notin CheckAmounts(case, i)
  PROVE  f.about = i /\ f.type \in OtherRules
<1>1. CASE f \in _check_currency(case, i)
  BY <1>1 DEF _check_currency, If, Finding, OtherRules
<1>2. CASE f \in _check_vendor(case, i)
  BY <1>2 DEF _check_vendor, If, Finding, OtherRules
<1>3. CASE f \in _check_dates(case, i)
  BY <1>3 DEF _check_dates, If, Finding, OtherRules
<1>4. CASE f \in _check_payment_terms(case, i)
  BY <1>4 DEF _check_payment_terms, If, Finding, OtherRules
<1>5. CASE f \in _check_totals(case, i)
  BY <1>5 DEF _check_totals, If, Finding, OtherRules
<1>6. CASE f \in _check_tax(case, i)
  BY <1>6 DEF _check_tax, If, Finding, OtherRules
<1>7. CASE f \in _check_missing_fields(case, i)
  BY <1>7 DEF _check_missing_fields, Finding, OtherRules
<1>8. CASE f \in _check_policy(case, i)
  BY <1>8 DEF _check_policy, If, Finding, OtherRules
<1> QED
  BY <1>1, <1>2, <1>3, <1>4, <1>5, <1>6, <1>7, <1>8 DEF CheckInvoice

LEMMA DuplicateFindings ==
  ASSUME NEW case, NEW f \in _check_duplicates(case)
  PROVE  f.type \in AboutSeveral /\ f.severity = "high"
<1>1. \E type \in AboutSeveral : \E number : f = Finding(type, "high", number, "invoice_number")
  BY DEF _check_duplicates, AboutSeveral
<1> QED
  BY <1>1 DEF Finding

\* The findings about an invoice are those of the rules for one invoice.
LEMMA AboutOne ==
  ASSUME NEW docs, NEW order, NEW i \in Extracted(docs, "invoice")
  PROVE  About(docs, order, i) = CheckInvoice(CaseDocuments(docs, order), i)
<1> DEFINE case == CaseDocuments(docs, order)
<1>1. DOMAIN case.invoices = Extracted(docs, "invoice")
  BY DEF CaseDocuments
<1>2. \A j : \A f \in CheckInvoice(case, j) : f.about = j /\ f.type \notin AboutSeveral
  BY AmountFindings, OtherFindings DEF AmountRules, OtherRules, AboutSeveral
<1> HIDE DEF case
<1>3. ASSUME NEW f \in About(docs, order, i) PROVE f \in CheckInvoice(case, i)
  <2>1. f \in analyze_case(case) /\ f.type \notin AboutSeveral /\ f.about = i
    BY <1>3 DEF About, Findings, case
  <2>2. PICK j \in DOMAIN case.invoices : f \in CheckInvoice(case, j)
    <3>1. f \notin _check_duplicates(case)
      BY <2>1, DuplicateFindings
    <3>2. f \in UNION {CheckInvoice(case, j) : j \in DOMAIN case.invoices}
      BY <2>1, <3>1 DEF analyze_case
    <3> QED
      BY <3>2
  <2> QED BY <2>1, <2>2, <1>2
<1>4. ASSUME NEW f \in CheckInvoice(case, i) PROVE f \in About(docs, order, i)
  <2>1. f \in analyze_case(case)
    BY <1>1, <1>4 DEF analyze_case
  <2> QED BY <2>1, <1>2, <1>4 DEF About, Findings, case
<1> QED BY <1>3, <1>4 DEF case

LEMMA ReportedOnce ==
  ASSUME NEW docs, NEW order, NEW i \in Extracted(docs, "invoice")
  PROVE  LET case == CaseDocuments(docs, order)
         IN  Cardinality({f \in About(docs, order, i) : f.type \in AmountRules})
               = IF ExceedsContract(case, i) \/ ExceedsOrder(case, i) THEN 1 ELSE 0
<1> DEFINE case == CaseDocuments(docs, order)
           reported == {f \in About(docs, order, i) : f.type \in AmountRules}
<1>1. reported = CheckAmounts(case, i)
  <2>1. CheckAmounts(case, i) \subseteq CheckInvoice(case, i)
    BY DEF CheckInvoice
  <2> QED
    BY <2>1, AboutOne, AmountFindings, OtherFindings DEF AmountRules, OtherRules
<1> HIDE DEF case, reported
<1>2. CASE ~ExceedsContract(case, i) /\ ~ExceedsOrder(case, i)
  <2>1. CheckAmounts(case, i) = {}
    BY <1>2 DEF CheckAmounts, If
  <2> QED BY <1>1, <1>2, <2>1, FS_EmptySet DEF case, reported
<1>3. CASE ExceedsContract(case, i) \/ ExceedsOrder(case, i)
  <2>1. \E f : CheckAmounts(case, i) = {f}
    BY <1>3 DEF CheckAmounts, If
  <2> QED BY <1>1, <1>3, <2>1, FS_Singleton DEF case, reported
<1> QED BY <1>2, <1>3

(***************************************************************************)
(* An invoice beyond the contract's maximum or the order's amount has one  *)
(* finding about its amount: the rule for the order looks away only when   *)
(* the rule for the contract has spoken (engine.py, analyze_case).         *)
(***************************************************************************)
THEOREM ExcessReported == Spec => []ExcessIsReportedOnce
<1>1. ExcessIsReportedOnce
  BY ReportedOnce DEF ExcessIsReportedOnce, AmountRules, CaseDocuments
<1> QED BY <1>1, PTL

------------------------------------------------------------------------------
(***************************************************************************)
(* Which document comes first.                                             *)
(***************************************************************************)
LEMMA NatMin ==
  ASSUME NEW K \in SUBSET Nat, K # {}
  PROVE  \E k \in K : \A l \in K : k <= l
<1> DEFINE lt == {p \in Nat \X Nat : p[1] < p[2]}
<1>1. IsWellFoundedOn(lt, Nat)
  BY NatLessThanWellFounded DEF OpToRel
<1> HIDE DEF lt
<1>2. PICK k \in K : \A l \in K : ~(<<l, k>> \in lt)
  BY <1>1, WFMin
<1>3. ASSUME NEW l \in K PROVE k <= l
  <2>1. k \in Nat /\ l \in Nat /\ <<l, k>> \notin lt
    BY <1>2
  <2>2. ~(l < k)
    BY <2>1 DEF lt
  <2> QED
    BY <2>1, <2>2
<1> QED BY <1>3

LEMMA OrderIsPermutation ==
  ASSUME NEW S, IsFiniteSet(S), NEW order \in SetToSeqs(S)
  PROVE  /\ DOMAIN order \subseteq Nat
         /\ \A k, l \in DOMAIN order : order[k] = order[l] => k = l
         /\ \A i \in S : \E k \in DOMAIN order : order[k] = i
<1> DEFINE n == Cardinality(S)
<1>1. /\ n \in Nat /\ order \in [1..n -> S] /\ DOMAIN order = 1..n
      /\ \A k, l \in 1..n : order[k] = order[l] => k = l
  BY FS_CardinalityType DEF SetToSeqs
<1>2. order \in Injection(1..n, S)
  BY <1>1 DEF Injection, IsInjective
<1>3. IsFiniteSet(1..n) /\ Cardinality(1..n) = n
  BY <1>1, FS_Interval
<1>4. order \in Surjection(1..n, S)
  BY <1>2, <1>3, FS_Injection
<1> QED BY <1>1, <1>4 DEF Surjection

LEMMA EarliestPrecedes ==
  ASSUME NEW S, IsFiniteSet(S), NEW order \in SetToSeqs(S),
         NEW found \in SUBSET S, found # {}
  PROVE  LET e == Earliest(order, found)
         IN  e \in found /\ \A j \in found \ {e} : Precedes(order, e, j)
<1> DEFINE K == {k \in DOMAIN order : order[k] \in found}
<1>1. K \in SUBSET Nat /\ K # {}
  BY OrderIsPermutation
<1>2. PICK k \in K : \A l \in K : k <= l
  BY <1>1, NatMin
<1>3. ASSUME NEW j \in found \ {order[k]} PROVE Precedes(order, order[k], j)
  <2>1. PICK l \in DOMAIN order : order[l] = j
    BY OrderIsPermutation
  <2>2. l \in K /\ l # k
    BY <2>1
  <2>3. k < l
    BY <1>1, <1>2, <2>2
  <2> QED BY <2>1, <2>3 DEF Precedes
<1>4. \E i \in found : \A j \in found \ {i} : Precedes(order, i, j)
  BY <1>3
<1> QED BY <1>4 DEF Earliest

LEMMA EarliestIs ==
  ASSUME NEW S, IsFiniteSet(S), NEW order \in SetToSeqs(S), NEW found \in SUBSET S,
         NEW i \in found, \A j \in found \ {i} : Precedes(order, i, j)
  PROVE  Earliest(order, found) = i
<1> DEFINE e == Earliest(order, found)
<1>1. e \in found /\ \A j \in found \ {e} : Precedes(order, e, j)
  BY EarliestPrecedes
<1> HIDE DEF e
<1>2. SUFFICES ASSUME e # i PROVE FALSE
  BY DEF e
<1>3. Precedes(order, e, i) /\ Precedes(order, i, e)
  BY <1>1, <1>2
<1>4. PICK k, l \in DOMAIN order : k < l /\ order[k] = e /\ order[l] = i
  BY <1>3 DEF Precedes
<1>5. PICK p, q \in DOMAIN order : p < q /\ order[p] = i /\ order[q] = e
  BY <1>3 DEF Precedes
<1>6. k = q /\ l = p
  BY <1>4, <1>5, OrderIsPermutation
<1>7. k \in Nat /\ l \in Nat
  BY OrderIsPermutation
<1> QED BY <1>4, <1>5, <1>6, <1>7

LEMMA FirstOfOne ==
  ASSUME NEW docs, IsFiniteSet(DOMAIN docs), NEW type,
         Cardinality(Extracted(docs, type)) <= 1,
         NEW o1 \in Orders(docs), NEW o2 \in Orders(docs)
  PROVE  FirstOf(docs, o1, type) = FirstOf(docs, o2, type)
<1> DEFINE found == Extracted(docs, type)
<1>1. found \in SUBSET DOMAIN docs
  BY DEF Extracted
<1>2. IsFiniteSet(found) /\ Cardinality(found) \in Nat
  BY <1>1, FS_Subset, FS_CardinalityType
<1>3. CASE found = {}
  BY <1>3 DEF FirstOf
<1>4. CASE found # {}
  <2>1. Cardinality(found) = 1
    BY <1>2, <1>4, FS_EmptySet
  <2>2. PICK i : found = {i}
    BY <1>2, <2>1, FS_Singleton
  <2>3. Earliest(o1, found) \in found /\ Earliest(o2, found) \in found
    BY <1>1, <1>4, EarliestPrecedes DEF Orders
  <2> QED BY <2>2, <2>3 DEF FirstOf
<1> QED BY <1>3, <1>4

------------------------------------------------------------------------------
(***************************************************************************)
(* The documents of a case are uploaded ones, and invoices may have lost   *)
(* values since.                                                           *)
(***************************************************************************)
Kept(d) ==
  \E u \in Documents :
    /\ d = [document_type |-> u.document_type, extraction |-> d.extraction]
    /\ d.extraction # None =>
         /\ u.extraction # None
         /\ IF u.document_type = "invoice"
            THEN \E fields \in SUBSET InvoiceFields :
                   d.extraction = Without(u.extraction, fields)
            ELSE d.extraction = u.extraction

CaseInv ==
  /\ DOMAIN documents \subseteq 1..MaxDocuments
  /\ documents = [i \in DOMAIN documents |-> documents[i]]
  /\ \A i \in DOMAIN documents : Kept(documents[i])

LEMMA CaseIsFinite == CaseInv => IsFiniteSet(DOMAIN documents)
BY DocumentsAssumption, FS_Interval, FS_Subset DEF CaseInv

LEMMA InitCase == Init => CaseInv
BY DEF Init, CaseInv

\* One document of the case changes.
LEMMA OneChanges ==
  ASSUME CaseInv, NEW i \in DOMAIN documents, NEW d, Kept(d),
         documents' = [documents EXCEPT ![i] = d]
  PROVE  CaseInv'
BY DEF CaseInv

LEMMA UploadKeeps ==
  ASSUME CaseInv, NEW document \in Documents, Upload(document)
  PROVE  /\ CaseInv'
         /\ \E n \in (1..MaxDocuments) \ DOMAIN documents :
              /\ DOMAIN documents' = DOMAIN documents \cup {n}
              /\ documents'[n] = document
              /\ \A i \in DOMAIN documents : documents'[i] = documents[i]
<1> DEFINE free == (1..MaxDocuments) \ DOMAIN documents
           n == Min(free)
<1>1. free # {}
  <2>1. SUFFICES ASSUME free = {} PROVE FALSE
    OBVIOUS
  <2>2. DOMAIN documents = 1..MaxDocuments
    BY <2>1 DEF CaseInv
  <2>3. Cardinality(1..MaxDocuments) = MaxDocuments
    BY DocumentsAssumption, FS_Interval
  <2>4. Cardinality(DOMAIN documents) < MaxDocuments
    BY DEF Upload
  <2> QED BY <2>2, <2>3, <2>4, DocumentsAssumption
<1>2. n \in free
  <2>1. free \in SUBSET Nat
    BY DocumentsAssumption
  <2> HIDE DEF free
  <2>2. \E k \in free : \A l \in free : k <= l
    BY <1>1, <2>1, NatMin
  <2> QED BY <2>2 DEF Min
<1> HIDE DEF n
<1>3. /\ documents' = [i \in DOMAIN documents \cup {n} |->
                         IF i = n THEN document ELSE documents[i]]
  BY DEF Upload, n
<1>4. Kept(document)
  BY DocumentsAssumption DEF Kept
<1> QED BY <1>2, <1>3, <1>4 DEF CaseInv

LEMMA WithoutOneMore ==
  ASSUME NEW e, NEW fields \in SUBSET InvoiceFields, NEW field \in InvoiceFields
  PROVE  [Without(e, fields) EXCEPT ![field] = None] = Without(e, fields \cup {field})
BY DEF Without

\* An invoice that was extracted.
LEMMA InvoiceKept ==
  ASSUME CaseInv, NEW i \in Extracted(documents, "invoice")
  PROVE  /\ i \in DOMAIN documents
         /\ documents[i] = [document_type |-> "invoice", extraction |-> documents[i].extraction]
         /\ documents[i].extraction =
              [f \in InvoiceFields |-> documents[i].extraction[f]]
         /\ documents[i].extraction # None
<1>1. /\ i \in DOMAIN documents /\ Kept(documents[i])
      /\ documents[i].document_type = "invoice" /\ documents[i].extraction # None
  BY DEF Extracted, CaseInv
<1> QED BY <1>1 DEF Kept, Without

LEMMA MissKeeps ==
  ASSUME CaseInv, NEW i, NEW field \in InvoiceFields, MissValue(i, field)
  PROVE  LET e == [documents[i].extraction EXCEPT ![field] = None]
         IN  /\ CaseInv'
             /\ documents' = [documents EXCEPT ![i] = [document_type |-> "invoice",
                                                       extraction |-> e]]
             /\ e # None
<1> DEFINE e == [documents[i].extraction EXCEPT ![field] = None]
           d == [document_type |-> "invoice", extraction |-> e]
<1>1. /\ i \in DOMAIN documents /\ Kept(documents[i])
      /\ documents[i].document_type = "invoice" /\ documents[i].extraction # None
      /\ documents[i] = [document_type |-> "invoice", extraction |-> documents[i].extraction]
  BY InvoiceKept DEF MissValue, Extracted, CaseInv
<1>2. PICK u \in Documents :
        /\ u.document_type = "invoice" /\ u.extraction # None
        /\ \E fields \in SUBSET InvoiceFields :
             documents[i].extraction = Without(u.extraction, fields)
  BY <1>1 DEF Kept
<1>3. PICK fields \in SUBSET InvoiceFields :
        documents[i].extraction = Without(u.extraction, fields)
  BY <1>2
<1>4. e = Without(u.extraction, fields \cup {field})
  BY <1>3, WithoutOneMore
<1>5. e # None
  BY <1>2, <1>4, DocumentsAssumption
<1>6. documents' = [documents EXCEPT ![i] = d]
  <2>1. documents' = [documents EXCEPT ![i] = [documents[i] EXCEPT !.extraction = e]]
    BY DEF MissValue
  <2>2. [documents[i] EXCEPT !.extraction = e] = d
    BY <1>1
  <2> QED BY <2>1, <2>2
<1>7. Kept(d)
  BY <1>2, <1>4 DEF Kept
<1> HIDE DEF e, d
<1>8. CaseInv'
  BY <1>1, <1>6, <1>7, OneChanges
<1> QED BY <1>5, <1>6, <1>8 DEF e, d

LEMMA NextCase == CaseInv /\ [Next]_documents => CaseInv'
<1> SUFFICES ASSUME CaseInv, [Next]_documents PROVE CaseInv'
  OBVIOUS
<1>1. ASSUME NEW document \in Documents, Upload(document) PROVE CaseInv'
  BY <1>1, UploadKeeps
<1>2. ASSUME NEW i \in DOMAIN documents, Delete(i) PROVE CaseInv'
  BY <1>2 DEF Delete, Restrict, CaseInv
<1>3. ASSUME NEW i \in DOMAIN documents, FailExtraction(i) PROVE CaseInv'
  <2> DEFINE d == [documents[i] EXCEPT !.extraction = None]
  <2>1. PICK u \in Documents :
          documents[i] = [document_type |-> u.document_type,
                          extraction |-> documents[i].extraction]
    BY DEF CaseInv, Kept
  <2>2. d = [document_type |-> u.document_type, extraction |-> None]
    BY <2>1
  <2>3. Kept(d)
    BY <2>2 DEF Kept
  <2>4. documents' = [documents EXCEPT ![i] = d]
    BY <1>3 DEF FailExtraction
  <2> HIDE DEF d
  <2> QED BY <2>3, <2>4, OneChanges
<1>4. ASSUME NEW i, NEW field \in InvoiceFields, MissValue(i, field) PROVE CaseInv'
  BY <1>4, MissKeeps
<1>5. CASE UNCHANGED documents
  BY <1>5 DEF CaseInv
<1> QED BY <1>1, <1>2, <1>3, <1>4, <1>5 DEF Next

(***************************************************************************)
(* The documents of a case are uploaded ones; only an invoice may have     *)
(* lost values, to an extraction that was forced (extract_document).       *)
(***************************************************************************)
THEOREM CaseOfUploads == Spec => []CaseInv
BY InitCase, NextCase, PTL DEF Spec

(***************************************************************************)
(* With one contract, one order and one policy at most, the order in which *)
(* load_documents gets the rows makes no difference to the findings.       *)
(***************************************************************************)
THEOREM Reproducible == Spec => []ReproducibleWithOneOfEach
<1>1. CaseInv => ReproducibleWithOneOfEach
  <2> SUFFICES ASSUME CaseInv,
                      \A type \in References : Cardinality(Extracted(documents, type)) <= 1,
                      NEW o1 \in Orders(documents), NEW o2 \in Orders(documents)
               PROVE  Findings(documents, o1) = Findings(documents, o2)
    BY DEF ReproducibleWithOneOfEach
  <2>1. \A type \in References : FirstOf(documents, o1, type) = FirstOf(documents, o2, type)
    BY CaseIsFinite, FirstOfOne
  <2>2. CaseDocuments(documents, o1) = CaseDocuments(documents, o2)
    BY <2>1 DEF References, CaseDocuments
  <2> QED BY <2>2 DEF Findings
<1> QED BY <1>1, CaseOfUploads, PTL

------------------------------------------------------------------------------
(***************************************************************************)
(* Values that are missed.  Every rule but two compares values it knows:   *)
(* what it finds with less to know it finds with more.                     *)
(***************************************************************************)
LessKnown(w, v) == \A field \in InvoiceFields : w[field] = v[field] \/ w[field] = None

AboutMissing == {"missing_required_field", "policy_violation"}

\* The same references, and an invoice of which less is known.
LessKnownCase(d, c, i) ==
  /\ d.contract = c.contract /\ d.purchase_order = c.purchase_order
  /\ LessKnown(d.invoices[i], c.invoices[i])

LEMMA LessKnownFields ==
  ASSUME NEW w, NEW v, LessKnown(w, v)
  PROVE  /\ w.vendor_name = v.vendor_name \/ w.vendor_name = None
         /\ w.issue_date = v.issue_date \/ w.issue_date = None
         /\ w.currency = v.currency \/ w.currency = None
         /\ w.subtotal = v.subtotal \/ w.subtotal = None
         /\ w.tax_rate_percent = v.tax_rate_percent \/ w.tax_rate_percent = None
         /\ w.tax = v.tax \/ w.tax = None
         /\ w.total = v.total \/ w.total = None
         /\ w.payment_terms = v.payment_terms \/ w.payment_terms = None
BY DEF LessKnown, InvoiceFields

LEMMA LessKnownAmounts ==
  ASSUME NEW c, NEW d, NEW i, LessKnownCase(d, c, i)
  PROVE  CheckAmounts(d, i) \subseteq CheckAmounts(c, i)
<1>1. d.invoices[i].total = c.invoices[i].total \/ d.invoices[i].total = None
  BY LessKnownFields DEF LessKnownCase
<1>2. CASE d.invoices[i].total = c.invoices[i].total
  <2>1. /\ ExceedsContract(d, i) = ExceedsContract(c, i)
        /\ ExceedsOrder(d, i) = ExceedsOrder(c, i)
    BY <1>2 DEF LessKnownCase, ExceedsContract, ExceedsOrder
  <2> QED BY <2>1 DEF CheckAmounts
<1>3. CASE d.invoices[i].total = None
  <2>1. ~ExceedsContract(d, i) /\ ~ExceedsOrder(d, i)
    BY <1>3 DEF ExceedsContract, ExceedsOrder, Exceeds, Known
  <2> QED BY <2>1 DEF CheckAmounts, If
<1> QED BY <1>1, <1>2, <1>3

LEMMA LessKnownVendor ==
  ASSUME NEW c, NEW d, NEW i, LessKnownCase(d, c, i)
  PROVE  _check_vendor(d, i) \subseteq _check_vendor(c, i)
<1>1. d.invoices[i].vendor_name = c.invoices[i].vendor_name \/ d.invoices[i].vendor_name = None
  BY LessKnownFields DEF LessKnownCase
<1>2. CASE d.invoices[i].vendor_name = c.invoices[i].vendor_name
  BY <1>2 DEF LessKnownCase, _check_vendor
<1>3. CASE d.invoices[i].vendor_name = None
  BY <1>3, DocumentsAssumption DEF _check_vendor, If
<1> QED BY <1>1, <1>2, <1>3

LEMMA LessKnownRules ==
  ASSUME NEW c, NEW d, NEW i, LessKnownCase(d, c, i)
  PROVE  /\ _check_currency(d, i) \subseteq _check_currency(c, i)
         /\ _check_payment_terms(d, i) \subseteq _check_payment_terms(c, i)
         /\ _check_dates(d, i) \subseteq _check_dates(c, i)
         /\ _check_totals(d, i) \subseteq _check_totals(c, i)
         /\ _check_tax(d, i) \subseteq _check_tax(c, i)
<1> DEFINE w == d.invoices[i]
           v == c.invoices[i]
<1>1. LessKnown(w, v) /\ d.contract = c.contract
  BY DEF LessKnownCase
<1>2. _check_currency(d, i) \subseteq _check_currency(c, i)
  <2>1. w.currency = v.currency \/ w.currency = None
    BY <1>1, LessKnownFields
  <2> QED BY <1>1, <2>1 DEF _check_currency, Differ, Known, If
<1>3. _check_payment_terms(d, i) \subseteq _check_payment_terms(c, i)
  <2>1. w.payment_terms = v.payment_terms \/ w.payment_terms = None
    BY <1>1, LessKnownFields
  <2> QED BY <1>1, <2>1 DEF _check_payment_terms, Differ, Known, If
<1>4. _check_dates(d, i) \subseteq _check_dates(c, i)
  <2>1. w.issue_date = v.issue_date \/ w.issue_date = None
    BY <1>1, LessKnownFields
  <2> QED BY <1>1, <2>1 DEF _check_dates, Known, If
<1>5. _check_totals(d, i) \subseteq _check_totals(c, i)
  <2>1. \/ w.subtotal = v.subtotal /\ w.tax = v.tax /\ w.total = v.total
        \/ ~Known({w.subtotal, w.tax, w.total})
    BY <1>1, LessKnownFields DEF Known
  <2> QED BY <2>1 DEF _check_totals, If
<1>6. _check_tax(d, i) \subseteq _check_tax(c, i)
  <2>1. \/ /\ w.subtotal = v.subtotal /\ w.tax = v.tax
           /\ w.tax_rate_percent = v.tax_rate_percent
        \/ ~Known({w.subtotal, w.tax, w.tax_rate_percent})
    BY <1>1, LessKnownFields DEF Known
  <2> QED BY <2>1 DEF _check_tax, If
<1> QED BY <1>2, <1>3, <1>4, <1>5, <1>6

LEMMA LessKnownFindsLess ==
  ASSUME NEW c, NEW d, NEW i, LessKnownCase(d, c, i),
         NEW f \in CheckInvoice(d, i), f.type \notin AboutMissing
  PROVE  f \in CheckInvoice(c, i)
<1>1. f \notin _check_missing_fields(d, i)
  BY DEF _check_missing_fields, Finding, AboutMissing
<1>2. f \notin _check_policy(d, i)
  BY DEF _check_policy, If, Finding, AboutMissing
<1> QED
  BY <1>1, <1>2, LessKnownAmounts, LessKnownVendor, LessKnownRules DEF CheckInvoice

LEMMA MissLeavesReferences ==
  ASSUME CaseInv, NEW i, NEW field \in InvoiceFields, MissValue(i, field),
         NEW order \in Orders(documents)
  PROVE  /\ i \in Extracted(documents', "invoice")
         /\ LessKnownCase(CaseDocuments(documents', order), CaseDocuments(documents, order), i)
<1> DEFINE x == documents[i].extraction
           e == [x EXCEPT ![field] = None]
           d == [document_type |-> "invoice", extraction |-> e]
<1>1. /\ documents' = [documents EXCEPT ![i] = d]
      /\ e # None
  BY MissKeeps
<1>2. /\ i \in DOMAIN documents /\ i \in Extracted(documents, "invoice")
      /\ documents[i] = [document_type |-> "invoice", extraction |-> x]
      /\ x = [f \in InvoiceFields |-> x[f]] /\ x # None
  BY InvoiceKept DEF MissValue
<1>3. /\ DOMAIN documents' = DOMAIN documents /\ documents'[i] = d
      /\ \A j \in DOMAIN documents \ {i} : documents'[j] = documents[j]
  BY <1>1, <1>2, InvoiceKept DEF CaseInv
<1>4. LessKnown(e, x)
  BY <1>2 DEF LessKnown
<1>5. d.document_type = "invoice" /\ d.extraction = e
  OBVIOUS
<1>6. documents[i].document_type = "invoice"
  BY <1>2
<1> HIDE DEF x, e, d
<1>7. \A type : Extracted(documents', type) = Extracted(documents, type)
  BY <1>1, <1>2, <1>3, <1>5, <1>6 DEF Extracted, x
<1>8. ASSUME NEW type, type # "invoice"
      PROVE  FirstOf(documents', order, type) = FirstOf(documents, order, type)
  <2> DEFINE found == Extracted(documents, type)
  <2>1. CASE found = {}
    BY <2>1, <1>7 DEF FirstOf
  <2>2. CASE found # {}
    <3>1. found \in SUBSET DOMAIN documents /\ i \notin found
      BY <1>6, <1>8 DEF Extracted
    <3>2. Earliest(order, found) \in found
      BY <2>2, <3>1, CaseIsFinite, EarliestPrecedes DEF Orders
    <3>3. documents'[Earliest(order, found)] = documents[Earliest(order, found)]
      BY <1>3, <3>1, <3>2
    <3> QED BY <2>2, <3>3, <1>7 DEF FirstOf
  <2> QED BY <2>1, <2>2
<1>9. /\ CaseDocuments(documents', order).invoices[i] = e
      /\ CaseDocuments(documents, order).invoices[i] = x
  BY <1>2, <1>3, <1>5, <1>7 DEF CaseDocuments, x
<1> QED
  BY <1>2, <1>4, <1>7, <1>8, <1>9 DEF LessKnownCase, CaseDocuments

(***************************************************************************)
(* An invoice of which a forced extraction misses a value gets no finding  *)
(* it did not have, except those about what is missing: the rules of       *)
(* analyze_case pass over what they do not know.                           *)
(***************************************************************************)
THEOREM MissedValuesAccuse == Spec => MissedValuesAccuseNobody
<1>1. CaseInv /\ [Next]_documents =>
        [\A i \in DOMAIN documents : \A field \in InvoiceFields :
           MissValue(i, field) =>
             \A order \in Orders(documents) :
               \A f \in About(documents', order, i) \ About(documents, order, i) :
                 f.type \in AboutMissing]_documents
  <2> SUFFICES ASSUME CaseInv, NEW i \in DOMAIN documents, NEW field \in InvoiceFields,
                      MissValue(i, field), NEW order \in Orders(documents),
                      NEW f \in About(documents', order, i), f.type \notin AboutMissing
               PROVE  f \in About(documents, order, i)
    BY Zenon
  <2>1. i \in Extracted(documents, "invoice") /\ i \in Extracted(documents', "invoice")
    BY MissLeavesReferences DEF MissValue
  <2>2. f \in CheckInvoice(CaseDocuments(documents', order), i)
    BY <2>1, AboutOne
  <2>3. f \in CheckInvoice(CaseDocuments(documents, order), i)
    BY <2>2, MissLeavesReferences, LessKnownFindsLess
  <2> QED BY <2>1, <2>3, AboutOne
<1> QED BY <1>1, CaseOfUploads, PTL DEF Spec, MissedValuesAccuseNobody, AboutMissing

------------------------------------------------------------------------------
(***************************************************************************)
(* Documents that come.  A case grows when it gets invoices, and a contract *)
(* or an order it did not have.                                            *)
(***************************************************************************)
Grows(c, d) ==
  /\ c.contract \in {None, d.contract}
  /\ c.purchase_order \in {None, d.purchase_order}
  /\ IsFiniteSet(DOMAIN d.invoices)
  /\ \A i \in DOMAIN c.invoices : i \in DOMAIN d.invoices /\ d.invoices[i] = c.invoices[i]

Serious(findings) == \E f \in findings : f.severity = "high"

\* An excess over the contract may take the place of one over the order.
LEMMA ExcessRemains ==
  ASSUME NEW c, NEW d, Grows(c, d), NEW i \in DOMAIN c.invoices, CheckAmounts(c, i) # {}
  PROVE  Serious(CheckAmounts(d, i))
<1>1. d.invoices[i] = c.invoices[i]
  BY DEF Grows
<1>2. ExceedsContract(c, i) => ExceedsContract(d, i)
  <2>1. CASE c.contract = None
    BY <2>1 DEF ExceedsContract, Exceeds, Known, Field
  <2>2. CASE c.contract = d.contract
    BY <1>1, <2>2 DEF ExceedsContract
  <2> QED BY <2>1, <2>2 DEF Grows
<1>3. ExceedsOrder(c, i) => ExceedsOrder(d, i)
  <2>1. CASE c.purchase_order = None
    BY <2>1 DEF ExceedsOrder, Exceeds, Known, Field
  <2>2. CASE c.purchase_order = d.purchase_order
    BY <1>1, <2>2 DEF ExceedsOrder
  <2> QED BY <2>1, <2>2 DEF Grows
<1>4. ExceedsContract(c, i) \/ ExceedsOrder(c, i)
  BY DEF CheckAmounts, If
<1>5. CASE ExceedsContract(d, i)
  <2>1. Finding("amount_exceeds_contract", "high", i, "total") \in CheckAmounts(d, i)
    BY <1>5 DEF CheckAmounts, If
  <2> QED BY <2>1 DEF Finding, Serious
<1>6. CASE ~ExceedsContract(d, i) /\ ExceedsOrder(d, i)
  <2>1. Finding("po_mismatch", "high", i, "total") \in CheckAmounts(d, i)
    BY <1>6 DEF CheckAmounts, If
  <2> QED BY <2>1 DEF Finding, Serious
<1> QED BY <1>2, <1>3, <1>4, <1>5, <1>6

\* Three of the rules for one invoice find what requires a review.
LEMMA SeriousRules ==
  ASSUME NEW c, NEW i, NEW f \in CheckInvoice(c, i), f.severity = "high"
  PROVE  \/ f \in CheckAmounts(c, i)
         \/ f \in _check_currency(c, i)
         \/ f \in _check_totals(c, i)
<1>1. f \notin _check_vendor(c, i)
  BY DEF _check_vendor, If, Finding
<1>2. f \notin _check_dates(c, i)
  BY DEF _check_dates, If, Finding
<1>3. f \notin _check_payment_terms(c, i)
  BY DEF _check_payment_terms, If, Finding
<1>4. f \notin _check_tax(c, i)
  BY DEF _check_tax, If, Finding
<1>5. f \notin _check_missing_fields(c, i)
  BY DEF _check_missing_fields, Finding
<1>6. f \notin _check_policy(c, i)
  BY DEF _check_policy, If, Finding
<1> QED
  BY <1>1, <1>2, <1>3, <1>4, <1>5, <1>6 DEF CheckInvoice

LEMMA SeriousInvoiceRemains ==
  ASSUME NEW c, NEW d, Grows(c, d), NEW i \in DOMAIN c.invoices,
         Serious(CheckInvoice(c, i))
  PROVE  Serious(CheckInvoice(d, i))
<1>1. PICK f \in CheckInvoice(c, i) : f.severity = "high"
  BY DEF Serious
<1>2. d.invoices[i] = c.invoices[i] /\ c.contract \in {None, d.contract}
  BY DEF Grows
<1>3. CASE f \in CheckAmounts(c, i)
  BY <1>3, ExcessRemains DEF Serious, CheckInvoice
<1>4. CASE f \in _check_currency(c, i)
  <2>1. c.contract # None
    BY <1>4 DEF _check_currency, If, Differ, Known, Field
  <2>2. f \in _check_currency(d, i)
    BY <1>2, <1>4, <2>1 DEF _check_currency
  <2> QED BY <1>1, <2>2 DEF Serious, CheckInvoice
<1>5. CASE f \in _check_totals(c, i)
  <2>1. f \in _check_totals(d, i)
    BY <1>2, <1>5 DEF _check_totals
  <2> QED BY <1>1, <2>1 DEF Serious, CheckInvoice
<1> QED BY <1>1, <1>3, <1>4, <1>5, SeriousRules

LEMMA SharedNumbersRemain ==
  ASSUME NEW c, NEW d, Grows(c, d), NEW number \in SharedNumbers(c)
  PROVE  number \in SharedNumbers(d)
<1>1. PICK i \in DOMAIN c.invoices : c.invoices[i].invoice_number = number
  BY DEF SharedNumbers
<1>2. number # None /\ Cardinality(Sharing(c, number)) >= 2
  BY DEF SharedNumbers
<1>3. Sharing(c, number) \subseteq Sharing(d, number)
  BY DEF Sharing, Grows
<1>4. IsFiniteSet(Sharing(d, number))
  BY FS_Subset DEF Sharing, Grows
<1>5. /\ Cardinality(Sharing(c, number)) <= Cardinality(Sharing(d, number))
      /\ IsFiniteSet(Sharing(c, number))
  BY <1>3, <1>4, FS_Subset
<1>6. Cardinality(Sharing(d, number)) >= 2
  BY <1>2, <1>4, <1>5, FS_CardinalityType
<1> QED BY <1>1, <1>2, <1>6 DEF SharedNumbers, Grows

LEMMA SeriousRemains ==
  ASSUME NEW c, NEW d, Grows(c, d), Serious(analyze_case(c))
  PROVE  Serious(analyze_case(d))
<1>1. PICK f \in analyze_case(c) : f.severity = "high"
  BY DEF Serious
<1>2. CASE f \in _check_duplicates(c)
  <2>1. SharedNumbers(c) # {}
    BY <1>2 DEF _check_duplicates
  <2>2. PICK number : number \in SharedNumbers(d)
    BY <2>1, SharedNumbersRemain
  <2>3. PICK g : g \in _check_duplicates(d)
    BY <2>2 DEF _check_duplicates
  <2> QED BY <2>3, DuplicateFindings DEF analyze_case, Serious
<1>3. CASE f \notin _check_duplicates(c)
  <2>1. PICK i \in DOMAIN c.invoices : f \in CheckInvoice(c, i)
    BY <1>3 DEF analyze_case
  <2>2. Serious(CheckInvoice(d, i)) /\ i \in DOMAIN d.invoices
    BY <1>1, <2>1, SeriousInvoiceRemains DEF Serious, Grows
  <2>3. CheckInvoice(d, i) \subseteq analyze_case(d)
    BY <2>2 DEF analyze_case
  <2> QED BY <2>2, <2>3 DEF Serious
<1> QED BY <1>2, <1>3

\* The documents of a case keep their order when one comes.
KeepsOrder(order, later) ==
  \A i, j \in DOMAIN documents : Precedes(order, i, j) => Precedes(later, i, j)

LEMMA UploadGrows ==
  ASSUME CaseInv, NEW document \in Documents, Upload(document),
         document.document_type \in References =>
           Extracted(documents, document.document_type) = {},
         NEW order \in Orders(documents), NEW later \in Orders(documents'),
         KeepsOrder(order, later)
  PROVE  /\ Grows(CaseDocuments(documents, order), CaseDocuments(documents', later))
         /\ \A i \in DOMAIN documents : i \in DOMAIN documents' /\ documents'[i] = documents[i]
<1>1. PICK n \in (1..MaxDocuments) \ DOMAIN documents :
        /\ DOMAIN documents' = DOMAIN documents \cup {n}
        /\ documents'[n] = document
        /\ \A i \in DOMAIN documents : documents'[i] = documents[i]
  BY UploadKeeps
<1>2. IsFiniteSet(DOMAIN documents) /\ IsFiniteSet(DOMAIN documents')
  BY <1>1, CaseIsFinite, FS_AddElement
<1>3. ASSUME NEW type
      PROVE  /\ Extracted(documents, type) \subseteq Extracted(documents', type)
             /\ Extracted(documents', type) \subseteq DOMAIN documents'
             /\ document.document_type # type =>
                  Extracted(documents', type) = Extracted(documents, type)
  BY <1>1 DEF Extracted
<1>4. ASSUME NEW type \in References
      PROVE  FirstOf(documents, order, type) \in {None, FirstOf(documents', later, type)}
  <2> DEFINE found == Extracted(documents, type)
             e == Earliest(order, found)
  <2>1. CASE found = {}
    BY <2>1 DEF FirstOf
  <2>2. CASE found # {}
    <3>1. Extracted(documents', type) = found /\ found \in SUBSET DOMAIN documents
      BY <1>3, <1>4, <2>2 DEF Extracted
    <3>2. e \in found /\ \A j \in found \ {e} : Precedes(order, e, j)
      BY <1>2, <2>2, <3>1, EarliestPrecedes DEF Orders
    <3> HIDE DEF e, found
    <3>3. \A j \in found \ {e} : Precedes(later, e, j)
      BY <3>1, <3>2 DEF KeepsOrder
    <3>4. found \in SUBSET DOMAIN documents'
      BY <1>1, <3>1
    <3>5. Earliest(later, found) = e
      BY <1>2, <3>2, <3>3, <3>4, EarliestIs DEF Orders
    <3>6. documents'[e] = documents[e]
      BY <1>1, <3>1, <3>2
    <3> QED BY <2>2, <3>1, <3>5, <3>6 DEF FirstOf, e, found
  <2> QED BY <2>1, <2>2
<1>5. IsFiniteSet(Extracted(documents', "invoice"))
  BY <1>2, <1>3, FS_Subset
<1>6. \A i \in Extracted(documents, "invoice") :
        i \in Extracted(documents', "invoice") /\ documents'[i] = documents[i]
  BY <1>1, <1>3 DEF Extracted
<1> QED
  BY <1>1, <1>4, <1>5, <1>6 DEF Grows, CaseDocuments, References

(***************************************************************************)
(* No upload of an invoice, or of a contract, an order or a policy where   *)
(* none was extracted, takes away that a case must be reviewed             *)
(* (requires_review of run_rules).                                         *)
(***************************************************************************)
THEOREM ReviewsRemain == Spec => UploadsKeepReview
<1>1. CaseInv /\ [Next]_documents =>
        [\A document \in Documents :
           /\ Upload(document)
           /\ document.document_type \in References =>
                Extracted(documents, document.document_type) = {}
           => \A order \in Orders(documents), later \in Orders(documents') :
                /\ \A i, j \in DOMAIN documents :
                     Precedes(order, i, j) => Precedes(later, i, j)
                /\ requires_review(documents, order)
                => requires_review(documents', later)]_documents
  <2> SUFFICES ASSUME CaseInv, NEW document \in Documents, Upload(document),
                      document.document_type \in References =>
                        Extracted(documents, document.document_type) = {},
                      NEW order \in Orders(documents), NEW later \in Orders(documents'),
                      KeepsOrder(order, later), requires_review(documents, order)
               PROVE  requires_review(documents', later)
    BY Zenon DEF KeepsOrder
  <2>1. /\ Grows(CaseDocuments(documents, order), CaseDocuments(documents', later))
        /\ \A i \in DOMAIN documents : i \in DOMAIN documents' /\ documents'[i] = documents[i]
    BY UploadGrows
  <2>2. CASE Serious(Findings(documents, order))
    BY <2>1, <2>2, SeriousRemains DEF Findings, Serious, requires_review
  <2>3. CASE \E i \in DOMAIN documents : documents[i].extraction = None
    BY <2>1, <2>3 DEF requires_review
  <2> QED BY <2>2, <2>3 DEF requires_review, Serious
<1> QED BY <1>1, CaseOfUploads, PTL DEF Spec, UploadsKeepReview
=============================================================================
