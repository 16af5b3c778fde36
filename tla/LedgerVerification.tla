-------------------------- MODULE LedgerVerification --------------------------
(***************************************************************************)
(* verify_ledger of app/services/audit_ledger.py, the recomputation of the *)
(* chain behind GET /api/audit-trail, and what it reports for the tables   *)
(* that appends leave behind and for tables altered behind their back.     *)
(***************************************************************************)
EXTENDS AuditLedger

NoSequence == -1      \* first_broken_sequence is None

(***************************************************************************)
(* One iteration of the loop: nothing more is looked at once a row broke.  *)
(***************************************************************************)
\* Mutants: the stored hash is not recomputed; the link is not compared.
CheckLink(seen, event) ==
  IF seen.first_broken_sequence # NoSequence THEN seen
  ELSE [prev_hash             |-> event.entry_hash,
        checked               |-> seen.checked + 1,
        first_broken_sequence |-> IF event.prev_hash # seen.prev_hash
                                  THEN event.sequence ELSE NoSequence]
CheckHash(seen, event) ==
  IF seen.first_broken_sequence # NoSequence THEN seen
  ELSE [prev_hash             |-> event.entry_hash,
        checked               |-> seen.checked + 1,
        first_broken_sequence |->
           IF event.entry_hash # compute_entry_hash(event.prev_hash, event.payload)
           THEN event.sequence ELSE NoSequence]

CheckRow(seen, event) ==
  LET expected == compute_entry_hash(seen.prev_hash, event.payload)
      broken   == \/ event.prev_hash # seen.prev_hash
                  \/ event.entry_hash # expected
  IN  IF seen.first_broken_sequence # NoSequence THEN seen
      ELSE [prev_hash             |-> IF broken THEN seen.prev_hash ELSE expected,
            checked               |-> seen.checked + 1,
            first_broken_sequence |-> IF broken THEN event.sequence ELSE NoSequence]

\* The loop over the rows ORDER BY sequence: what it knows after those up to n.
Seen(T) ==
  LET seen[n \in 0..MaxSequence] ==
        IF n = 0 THEN [prev_hash |-> GENESIS_HASH, checked |-> 0,
                       first_broken_sequence |-> NoSequence]
        ELSE IF \E r \in T : r.sequence = n
             THEN CheckRow(seen[n - 1], CHOOSE r \in T : r.sequence = n)
             ELSE seen[n - 1]
  IN  seen

verify_ledger(T) ==
  LET result == Seen(T)[MaxSequence]
  IN  [valid                 |-> result.first_broken_sequence = NoSequence,
       checked               |-> result.checked,
       first_broken_sequence |-> result.first_broken_sequence]

FirstBroken(T) == verify_ledger(T).first_broken_sequence

------------------------------------------------------------------------------
Replace(r, q) == (rows \ {r}) \cup {q}

Following(r) == {q \in rows : q.sequence > r.sequence}

(***************************************************************************)
(* EditsReported: rewriting any one row of a ledger written by appends, *)
(* its payload, its entry_hash or its prev_hash, is reported at that row;  *)
(* rewriting the payload together with a matching entry_hash is reported   *)
(* at the row that follows, and goes unseen only in the newest row.        *)
(***************************************************************************)
EditsReported ==
  \A r \in rows :
    /\ \A p \in Payloads \ {r.payload} :
         LET edited   == [r EXCEPT !.payload = p]
             rehashed == [edited EXCEPT !.entry_hash = compute_entry_hash(r.prev_hash, p)]
         IN  /\ FirstBroken(Replace(r, edited)) = r.sequence
             /\ FirstBroken(Replace(r, rehashed)) =
                  IF Following(r) = {} THEN NoSequence
                  ELSE (CHOOSE q \in Following(r) :
                          \A s \in Following(r) : q.sequence <= s.sequence).sequence
    /\ \A q \in rows \ {r} :
         /\ FirstBroken(Replace(r, [r EXCEPT !.entry_hash = q.entry_hash])) = r.sequence
         /\ FirstBroken(Replace(r, [r EXCEPT !.prev_hash = q.prev_hash])) = r.sequence

(***************************************************************************)
(* RemovalsReported: removing rows from a ledger written by appends is     *)
(* reported exactly when some row newer than a removed one remains; so a   *)
(* ledger of which nothing is removed verifies, whatever appends ran and   *)
(* rolled back.  The endpoint says so: removal of the newest rows alone    *)
(* cannot be seen.                                                         *)
(***************************************************************************)
RemovalsReported ==
  \A gone \in SUBSET rows :
    verify_ledger(rows \ gone).valid <=>
      \A r \in gone, q \in rows \ gone : q.sequence < r.sequence

(***************************************************************************)
(* TamperingIsReported: the verification that GET /audit-trail responds    *)
(* with reports what it can of edits and removals, edits at the first row  *)
(* that shows them, and calls nothing else broken.                         *)
(***************************************************************************)
TamperingIsReported == EditsReported /\ RemovalsReported
==============================================================================
