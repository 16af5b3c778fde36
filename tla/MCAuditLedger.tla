---------------------------- MODULE MCAuditLedger ----------------------------
(***************************************************************************)
(* Model checking of AuditLedger and of verify_ledger over its tables.     *)
(***************************************************************************)
EXTENDS LedgerVerification

CONSTANTS w1, w2, w3,   \* sessions
          p1, p2,       \* payloads
          free

MCWriters  == {w1, w2, w3}
MCPayloads == {p1, p2}
==============================================================================
