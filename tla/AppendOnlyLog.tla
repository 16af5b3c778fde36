---------------------------- MODULE AppendOnlyLog ----------------------------
(***************************************************************************)
(* What the audit ledger promises its callers: a single history of events  *)
(* that only ever grows at its end, one event at a time.  No event is      *)
(* removed, replaced or inserted before another.                           *)
(***************************************************************************)
EXTENDS Sequences

CONSTANT Payloads     \* what an event says (type, actor, entity, details, time)

VARIABLE log          \* the events recorded so far, oldest first

TypeOK == log \in Seq(Payloads)

Init == log = <<>>

Record(p) == log' = Append(log, p)

Next == \E p \in Payloads : Record(p)

Spec == Init /\ [][Next]_log
==============================================================================
