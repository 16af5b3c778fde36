----------------------------- MODULE MCWebClient -----------------------------
(***************************************************************************)
(* Model checking of WebClient: two cases; three findings, two of the      *)
(* first case and one of the second, of which the first is yet to be found *)
(* and the last has been approved; two documents of the first case and     *)
(* none of the second.                                                     *)
(***************************************************************************)
EXTENDS WebClient

CONSTANTS c1, c2, f1, f2, f3, d1, d2, none

TwoCases == {c1, c2}

NewOrRunning ==
  {[exists |-> TwoCases, latest |-> [c \in TwoCases |-> Unanalyzed]],
   [exists |-> {c1}, latest |-> (c1 :> [n |-> 1, status |-> "running"]) @@ (c2 :> Unanalyzed)]}

ThreeFindings == {f1, f2, f3}
FindingsInOrder == <<f1, f2, f3>>
CaseOfFinding == (f1 :> c1) @@ (f2 :> c2) @@ (f3 :> c1)
AllHigh == [f \in ThreeFindings |-> "high"]
OwnWords == [f \in ThreeFindings |-> f]
OneToFind == {(f1 :> "absent") @@ (f2 :> "OPEN") @@ (f3 :> "APPROVED")}
OpenOrAll == {[status |-> s, severity |-> "all"] : s \in {"OPEN", "all"}}

TwoDocuments == {d1, d2}
DocumentsOfFirst == (c1 :> <<d1, d2>>) @@ (c2 :> <<>>)

TwoSearches == {"ALL", "QUERY_EXECUTED"}
ReviewsAndAsk == {"reviews", "ask"}
==============================================================================
