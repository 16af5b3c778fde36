--------------------------- MODULE MCEvaluationView ---------------------------
(***************************************************************************)
(* Model checking of EvaluationView with two runs: enough for a thread     *)
(* that is late, and for a run of the dashboard before or after another.   *)
(***************************************************************************)
EXTENDS EvaluationView

CONSTANTS r1, r2, none

TwoRuns == {r1, r2}
==============================================================================
