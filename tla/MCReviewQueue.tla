---------------------------- MODULE MCReviewQueue ----------------------------
(***************************************************************************)
(* Model checking of ReviewQueue.  Task k1 belongs to the case c1.  Task   *)
(* k2 belongs to no case.                                                  *)
(***************************************************************************)
EXTENDS ReviewQueue, TLC

CONSTANTS s1, s2, k1, k2, c1, none, nobody

TwoSessions == {s1, s2}

OneTask  == {k1}
TwoTasks == {k1, k2}
OneCase  == {c1}

InCase == (k1 :> c1)
Mixed  == (k1 :> c1) @@ (k2 :> none)
==============================================================================
