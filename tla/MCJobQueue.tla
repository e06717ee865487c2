----------------------------- MODULE MCJobQueue -----------------------------
(* Constant values for model checking JobQueue.                            *)
EXTENDS JobQueue, TLC

CONSTANTS w1, w2, api, box, r1, r2

\* Two workers in two processes: they share nothing but the table.
HomeApart == (w1 :> api) @@ (w2 :> box)

\* Two workers in one process: a crash takes both.
HomeTogether == (w1 :> api) @@ (w2 :> api)

OneRow == {1}
TwoRows == 1..2
=============================================================================
