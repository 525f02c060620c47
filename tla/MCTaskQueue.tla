----------------------------- MODULE MCTaskQueue -----------------------------
(* Small instances of the work stealing. *)
EXTENDS TaskQueue

CONSTANTS w1, w2

\* One worker finds most of the work: enough for its indexes to wrap around.
TwoFinders == [w \in Workers |-> IF w = w1 THEN 4 ELSE 1]
=============================================================================
