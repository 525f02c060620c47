---------------------------- MODULE MCSafepoint ----------------------------
(* Safepoint on small instances.                                           *)
EXTENDS Safepoint, TLC

CONSTANTS t1, t2

TwoThreads == {t1, t2}
FirstThread == {t1}
SecondThread == {t2}
NoThreads == {}

\* Two threads see one safepoint, while one of them is suspended or one is in
\* a critical region; a thread alone sees all safepoints.
Focus ==
  \/ /\ counter < 2 \/ (counter = 2 /\ vpc = "idle")
     /\ \/ \A t \in Threads : ~external[t]
        \/ \A t \in Threads : crit[t] = 0 /\ ~lazy[t]
  \/ Cardinality(threads) <= 1
=============================================================================
