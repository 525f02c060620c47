--------------------------- MODULE VMOperationsSpec ---------------------------
(***************************************************************************)
(* What VMThread::execute() promises: an operation that is submitted runs  *)
(* once, alone, to its end, and is released only after that.               *)
(***************************************************************************)
CONSTANT Operations

VARIABLES submitted, done,  \* the operations that have yet to run, and that have run
          running           \* the one that runs, as a set

vars == <<submitted, running, done>>

Init == submitted = {} /\ running = {} /\ done = {}

Submit(op) ==
  /\ op \notin submitted \cup running \cup done
  /\ submitted' = submitted \cup {op} /\ UNCHANGED <<running, done>>

Start(op) ==
  /\ op \in submitted /\ running = {}
  /\ submitted' = submitted \ {op} /\ running' = {op} /\ UNCHANGED done

Finish(op) ==
  /\ running = {op}
  /\ running' = {} /\ done' = done \cup {op} /\ UNCHANGED submitted

Release(op) ==
  /\ op \in done
  /\ done' = done \ {op} /\ UNCHANGED <<submitted, running>>

Next == \E op \in Operations : Submit(op) \/ Start(op) \/ Finish(op) \/ Release(op)

Spec == Init /\ [][Next]_vars
===============================================================================
