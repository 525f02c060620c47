---------------------------- MODULE MCVMOperations ----------------------------
(* VMOperations on a small instance.                                       *)
EXTENDS VMOperations

CONSTANTS j1, gc

SomeModes ==
  [t \in Threads |-> IF t = j1 THEN {"safepoint", "async_safepoint"} ELSE {"safepoint", "no_safepoint"}]
===============================================================================
