--------------------------- MODULE MCObjectMonitor ---------------------------
(* ObjectMonitor on small instances.                                       *)
EXTENDS ObjectMonitor

CONSTANTS t1, t2

\* One thread does everything; the other contends with it and notifies it.
MixedCalls == [t \in Threads |-> IF t = t1 THEN AllCalls ELSE {"exit", "notify", "notifyAll"}]

NotifyCalls == [t \in Threads |-> {"exit", "wait", "notify"}]
=============================================================================
