--------------------------- MODULE MCNativeMonitor ---------------------------
(* NativeMonitor on small instances.                                       *)
EXTENDS NativeMonitor, TLC

\* What the threads call: they lock; two of them wait and all notify; or one Java
\* thread calls everything while the others lock.
LockOnly   == [t \in Threads |-> {"lock"}]
SomeCalls  == [t \in Threads |-> IF t = CHOOSE n \in Threads : TRUE THEN {"lock", "tryLock", "notify"}
                                 ELSE {"lock", "timedwait", "notify"}]
MixedCalls == [t \in Threads |-> IF t = CHOOSE j \in JavaThreads : TRUE THEN AllCalls
                                 ELSE {"lock", "lockNoCheck", "tryLock"}]

\* Threads of one kind that call the same operations are interchangeable.
Symmetry ==
  {p \in Permutations(Threads) :
     \A t \in Threads : /\ Calls[p[t]] = Calls[t]
                        /\ p[t] \in JavaThreads <=> t \in JavaThreads
                        /\ p[t] = VMThread <=> t = VMThread}
=============================================================================
