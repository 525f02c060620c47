------------------------- MODULE MCNativeMonitorLive -------------------------
(***************************************************************************)
(* Progress of NativeMonitor.  Succession is by competition, so a thread   *)
(* that calls for ever can starve another; with a bounded number of calls  *)
(* every one of them must come to its end.                                 *)
(***************************************************************************)
EXTENDS NativeMonitor

CONSTANT MaxCalls  \* calls the threads make between them

LiveCalls == [t \in Threads |-> {"lock", "wait", "notify"}]

VARIABLE calls     \* calls made so far

LiveInit == Init /\ calls = 0

LiveCall(t) ==
  /\ calls < MaxCalls /\ calls' = calls + 1
  /\ Call(t)

LiveStep(t) == Step(t) /\ UNCHANGED calls

LiveNext == \E t \in Threads : LiveCall(t) \/ LiveStep(t)

\* The operating system runs every runnable thread, every client unlocks,
\* and a timed wait times out.
LiveSpec ==
  /\ LiveInit /\ [][LiveNext]_<<vars, calls>>
  /\ \A t \in Threads : WF_<<vars, calls>>(LiveStep(t))

\* Every lock() gets the lock, and so does every wait() that was notified
\* or timed out: in the end each thread has returned from its calls, or is
\* parked in an untimed wait() that nobody notified.  No interleaving of
\* IUnlock's succession, deferred unparks and pushes strands a thread.
CallsEnd ==
  <>[](\A t \in Threads :
         \/ pc[t] = "idle"
         \/ pc[t] = "waitParked" /\ op[t] = "wait" /\ t \in In(WaitSet))
=============================================================================
