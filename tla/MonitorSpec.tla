----------------------------- MODULE MonitorSpec -----------------------------
(***************************************************************************)
(* What a monitor of the VM promises: at most one thread is inside; wait() *)
(* leaves the monitor and becomes a waiter in one indivisible step; only   *)
(* the thread inside notifies; and a waiter comes back inside only after   *)
(* it was notified or timed out.                                           *)
(***************************************************************************)
CONSTANTS Threads, NULL

VARIABLES holder,     \* the thread inside, or NULL
          waiting,    \* threads in wait(), neither notified nor timed out
          returning   \* threads whose wait() is over, not yet back inside

vars == <<holder, waiting, returning>>

Init == holder = NULL /\ waiting = {} /\ returning = {}

Enter(t) ==
  /\ holder = NULL /\ t \notin waiting
  /\ holder' = t /\ returning' = returning \ {t}
  /\ UNCHANGED waiting

Exit(t) ==
  /\ holder = t /\ holder' = NULL
  /\ UNCHANGED <<waiting, returning>>

Wait(t) ==
  /\ holder = t
  /\ holder' = NULL /\ waiting' = waiting \cup {t}
  /\ UNCHANGED returning

EndWait(u) ==
  /\ u \in waiting
  /\ waiting' = waiting \ {u} /\ returning' = returning \cup {u}
  /\ UNCHANGED holder

Notify(t, u) == holder = t /\ EndWait(u)

TimeOut(u) == EndWait(u)

Next ==
  \E t \in Threads :
    \/ Enter(t) \/ Exit(t) \/ Wait(t)
    \/ \E u \in Threads : Notify(t, u)

\* Monitors whose wait() may also end by itself, after a timeout.
TimedNext == Next \/ \E u \in Threads : TimeOut(u)

Spec == Init /\ [][Next]_vars

TimedSpec == Init /\ [][TimedNext]_vars
=============================================================================
