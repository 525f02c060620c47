------------------------------ MODULE WorkPool -------------------------------
(***************************************************************************)
(* What the collectors expect of their task queues and of the terminator:  *)
(* every worker has a deque of tasks and a private pile; it adds and takes *)
(* at one end of its deque while the others take at the other end; no task *)
(* is taken twice; and a worker is told to stop only when no task is left  *)
(* anywhere and nobody is at work on one.                                  *)
(***************************************************************************)
EXTENDS Integers, Sequences

CONSTANTS Workers, Tasks, Roots, None

VARIABLES deque,     \* each worker's tasks, the oldest first
          pile,      \* each worker's private tasks
          current,   \* what each worker is at work on: Roots, a task or None
          stopped    \* the workers told that the work is over

vars == <<deque, pile, current, stopped>>

Init ==
  /\ deque = [w \in Workers |-> <<>>]
  /\ pile = [w \in Workers |-> <<>>]
  /\ current = [w \in Workers |-> Roots]
  /\ stopped = {}

Add(w, t) ==
  /\ current[w] # None
  /\ \/ deque' = [deque EXCEPT ![w] = Append(@, t)] /\ UNCHANGED pile
     \/ pile' = [pile EXCEPT ![w] = Append(@, t)] /\ UNCHANGED deque
  /\ UNCHANGED <<current, stopped>>

Finish(w) ==
  /\ current[w] # None
  /\ current' = [current EXCEPT ![w] = None]
  /\ UNCHANGED <<deque, pile, stopped>>

Take(w, t) == current[w] = None /\ current' = [current EXCEPT ![w] = t]

TakePrivate(w) ==
  /\ pile[w] # <<>>
  /\ Take(w, pile[w][Len(pile[w])]) /\ pile' = [pile EXCEPT ![w] = SubSeq(@, 1, Len(@) - 1)]
  /\ UNCHANGED <<deque, stopped>>

TakeNewest(w) ==
  /\ deque[w] # <<>>
  /\ Take(w, deque[w][Len(deque[w])]) /\ deque' = [deque EXCEPT ![w] = SubSeq(@, 1, Len(@) - 1)]
  /\ UNCHANGED <<pile, stopped>>

StealOldest(w, v) ==
  /\ w # v /\ deque[v] # <<>>
  /\ Take(w, Head(deque[v])) /\ deque' = [deque EXCEPT ![v] = Tail(@)]
  /\ UNCHANGED <<pile, stopped>>

Stop(w) ==
  /\ \A v \in Workers : current[v] = None /\ deque[v] = <<>> /\ pile[v] = <<>>
  /\ stopped' = stopped \cup {w}
  /\ UNCHANGED <<deque, pile, current>>

Next ==
  \E w \in Workers :
    \/ \E t \in Tasks : Add(w, t)
    \/ Finish(w) \/ TakePrivate(w) \/ TakeNewest(w) \/ Stop(w)
    \/ \E v \in Workers : StealOldest(w, v)

Spec == Init /\ [][Next]_vars
=============================================================================
