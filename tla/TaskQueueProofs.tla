----------------------------- MODULE TaskQueueProofs ------------------------
(***************************************************************************)
(* The asserts of the task queues, and the proof that TaskQueue implements *)
(* WorkPool, for any number of workers, any length of the arrays and any   *)
(* number of tasks.                                                        *)
(***************************************************************************)
EXTENDS TaskQueueSteps, FiniteSetTheorems

\* The prover of every leaf that does not name one.
USE ZenonT(60)

\* _offered_termination stays the number of workers that offer termination.
LEMMA OfferStep ==
  ASSUME TagsLast, Inv, NEW w \in Workers, Step(w) \/ Drain(w)
  PROVE  OfferInv'
<1> DEFINE S == {x \in Workers : pc[x] \in OfferPcs}
           T == {x \in Workers : pc'[x] \in OfferPcs}
<1>1. TypeOK /\ Others(w) /\ _offered_termination = Cardinality(S)
  BY OthersStep DEF Inv, OfferInv
<1>2. IsFiniteSet(S) /\ IsFiniteSet(T)
  <2>1. S \subseteq Workers /\ T \subseteq Workers
    OBVIOUS
  <2> QED BY <2>1, WorkersAssumption, FS_Subset
<1>3. SUFFICES _offered_termination' = Cardinality(T)
  BY DEF OfferInv
<1>4. \A x \in Workers \ {w} : x \in S <=> x \in T
  BY <1>1 DEF Others
<1>5. ASSUME _offered_termination' = _offered_termination, w \in S <=> w \in T
      PROVE  _offered_termination' = Cardinality(T)
  <2>1. S = T
    BY <1>4, <1>5
  <2> QED BY <1>1, <1>5, <2>1
<1>6. (w \in S <=> pc[w] \in OfferPcs) /\ (w \in T <=> pc'[w] \in OfferPcs)
  OBVIOUS
<1>7. CASE offer_termination(w)
  <2>1. pc[w] \notin OfferPcs /\ pc'[w] \in OfferPcs
    <3>1. pc[w] = "offer" /\ pc'[w] = "check"
      BY <1>1, <1>7, Moves
    <3> QED BY <3>1 DEF OfferPcs
  <2> HIDE DEF S, T
  <2>2. T = S \cup {w} /\ w \notin S
    <3>1. \A x : x \in T <=> x \in S \cup {w}
      <4>1. S \subseteq Workers /\ T \subseteq Workers
        BY DEF S, T
      <4> QED BY <1>4, <1>6, <2>1, <4>1
    <3> QED BY <1>6, <2>1, <3>1
  <2>3. Cardinality(T) = Cardinality(S) + 1
    BY <1>2, <2>2, FS_AddElement
  <2> QED BY <1>1, <1>7, <2>3 DEF offer_termination
<1>8. CASE Withdraw(w)
  <2>1. pc[w] \in OfferPcs /\ pc'[w] \notin OfferPcs
    <3>1. pc[w] = "withdraw" /\ pc'[w] = "steal"
      BY <1>1, <1>8, Moves
    <3> QED BY <3>1 DEF OfferPcs
  <2> HIDE DEF S, T
  <2>2. T = S \ {w} /\ w \in S
    <3>1. \A x : x \in T <=> x \in S \ {w}
      <4>1. S \subseteq Workers /\ T \subseteq Workers
        BY DEF S, T
      <4> QED BY <1>4, <1>6, <2>1, <4>1
    <3> QED BY <1>6, <2>1, <3>1
  <2>3. Cardinality(T) = Cardinality(S) - 1
    BY <1>2, <2>2, FS_RemoveElement
  <2> QED BY <1>1, <1>8, <2>3 DEF Withdraw
<1>9. CASE Drain(w)
  BY <1>5, <1>6, <1>9 DEF Drain
<1>10. CASE \/ Push(w) \/ Processed(w) \/ pop_overflow(w) \/ pop_local(w) \/ Reread(w)
            \/ ReadAge(w) \/ pop_local_slow(w)
  <2>1. _offered_termination' = _offered_termination
    BY <1>10 DEF Push, Processed, pop_overflow, pop_local, Reread, ReadAge, pop_local_slow
  <2>2. pc[w] \notin OfferPcs /\ pc'[w] \notin OfferPcs
    BY <1>1, <1>10, Moves, PcClasses
  <2> QED BY <1>5, <1>6, <2>1, <2>2
<1>11. CASE steal(w) \/ ReadBottom(w) \/ ReadElem(w)
  <2>1. _offered_termination' = _offered_termination
    BY <1>11 DEF steal, ReadBottom, ReadElem
  <2>2. pc[w] \notin OfferPcs /\ pc'[w] \notin OfferPcs
    BY <1>1, <1>11, Moves, PcClasses
  <2> QED BY <1>5, <1>6, <2>1, <2>2
<1>12. CASE Drained(w) \/ pop_global(w)
  <2>1. _offered_termination' = _offered_termination
    BY <1>12 DEF Drained, pop_global
  <2>2. pc[w] \notin OfferPcs /\ pc'[w] \notin OfferPcs
    <3>1. pc[w] \in {"drained", "casTop"} /\ pc'[w] \in {"overflow", "steal", "work"}
      BY <1>1, <1>12, Moves
    <3> QED BY <3>1 DEF OfferPcs
  <2> QED BY <1>5, <1>6, <2>1, <2>2
<1>13. CASE Check(w) \/ PeekBottom(w) \/ PeekTop(w)
  <2>1. _offered_termination' = _offered_termination
    BY <1>13 DEF Check, PeekBottom, PeekTop
  <2>2. pc[w] \in OfferPcs /\ pc'[w] \in OfferPcs
    BY <1>1, <1>13, Moves
  <2> QED BY <1>5, <1>6, <2>1, <2>2
<1> QED BY <1>7, <1>8, <1>9, <1>10, <1>11, <1>12, <1>13 DEF Step

\* The invariant holds initially.
LEMMA InitInv ==
  ASSUME TagsLast, Init
  PROVE  Inv
<1>1. TypeOK
  BY TypeInit
<1>2. ASSUME NEW w \in Workers PROVE QueueInv(Q(w)) /\ OwnerInv(w) /\ ThiefInv(w)
  <2>1. /\ Q(w).buf = <<>> /\ Q(w).bottom = 0 /\ Q(w).age = NoAge /\ Q(w).pc = "work"
    BY Fields DEF Init
  <2>2. QueueInv(Q(w))
    BY <1>1, <2>1, TypeOfQueue, NewQueue
  <2>3. pc[w] = "work" /\ task[w] = Roots /\ Roots # None
    BY NoneAssumption DEF Init
  <2>4. pc[w] \notin IdlePcs /\ pc[w] \notin ThiefPcs
    BY <2>3 DEF IdlePcs, OfferPcs, ThiefPcs
  <2> QED BY <2>2, <2>3, <2>4 DEF OwnerInv, ThiefInv
<1>3. OfferInv
  <2>1. \A w \in Workers : pc[w] \notin OfferPcs
    BY DEF Init, OfferPcs
  <2>2. {w \in Workers : pc[w] \in OfferPcs} = {}
    BY <2>1
  <2> QED BY <2>2, FS_EmptySet DEF OfferInv, Init
<1> QED BY <1>1, <1>2, <1>3 DEF Inv

\* Every step keeps the invariant.
LEMMA InvStep ==
  ASSUME TagsLast, Inv, [Next]_vars
  PROVE  Inv'
<1>1. CASE Next
  <2>1. PICK w \in Workers : Step(w) \/ Drain(w)
    BY <1>1 DEF Next
  <2>2. TypeOK' /\ AllKept /\ OfferInv'
    BY <2>1, QueueStep, OfferStep
  <2>3. ASSUME NEW x \in Workers PROVE QueueInv(Q(x)') /\ OwnerInv(x)' /\ ThiefInv(x)'
    BY <2>1, <2>2, OwnerStep, ThiefStep DEF AllKept, Kept
  <2> QED BY <2>2, <2>3 DEF Inv
<1>2. CASE UNCHANGED vars
  <2>1. /\ UNCHANGED <<_bottom, _age, _elems, buf, overflow, _offered_termination, pc, back>>
        /\ UNCHANGED <<task, localBot, oldAge, victim, tries, next, found>>
    BY <1>2 DEF vars, queues, popVars, stealVars
  <2>2. TypeOK' /\ OfferInv'
    BY <2>1 DEF Inv, TypeOK, OfferInv
  <2>3. ASSUME NEW x \in Workers PROVE QueueInv(Q(x)') /\ OwnerInv(x)' /\ ThiefInv(x)'
    <3>1. Q(x)' = Q(x) /\ \A v \in Workers : Q(v)' = Q(v)
      BY <2>1 DEF Q
    <3>2. QueueInv(Q(x)) /\ OwnerInv(x) /\ ThiefInv(x) /\ victim[x] \in Workers
      BY DEF Inv, TypeOK
    <3>3. OwnerInv(x)'
      BY <2>1, <3>1, <3>2 DEF OwnerInv
    <3>4. ThiefInv(x)'
      BY <2>1, <3>2 DEF ThiefInv, Q
    <3> QED BY <3>1, <3>2, <3>3, <3>4
  <2> QED BY <2>2, <2>3 DEF Inv
<1> QED BY <1>1, <1>2

\* The invariant holds in every state.
LEMMA Invariance ==
  ASSUME TagsLast
  PROVE  Spec => []Inv
<1>1. Init => Inv
  BY InitInv
<1>2. Inv /\ [Next]_vars => Inv'
  BY InvStep
<1> QED BY <1>1, <1>2, PTL DEF Spec

\* The asserts of taskqueue.hpp and psPromotionManager.cpp hold for any number
\* of workers and any length of the arrays, as long as tags do not come back:
\* indexes stay in range, the owner never sees its bottom just below its top
\* outside of a pop, a worker that leaves drain_stacks_depth has both stacks
\* empty, and _offered_termination counts the workers in offer_termination.
THEOREM AssertsHold ==
  ASSUME TagsLast
  PROVE  Spec => []Asserts
<1>1. Spec => []Inv
  BY Invariance
<1>2. Inv => Asserts
  BY InvAsserts
<1> QED BY <1>1, <1>2, PTL

-----------------------------------------------------------------------------
(* The pool of work that the queues implement.                             *)

Current(w) == IF pc[w] = "work" THEN task[w] ELSE None

\* The contents that TaskQueue maps to the pool are those of the queues.
LEMMA ContentsIs ==
  ASSUME NEW w
  PROVE  Contents(w) = Content(Q(w)) /\ Contents(w)' = Content(Q(w)')
<1>1. Contents(w) = Content(Q(w))
  BY DEF Contents, Content, Count, End, Top, AgeOf, BottomOf, ElemOf, Q, ownAge, ownBottom, ownElem
<1>2. Contents(w)' = Content(Q(w)')
  BY DEF Contents, Content, Count, End, Top, AgeOf, BottomOf, ElemOf, Q, ownAge, ownBottom, ownElem
<1> QED BY <1>1, <1>2

\* Functions on the workers that differ in one place.
LEMMA OneChange ==
  ASSUME NEW f, NEW g, NEW w \in Workers, NEW e, f = [x \in Workers |-> f[x]],
         g = [x \in Workers |-> g[x]],
         g[w] = e, \A x \in Workers \ {w} : g[x] = f[x]
  PROVE  g = [f EXCEPT ![w] = e]
OBVIOUS

deque == [w \in Workers |-> Contents(w)]
current == [w \in Workers |-> IF pc[w] = "work" THEN task[w] ELSE None]
stopped == {w \in Workers : pc[w] = "done"}

\* The deque and the current task of a worker in the pool.
LEMMA BarFacts ==
  ASSUME NEW w \in Workers
  PROVE  /\ deque[w] = Content(Q(w)) /\ deque'[w] = Content(Q(w)')
         /\ current[w] = Current(w) /\ current'[w] = Current(w)'
<1>1. deque[w] = Contents(w) /\ deque'[w] = Contents(w)'
  BY DEF deque
<1>2. current[w] = Current(w) /\ current'[w] = Current(w)'
  BY DEF current, Current
<1> QED BY <1>1, <1>2, ContentsIs

\* The deques and the current tasks of the pool are functions on the workers.
LEMMA BarFunctions ==
  /\ deque = [x \in Workers |-> deque[x]] /\ deque' = [x \in Workers |-> deque'[x]]
  /\ current = [x \in Workers |-> current[x]] /\ current' = [x \in Workers |-> current'[x]]
BY DEF deque, current

\* Queues with the same content are the same deques.
LEMMA DequeSame ==
  ASSUME \A v \in Workers : SameQueue(v)
  PROVE  deque' = deque
<1>1. \A v \in Workers : deque'[v] = deque[v]
  BY BarFacts DEF SameQueue
<1> QED BY <1>1, BarFunctions

\* A change of the content of one queue is a change of one deque.
LEMMA DequeChange ==
  ASSUME NEW w \in Workers, \A v \in Workers \ {w} : SameQueue(v)
  PROVE  deque' = [deque EXCEPT ![w] = Content(Q(w)')]
<1>1. deque'[w] = Content(Q(w)') /\ \A v \in Workers \ {w} : deque'[v] = deque[v]
  BY BarFacts DEF SameQueue
<1> QED BY <1>1, BarFunctions, OneChange

\* A step of a worker changes no current task but its own.
LEMMA CurrentChange ==
  ASSUME NEW w \in Workers, Others(w)
  PROVE  current' = [current EXCEPT ![w] = Current(w)']
<1>1. current'[w] = Current(w)' /\ \A v \in Workers \ {w} : current'[v] = current[v]
  BY BarFacts DEF Others, Current
<1> QED BY <1>1, BarFunctions, OneChange

\* A step of w that neither begins nor ends its work.
LEMMA CurrentSame ==
  ASSUME NEW w \in Workers, Others(w), Current(w)' = Current(w)
  PROVE  current' = current
<1>1. \A v \in Workers : current'[v] = current[v]
  BY BarFacts DEF Others, Current
<1> QED BY <1>1, BarFunctions

\* A step of a worker that does not stop stops no worker.
LEMMA StoppedSame ==
  ASSUME NEW w \in Workers, Others(w), pc[w] # "done", pc'[w] # "done"
  PROVE  stopped' = stopped
BY DEF Others, stopped

\* The actions of the pool, in these terms.
LEMMA PoolActions ==
  ASSUME NEW w, NEW t
  PROVE  /\ Pool!Add(w, t) <=>
              /\ current[w] # None
              /\ \/ deque' = [deque EXCEPT ![w] = Append(@, t)] /\ overflow' = overflow
                 \/ overflow' = [overflow EXCEPT ![w] = Append(@, t)] /\ deque' = deque
              /\ current' = current /\ stopped' = stopped
         /\ Pool!Finish(w) <=>
              /\ current[w] # None /\ current' = [current EXCEPT ![w] = None]
              /\ deque' = deque /\ overflow' = overflow /\ stopped' = stopped
         /\ Pool!TakePrivate(w) <=>
              /\ overflow[w] # <<>> /\ current[w] = None
              /\ current' = [current EXCEPT ![w] = overflow[w][Len(overflow[w])]]
              /\ overflow' = [overflow EXCEPT ![w] = SubSeq(@, 1, Len(@) - 1)]
              /\ deque' = deque /\ stopped' = stopped
         /\ Pool!TakeNewest(w) <=>
              /\ deque[w] # <<>> /\ current[w] = None
              /\ current' = [current EXCEPT ![w] = deque[w][Len(deque[w])]]
              /\ deque' = [deque EXCEPT ![w] = SubSeq(@, 1, Len(@) - 1)]
              /\ overflow' = overflow /\ stopped' = stopped
         /\ Pool!Stop(w) <=>
              /\ \A x \in Workers : current[x] = None /\ deque[x] = <<>> /\ overflow[x] = <<>>
              /\ stopped' = stopped \cup {w}
              /\ deque' = deque /\ overflow' = overflow /\ current' = current
         /\ UNCHANGED Pool!vars <=>
              deque' = deque /\ overflow' = overflow /\ current' = current /\ stopped' = stopped
<1>1. Pool!Add(w, t) <=>
        /\ current[w] # None
        /\ \/ deque' = [deque EXCEPT ![w] = Append(@, t)] /\ overflow' = overflow
           \/ overflow' = [overflow EXCEPT ![w] = Append(@, t)] /\ deque' = deque
        /\ current' = current /\ stopped' = stopped
  BY DEF Pool!Add, deque, current, stopped
<1>2. Pool!Finish(w) <=>
        /\ current[w] # None /\ current' = [current EXCEPT ![w] = None]
        /\ deque' = deque /\ overflow' = overflow /\ stopped' = stopped
  BY DEF Pool!Finish, deque, current, stopped
<1>3. Pool!TakePrivate(w) <=>
        /\ overflow[w] # <<>> /\ current[w] = None
        /\ current' = [current EXCEPT ![w] = overflow[w][Len(overflow[w])]]
        /\ overflow' = [overflow EXCEPT ![w] = SubSeq(@, 1, Len(@) - 1)]
        /\ deque' = deque /\ stopped' = stopped
  BY DEF Pool!TakePrivate, Pool!Take, deque, current, stopped
<1>4. Pool!TakeNewest(w) <=>
        /\ deque[w] # <<>> /\ current[w] = None
        /\ current' = [current EXCEPT ![w] = deque[w][Len(deque[w])]]
        /\ deque' = [deque EXCEPT ![w] = SubSeq(@, 1, Len(@) - 1)]
        /\ overflow' = overflow /\ stopped' = stopped
  BY DEF Pool!TakeNewest, Pool!Take, deque, current, stopped
<1>5. Pool!Stop(w) <=>
        /\ \A x \in Workers : current[x] = None /\ deque[x] = <<>> /\ overflow[x] = <<>>
        /\ stopped' = stopped \cup {w}
        /\ deque' = deque /\ overflow' = overflow /\ current' = current
  BY DEF Pool!Stop, deque, current, stopped
<1>6. UNCHANGED Pool!vars <=>
        deque' = deque /\ overflow' = overflow /\ current' = current /\ stopped' = stopped
  BY DEF Pool!vars, deque, current, stopped
<1> QED BY <1>1, <1>2, <1>3, <1>4, <1>5, <1>6

\* A step that takes the head of another deque is a steal of the pool.
LEMMA PoolSteal ==
  ASSUME NEW w, NEW v, w # v, deque[v] # <<>>, current[w] = None,
         current' = [current EXCEPT ![w] = Head(deque[v])],
         deque' = [deque EXCEPT ![v] = Tail(@)],
         overflow' = overflow, stopped' = stopped
  PROVE  Pool!StealOldest(w, v)
BY DEF Pool!StealOldest, Pool!Take, deque, current, stopped

\* Most steps are invisible: a drained store, the reads of pops and steals, a
\* pop or a steal that fails, an offer and its withdrawal.
LEMMA Invisible ==
  ASSUME NEW w \in Workers, Others(w), \A v \in Workers : SameQueue(v), overflow' = overflow,
         pc[w] \notin {"work", "done"}, pc'[w] \notin {"work", "done"}
  PROVE  UNCHANGED Pool!vars
<1>1. Current(w)' = Current(w)
  BY DEF Current
<1>2. deque' = deque /\ current' = current /\ stopped' = stopped
  BY <1>1, DequeSame, CurrentSame, StoppedSame
<1> QED BY <1>2, PoolActions

\* push adds a task to the pool.
LEMMA PushAdds ==
  ASSUME TagsLast, Inv, NEW w \in Workers, Push(w)
  PROVE  \E t \in Tasks : Pool!Add(w, t)
<1> DEFINE t == <<w, found[w] + 1>>
<1>1. TypeOK /\ TypeOK' /\ Others(w) /\ OwnerInv(w)
  BY QueueStep, OthersStep DEF Inv, Step
<1>2. t \in Tasks
  BY <1>1, NewTask DEF Push
<1>3. pc[w] = "work" /\ pc' = pc /\ task' = task
  BY DEF Push
<1>4. current[w] # None /\ current' = current /\ stopped' = stopped
  <2>1. Current(w) # None /\ Current(w)' = Current(w)
    BY <1>1, <1>3 DEF Current, OwnerInv
  <2> QED BY <1>1, <1>3, <2>1, BarFacts, CurrentSame, StoppedSame
<1>5. \/ deque' = [deque EXCEPT ![w] = Append(@, t)] /\ overflow' = overflow
      \/ overflow' = [overflow EXCEPT ![w] = Append(@, t)] /\ deque' = deque
  <2>1. CASE buf' = buf
    <3>1. deque' = deque
      BY <1>1, <2>1, QuietActions, QuietStep, DequeSame
    <3>2. overflow' = [overflow EXCEPT ![w] = Append(@, t)]
      <4>1. found'[w] = found[w] + 1
        BY <1>1 DEF Push, TypeOK
      <4>2. ASSUME buf' = [buf EXCEPT ![w] = Append(Append(@, Elem(ownBottom(w), t)),
                                                  Bottom(increment_index(ownBottom(w))))]
            PROVE  FALSE
        <5>1. buf[w] \in Seq(Stores) /\ buf'[w] = Append(Append(buf[w], Elem(ownBottom(w), t)),
                                                        Bottom(increment_index(ownBottom(w))))
          BY <1>1, <4>2 DEF TypeOK
        <5>2. ASSUME NEW b \in Seq(Stores), NEW c, NEW d, b = Append(Append(b, c), d) PROVE FALSE
          BY SMTT(30), <5>2
        <5> QED BY <2>1, <5>1, <5>2
      <4> QED BY <4>1, <4>2 DEF Push
    <3> QED BY <3>1, <3>2
  <2>2. CASE buf' # buf
    <3>1. /\ \A v \in Workers \ {w} : SameQueue(v)
          /\ Content(Q(w)') = Append(Content(Q(w)), t) /\ overflow' = overflow
      BY <1>1, <2>2, PushStep
    <3>2. deque' = [deque EXCEPT ![w] = Append(Content(Q(w)), t)]
      BY <3>1, DequeChange
    <3>3. deque[w] = Content(Q(w))
      BY BarFacts
    <3> QED BY <3>1, <3>2, <3>3
  <2> QED BY <2>1, <2>2
<1>6. Pool!Add(w, t)
  BY <1>4, <1>5, PoolActions
<1> QED BY <1>2, <1>6

\* The end of the work on a task finishes it in the pool.
LEMMA ProcessedFinishes ==
  ASSUME TagsLast, Inv, NEW w \in Workers, Processed(w)
  PROVE  Pool!Finish(w)
<1>1. TypeOK /\ TypeOK' /\ Others(w) /\ OwnerInv(w)
  BY QueueStep, OthersStep DEF Inv, Step
<1>2. pc[w] = "work" /\ pc'[w] \notin {"work", "done"} /\ overflow' = overflow
  <2>1. pc \in [Workers -> Pcs] /\ back[w] \in {"overflow", "local"}
    BY <1>1 DEF TypeOK
  <2>2. pc'[w] = back[w]
    BY <2>1 DEF Processed, Goto
  <2> QED BY <2>1, <2>2 DEF Processed
<1>3. Current(w) # None /\ Current(w)' = None
  BY <1>1, <1>2 DEF Current, OwnerInv
<1>4. current[w] # None /\ current' = [current EXCEPT ![w] = None]
  BY <1>1, <1>3, BarFacts, CurrentChange
<1>5. deque' = deque /\ stopped' = stopped
  BY <1>1, <1>2, QuietActions, QuietStep, DequeSame, StoppedSame
<1> QED BY <1>2, <1>4, <1>5, PoolActions

\* The step in which a pop or a steal has got the task t.
LEMMA GotTask ==
  ASSUME TypeOK, NEW w \in Workers, Others(w), NEW t, NEW l, Got(w, t, l), pc[w] \notin {"work", "done"}
  PROVE  current[w] = None /\ current' = [current EXCEPT ![w] = t] /\ stopped' = stopped
<1>1. pc'[w] = "work" /\ task'[w] = t
  <2>1. pc \in [Workers -> Pcs] /\ task \in [Workers -> Tasks \cup {Roots, None}]
    BY DEF TypeOK
  <2> QED BY <2>1 DEF Got, Goto
<1>2. Current(w) = None /\ Current(w)' = t
  BY <1>1 DEF Current
<1> QED BY <1>1, <1>2, BarFacts, CurrentChange, StoppedSame

\* pop_overflow takes a private task of the pool, or nothing.
LEMMA OverflowTakes ==
  ASSUME TagsLast, Inv, NEW w \in Workers, pop_overflow(w)
  PROVE  Pool!TakePrivate(w) \/ UNCHANGED Pool!vars
<1>1. TypeOK /\ TypeOK' /\ Others(w)
  BY QueueStep, OthersStep DEF Inv, Step
<1>2. \A v \in Workers : SameQueue(v)
  BY <1>1, QuietActions, QuietStep
<1>3. pc[w] = "overflow" /\ pc[w] \notin {"work", "done"}
  BY DEF pop_overflow
<1>4. CASE overflow[w] = <<>>
  <2>1. pc'[w] = "local" /\ overflow' = overflow
    BY <1>1, <1>4 DEF pop_overflow, Goto, TypeOK
  <2> QED BY <1>1, <1>2, <1>3, <2>1, Invisible
<1>5. CASE overflow[w] # <<>>
  <2>1. /\ Got(w, overflow[w][Len(overflow[w])], "overflow")
        /\ overflow' = [overflow EXCEPT ![w] = SubSeq(@, 1, Len(@) - 1)]
    BY <1>5 DEF pop_overflow
  <2>2. /\ current[w] = None /\ current' = [current EXCEPT ![w] = overflow[w][Len(overflow[w])]]
        /\ stopped' = stopped
    BY <1>1, <1>3, <2>1, GotTask
  <2>3. deque' = deque
    BY <1>2, DequeSame
  <2> QED BY <1>5, <2>1, <2>2, <2>3, PoolActions
<1> QED BY <1>4, <1>5

\* The newest task of w's queue has left it, and w is at work on it.
LEMMA NewestTaken ==
  ASSUME TypeOK, NEW w \in Workers, Others(w), NEW t, NEW l, Got(w, t, l),
         pc[w] \notin {"work", "done"}, \A v \in Workers \ {w} : SameQueue(v),
         Content(Q(w)) # <<>>, Content(Q(w))[Len(Content(Q(w)))] = t,
         Content(Q(w)') = SubSeq(Content(Q(w)), 1, Len(Content(Q(w))) - 1),
         overflow' = overflow
  PROVE  Pool!TakeNewest(w)
<1>1. current[w] = None /\ current' = [current EXCEPT ![w] = t] /\ stopped' = stopped
  BY GotTask
<1>2. deque[w] = Content(Q(w))
  BY BarFacts
<1>3. deque' = [deque EXCEPT ![w] = SubSeq(deque[w], 1, Len(deque[w]) - 1)]
  BY <1>2, DequeChange
<1> QED BY <1>1, <1>2, <1>3, PoolActions

\* pop_local takes the newest task of the deque of its owner, or nothing.
LEMMA PopTakes ==
  ASSUME TagsLast, Inv, NEW w \in Workers, Reread(w) \/ pop_local_slow(w)
  PROVE  Pool!TakeNewest(w) \/ UNCHANGED Pool!vars
<1>1. TypeOK /\ TypeOK' /\ Others(w)
  BY QueueStep, OthersStep DEF Inv, Step
<1>2. CASE Reread(w)
  <2>1. pc[w] \notin {"work", "done"} /\ overflow' = overflow
    BY <1>2 DEF Reread
  <2>2. CASE size(localBot[w], _age[w].top) > 0
    <3>1. Got(w, _elems[w][localBot[w]], "local")
      BY <1>2, <2>2 DEF Reread
    <3>2. /\ \A v \in Workers \ {w} : SameQueue(v)
          /\ Content(Q(w)) # <<>> /\ Content(Q(w))[Len(Content(Q(w)))] = _elems[w][localBot[w]]
          /\ Content(Q(w)') = SubSeq(Content(Q(w)), 1, Len(Content(Q(w))) - 1)
      BY <1>1, <1>2, <2>2, TakenStep
    <3> QED BY <1>1, <2>1, <3>1, <3>2, NewestTaken
  <2>3. CASE ~(size(localBot[w], _age[w].top) > 0)
    <3>1. Goto(w, "slow") /\ pc \in [Workers -> Pcs]
      BY <1>1, <1>2, <2>3 DEF Reread, TypeOK
    <3>2. pc'[w] = "slow"
      BY <3>1 DEF Goto
    <3>3. \A v \in Workers : SameQueue(v)
      BY <1>1, <1>2, <2>3, PopStep
    <3> QED BY <1>1, <2>1, <3>2, <3>3, Invisible
  <2> QED BY <2>2, <2>3
<1>3. CASE pop_local_slow(w)
  <2>1. pc[w] \notin {"work", "done"} /\ overflow' = overflow
    BY <1>3 DEF pop_local_slow
  <2>2. CASE _age[w] = oldAge[w]
    <3>1. Got(w, _elems[w][localBot[w]], "local")
      BY <1>3, <2>2 DEF pop_local_slow
    <3>2. /\ \A v \in Workers \ {w} : SameQueue(v)
          /\ Content(Q(w)) # <<>> /\ Content(Q(w))[Len(Content(Q(w)))] = _elems[w][localBot[w]]
          /\ Content(Q(w)') = SubSeq(Content(Q(w)), 1, Len(Content(Q(w))) - 1)
      BY <1>1, <1>3, <2>2, CasStep
    <3> QED BY <1>1, <2>1, <3>1, <3>2, NewestTaken
  <2>3. CASE _age[w] # oldAge[w]
    <3>1. Goto(w, "drained") /\ pc \in [Workers -> Pcs]
      BY <1>1, <1>3, <2>3 DEF pop_local_slow, Lose, TypeOK
    <3>2. pc'[w] = "drained"
      BY <3>1 DEF Goto
    <3>3. \A v \in Workers : SameQueue(v)
      BY <1>1, <1>3, <2>3, LoseStep
    <3> QED BY <1>1, <2>1, <3>2, <3>3, Invisible
  <2> QED BY <2>2, <2>3
<1> QED BY <1>2, <1>3

\* pop_global takes the oldest task of the deque of a victim, or nothing.
LEMMA GlobalSteals ==
  ASSUME TagsLast, Inv, NEW w \in Workers, pop_global(w)
  PROVE  (\E v \in Workers : Pool!StealOldest(w, v)) \/ UNCHANGED Pool!vars
<1>1. TypeOK /\ TypeOK' /\ Others(w)
  BY QueueStep, OthersStep DEF Inv, Step
<1>2. pc[w] \notin {"work", "done"} /\ overflow' = overflow
  BY DEF pop_global
<1>3. CASE _age[victim[w]] = oldAge[w]
  <2>1. PICK v \in Workers : v = victim[w]
    BY <1>1 DEF TypeOK
  <2>2. /\ v # w /\ \A x \in Workers \ {v} : SameQueue(x)
        /\ Content(Q(v)) # <<>> /\ Head(Content(Q(v))) = task[w]
        /\ Content(Q(v)') = Tail(Content(Q(v)))
    BY <1>1, <1>3, <2>1, StolenStep
  <2>3. Got(w, task[w], "overflow")
    BY <1>3 DEF pop_global
  <2>4. current[w] = None /\ current' = [current EXCEPT ![w] = task[w]] /\ stopped' = stopped
    BY <1>1, <1>2, <2>3, GotTask
  <2>5. deque[v] = Content(Q(v))
    BY BarFacts
  <2>6. deque' = [deque EXCEPT ![v] = Tail(deque[v])]
    BY <2>2, <2>5, DequeChange
  <2>7. /\ w # v /\ deque[v] # <<>> /\ current' = [current EXCEPT ![w] = Head(deque[v])]
        /\ deque' = [deque EXCEPT ![v] = Tail(@)]
    BY <2>2, <2>4, <2>5, <2>6
  <2>8. Pool!StealOldest(w, v)
    BY <1>2, <2>4, <2>7, PoolSteal
  <2> QED BY <2>8
<1>4. CASE _age[victim[w]] # oldAge[w]
  <2>1. Goto(w, "steal")
    BY <1>4 DEF pop_global, Failed
  <2>2. pc'[w] = "steal"
    BY <1>1, <2>1 DEF Goto, TypeOK
  <2>3. \A v \in Workers : SameQueue(v)
    BY <1>1, <1>4, QuietActions, QuietStep
  <2> QED BY <1>1, <1>2, <2>2, <2>3, Invisible
<1> QED BY <1>3, <1>4

\* The other steps of the workers.
LEMMA OtherSteps ==
  ASSUME TagsLast, Inv, NEW w \in Workers,
         \/ pop_local(w) \/ ReadAge(w) \/ Drained(w) \/ steal(w) \/ ReadBottom(w) \/ ReadElem(w)
         \/ offer_termination(w) \/ PeekBottom(w) \/ PeekTop(w) \/ Withdraw(w)
  PROVE  UNCHANGED Pool!vars
<1>1. TypeOK /\ TypeOK' /\ Others(w)
  BY QueueStep, OthersStep DEF Inv, Step
<1>2. overflow' = overflow
  BY DEF pop_local, ReadAge, Drained, steal, ReadBottom, ReadElem, offer_termination, PeekBottom,
         PeekTop, Withdraw
<1>3. \A v \in Workers : SameQueue(v)
  BY <1>1, QuietActions, QuietStep, PopStep, LoseStep
<1>4. pc[w] \notin {"work", "done"}
  BY DEF pop_local, ReadAge, Drained, steal, ReadBottom, ReadElem, offer_termination, PeekBottom,
         PeekTop, Withdraw
<1>5. pc'[w] \notin {"work", "done"}
  <2>1. ASSUME NEW l, l \notin {"work", "done"}, Goto(w, l) PROVE pc'[w] \notin {"work", "done"}
    BY <1>1, <2>1 DEF Goto, TypeOK
  <2>2. CASE pop_local(w) \/ ReadAge(w)
    BY <2>1, <2>2 DEF pop_local, ReadAge, Lose
  <2>3. CASE Drained(w)
    BY <2>1, <2>3 DEF Drained
  <2>4. CASE steal(w) \/ ReadBottom(w) \/ ReadElem(w)
    BY <2>1, <2>4 DEF steal, ReadBottom, ReadElem, Failed
  <2>5. CASE offer_termination(w) \/ PeekBottom(w) \/ PeekTop(w) \/ Withdraw(w)
    BY <2>1, <2>5 DEF offer_termination, PeekBottom, PeekTop, Withdraw
  <2> QED BY <2>2, <2>3, <2>4, <2>5
<1> QED BY <1>1, <1>2, <1>3, <1>4, <1>5, Invisible

\* A store that reaches memory does not show in the pool.
LEMMA DrainInvisible ==
  ASSUME TagsLast, Inv, NEW w \in Workers, Drain(w)
  PROVE  UNCHANGED Pool!vars
<1>1. TypeOK'
  BY QueueStep
<1>2. pc' = pc /\ task' = task /\ overflow' = overflow
  BY DEF Drain
<1>3. deque' = deque
  BY <1>1, DrainStep, DequeSame
<1>4. current' = current /\ stopped' = stopped
  BY <1>2 DEF current, stopped
<1> QED BY <1>2, <1>3, <1>4, PoolActions

\* A worker is told to stop: all have offered, so nothing is left.
LEMMA CheckStops ==
  ASSUME TagsLast, Inv, NEW w \in Workers, Check(w)
  PROVE  Pool!Stop(w) \/ UNCHANGED Pool!vars
<1>1. TypeOK /\ TypeOK' /\ Others(w)
  BY QueueStep, OthersStep DEF Inv, Step
<1>2. pc[w] \notin {"work", "done"} /\ overflow' = overflow
  BY DEF Check
<1>3. \A v \in Workers : SameQueue(v)
  BY <1>1, QuietActions, QuietStep
<1>4. CASE _offered_termination = Cardinality(Workers)
  <2>1. pc'[w] = "done"
    <3>1. Goto(w, "done")
      BY <1>4 DEF Check
    <3> QED BY <1>1, <3>1 DEF Goto, TypeOK
  <2>2. \A v \in Workers : pc[v] \in OfferPcs
    <3> DEFINE S == {v \in Workers : pc[v] \in OfferPcs}
    <3>1. S \in SUBSET Workers /\ Cardinality(S) = Cardinality(Workers)
      BY <1>4 DEF Inv, OfferInv
    <3> HIDE DEF S
    <3>2. S = Workers
      BY <3>1, WorkersAssumption, FS_Subset
    <3> QED BY <3>2 DEF S
  <2>3. ASSUME NEW v \in Workers
        PROVE  current[v] = None /\ deque[v] = <<>> /\ overflow[v] = <<>>
    <3>1. QueueInv(Q(v)) /\ OwnerInv(v) /\ pc[v] \in IdlePcs /\ pc[v] # "work"
      BY <2>2, PcClasses DEF Inv
    <3>2. Count(Q(v)) = 0 /\ overflow[v] = <<>> /\ Current(v) = None
      BY <3>1 DEF OwnerInv, Current
    <3> QED BY <3>1, <3>2, ContentEmpty, BarFacts
  <2>4. deque' = deque /\ current' = current
    <3>1. Current(w)' = Current(w)
      BY <1>2, <2>1 DEF Current
    <3> QED BY <1>1, <1>3, <3>1, DequeSame, CurrentSame
  <2>5. stopped' = stopped \cup {w}
    <3>1. \A x \in Workers : pc'[x] = "done" <=> pc[x] = "done" \/ x = w
      BY <1>1, <2>1 DEF Others
    <3> QED BY <3>1 DEF stopped
  <2> QED BY <1>2, <2>3, <2>4, <2>5, PoolActions
<1>5. CASE _offered_termination # Cardinality(Workers)
  <2>1. Goto(w, "peek")
    BY <1>5 DEF Check
  <2>2. pc'[w] = "peek"
    BY <1>1, <2>1 DEF Goto, TypeOK
  <2> QED BY <1>1, <1>2, <1>3, <2>2, Invisible
<1> QED BY <1>4, <1>5

\* Every step of the task queues is a step of the pool or a stutter.
LEMMA PoolStep ==
  ASSUME TagsLast, Inv, [Next]_vars
  PROVE  [Pool!Next]_(Pool!vars)
<1>1. CASE Next
  <2>1. PICK w \in Workers : Step(w) \/ Drain(w)
    BY <1>1 DEF Next
  <2>2. CASE Push(w)
    BY <2>2, PushAdds DEF Pool!Next
  <2>3. CASE Processed(w)
    BY <2>3, ProcessedFinishes DEF Pool!Next
  <2>4. CASE pop_overflow(w)
    BY <2>4, OverflowTakes DEF Pool!Next
  <2>5. CASE Reread(w) \/ pop_local_slow(w)
    BY <2>5, PopTakes DEF Pool!Next
  <2>6. CASE pop_global(w)
    BY <2>6, GlobalSteals DEF Pool!Next
  <2>7. CASE Check(w)
    BY <2>7, CheckStops DEF Pool!Next
  <2>8. CASE Drain(w)
    BY <2>8, DrainInvisible
  <2>9. CASE \/ pop_local(w) \/ ReadAge(w) \/ Drained(w) \/ steal(w) \/ ReadBottom(w) \/ ReadElem(w)
             \/ offer_termination(w) \/ PeekBottom(w) \/ PeekTop(w) \/ Withdraw(w)
    BY <2>9, OtherSteps
  <2> QED BY <2>1, <2>2, <2>3, <2>4, <2>5, <2>6, <2>7, <2>8, <2>9 DEF Step
<1>2. CASE UNCHANGED vars
  <2>1. /\ UNCHANGED <<_bottom, _age, _elems, buf, overflow, pc, task, localBot, oldAge, found>>
    BY <1>2 DEF vars, queues, popVars
  <2>2. deque' = deque
    BY <2>1 DEF deque, Contents, ownBottom, ownAge, ownElem
  <2>3. current' = current /\ stopped' = stopped
    BY <2>1 DEF current, stopped
  <2> QED BY <2>1, <2>2, <2>3, PoolActions
<1> QED BY <1>1, <1>2

\* The task queues start as an empty pool.
LEMMA PoolInit ==
  ASSUME TagsLast, Init
  PROVE  Pool!Init
<1>1. \A w \in Workers : deque[w] = <<>> /\ current[w] = Roots
  <2> SUFFICES ASSUME NEW w \in Workers PROVE deque[w] = <<>> /\ current[w] = Roots
    OBVIOUS
  <2>1. /\ Q(w).buf = <<>> /\ Q(w).bottom = 0 /\ Q(w).age = NoAge /\ Q(w).pc = "work"
    BY Fields DEF Init
  <2>2. QueueInv(Q(w)) /\ Count(Q(w)) = 0
    BY <2>1, TypeInit, TypeOfQueue, NewQueue
  <2>3. Current(w) = Roots
    BY DEF Init, Current
  <2> QED BY <2>2, <2>3, ContentEmpty, BarFacts
<1>2. deque = [w \in Workers |-> <<>>] /\ current = [w \in Workers |-> Roots]
  BY <1>1, BarFunctions
<1>3. stopped = {}
  BY DEF stopped, Init
<1>4. overflow = [w \in Workers |-> <<>>]
  BY DEF Init
<1> QED BY <1>2, <1>3, <1>4 DEF Pool!Init, deque, current, stopped

\* The task queues, the overflow stacks and the terminator implement a pool of
\* work, for any number of workers and any length of the arrays, on x86's
\* memory, as long as tags do not come back: what pop_local, pop_local_slow
\* and pop_global return is the newest or the oldest task of the queue and
\* leaves it in that moment, so that no task is lost or taken twice; and
\* offer_termination returns true only when no task is left anywhere.
THEOREM PoolRefinement ==
  ASSUME TagsLast
  PROVE  Spec => ImplementsWorkPool
<1>1. Init => Pool!Init
  BY PoolInit
<1>2. Inv /\ [Next]_vars => [Pool!Next]_(Pool!vars)
  BY PoolStep
<1>3. Spec => []Inv
  BY Invariance
<1> QED BY <1>1, <1>2, <1>3, PTL DEF Spec, ImplementsWorkPool, Pool!Spec

=============================================================================
