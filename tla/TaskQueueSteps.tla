----------------------------- MODULE TaskQueueSteps -------------------------
(***************************************************************************)
(* What the steps of the workers do to the task queues, to their thieves   *)
(* and to their owners.                                                    *)
(***************************************************************************)
EXTENDS TaskQueueFacts

\* The prover of every leaf that does not name one.
USE ZenonT(60)

-----------------------------------------------------------------------------
(* What each step does to the queues.                                      *)

\* Every queue keeps its invariant, and the thieves what they rely on.
AllKept == \A v \in Workers : Kept(Q(v), Q(v)')

SameQueue(v) == Content(Q(v)') = Content(Q(v)) /\ Count(Q(v)') = Count(Q(v))

\* A queue none of whose parts changes is the same queue.
LEMMA Frame ==
  ASSUME NEW v, _bottom'[v] = _bottom[v], _age'[v] = _age[v], _elems'[v] = _elems[v],
         buf'[v] = buf[v], pc'[v] = pc[v], localBot'[v] = localBot[v],
         oldAge'[v] = oldAge[v], found'[v] = found[v]
  PROVE  Q(v)' = Q(v)
BY DEF Q

\* A queue that stays as it is is kept.
LEMMA KeptSelf ==
  ASSUME NEW q, QueueInv(q)
  PROVE  Kept(q, q)
BY DEF Kept

\* Steps of w that change no queue but its own.
LEMMA OwnStep ==
  ASSUME Inv, NEW w \in Workers, Kept(Q(w), Q(w)'),
         \A v \in Workers \ {w} : Q(v)' = Q(v)
  PROVE  AllKept /\ \A v \in Workers \ {w} : SameQueue(v)
<1>1. ASSUME NEW v \in Workers \ {w} PROVE Kept(Q(v), Q(v)') /\ SameQueue(v)
  <2>1. QueueInv(Q(v)) /\ Q(v)' = Q(v)
    BY DEF Inv
  <2> QED BY <2>1, KeptSelf DEF SameQueue
<1> QED BY <1>1 DEF AllKept

\* Steps of w outside of the pops that leave the queues alone.
Quiet(w) ==
  /\ _bottom' = _bottom /\ _age' = _age /\ _elems' = _elems /\ buf' = buf
  /\ pc[w] \notin PopPcs /\ pc'[w] \notin PopPcs /\ found[w] <= found'[w]
  /\ \A v \in Workers \ {w} : /\ pc'[v] = pc[v] /\ found'[v] = found[v]
                              /\ localBot'[v] = localBot[v] /\ oldAge'[v] = oldAge[v]

\* A step that touches no queue keeps every queue and its content.
LEMMA QuietStep ==
  ASSUME TagsLast, Inv, TypeOK', NEW w \in Workers, Quiet(w)
  PROVE  AllKept /\ \A v \in Workers : SameQueue(v)
<1>1. QueueInv(Q(w)) /\ QueueType(Q(w)')
  BY TypeOfQueuePrime DEF Inv
<1>2. /\ Kept(Q(w), Q(w)') /\ SameTasks(Q(w), Q(w)')
  <2>1. /\ Q(w)'.bottom = Q(w).bottom /\ Q(w)'.age = Q(w).age /\ Q(w)'.elems = Q(w).elems
        /\ Q(w)'.buf = Q(w).buf /\ Q(w).pc \notin PopPcs /\ Q(w)'.pc \notin PopPcs
        /\ Q(w).found <= Q(w)'.found
    <3>1. /\ _bottom'[w] = _bottom[w] /\ _age'[w] = _age[w] /\ _elems'[w] = _elems[w]
          /\ buf'[w] = buf[w] /\ pc[w] \notin PopPcs /\ pc'[w] \notin PopPcs
          /\ found[w] <= found'[w]
      BY DEF Quiet
    <3> QED BY SMTT(30), <3>1 DEF Q
  <2> QED BY <1>1, <2>1, KeptOutside DEF SameTasks
<1>3. \A v \in Workers \ {w} : Q(v)' = Q(v)
  BY Frame DEF Quiet
<1>4. SameQueue(w)
  BY <1>1, <1>2, ContentSame DEF SameQueue, SameTasks
<1> QED BY <1>2, <1>3, <1>4, OwnStep

\* The steps that touch no queue.
LEMMA QuietActions ==
  ASSUME TypeOK, NEW w \in Workers,
         \/ Processed(w) \/ pop_overflow(w) \/ Drained(w) \/ steal(w) \/ ReadBottom(w)
         \/ ReadElem(w) \/ (pop_global(w) /\ _age[victim[w]] # oldAge[w])
         \/ offer_termination(w) \/ Check(w) \/ PeekBottom(w) \/ PeekTop(w) \/ Withdraw(w)
         \/ (pop_local(w) /\ Count(Q(w)) = 0)
         \/ (Push(w) /\ buf' = buf)
  PROVE  Quiet(w)
<1>1. ASSUME pc[w] \notin PopPcs, NEW l, l \notin PopPcs, Goto(w, l)
      PROVE  pc'[w] \notin PopPcs /\ \A v \in Workers \ {w} : pc'[v] = pc[v]
  BY <1>1 DEF Goto, TypeOK
<1>2. ASSUME Forget(w)
      PROVE  \A v \in Workers \ {w} : localBot'[v] = localBot[v] /\ oldAge'[v] = oldAge[v]
  BY <1>2 DEF Forget, TypeOK
<1>3. found[w] <= found[w] /\ found[w] <= found[w] + 1
  <2>1. found[w] \in Nat
    BY DEF TypeOK
  <2> QED BY SMTT(30), <2>1
<1>4. CASE Processed(w)
  <2>1. back[w] \notin PopPcs /\ pc[w] \notin PopPcs
    BY <1>4 DEF TypeOK, PopPcs, Processed
  <2> QED BY <1>1, <1>3, <1>4, <2>1 DEF Processed, Quiet, queues, popVars
<1>5. CASE pop_overflow(w)
  <2>1. pc[w] \notin PopPcs /\ "local" \notin PopPcs /\ "work" \notin PopPcs
    BY <1>5 DEF PopPcs, pop_overflow
  <2> QED BY <1>1, <1>2, <1>3, <1>5, <2>1 DEF pop_overflow, Got, Quiet, queues, popVars
<1>6. CASE Drained(w)
  <2>1. pc[w] \notin PopPcs /\ "overflow" \notin PopPcs /\ "steal" \notin PopPcs
    BY <1>6 DEF PopPcs, Drained
  <2> QED BY <1>1, <1>3, <1>6, <2>1 DEF Drained, Quiet, queues, popVars
<1>7. CASE steal(w)
  <2>1. pc[w] \notin PopPcs /\ "readBottom" \notin PopPcs /\ "offer" \notin PopPcs
    BY <1>7 DEF PopPcs, steal
  <2>2. pc'[w] \notin PopPcs /\ \A v \in Workers \ {w} : pc'[v] = pc[v]
    BY <1>1, <1>7, <2>1 DEF steal
  <2>3. \A v \in Workers \ {w} : oldAge'[v] = oldAge[v]
    BY <1>7 DEF steal, TypeOK
  <2> QED BY <1>3, <1>7, <2>1, <2>2, <2>3 DEF steal, Quiet, queues
<1>8. CASE Failed(w) /\ pc[w] \in ThiefPcs /\ UNCHANGED <<queues, buf, found>>
  <2>1. pc[w] \notin PopPcs /\ "steal" \notin PopPcs
    BY <1>8 DEF PopPcs, ThiefPcs
  <2> QED BY <1>1, <1>2, <1>3, <1>8, <2>1 DEF Failed, Quiet, queues
<1>9. CASE ReadBottom(w)
  <2>1. CASE Failed(w)
    BY <1>8, <1>9, <2>1 DEF ReadBottom, ThiefPcs
  <2>2. CASE Goto(w, "readElem") /\ UNCHANGED <<back, task, popVars, stealVars>>
    <3>1. pc[w] \notin PopPcs /\ "readElem" \notin PopPcs
      BY <1>9 DEF PopPcs, ReadBottom
    <3> QED BY <1>1, <1>3, <1>9, <2>2, <3>1 DEF ReadBottom, Quiet, queues, popVars
  <2> QED BY <1>9, <2>1, <2>2 DEF ReadBottom
<1>10. CASE ReadElem(w)
  <2>1. pc[w] \notin PopPcs /\ "casTop" \notin PopPcs
    BY <1>10 DEF PopPcs, ReadElem
  <2> QED BY <1>1, <1>3, <1>10, <2>1 DEF ReadElem, Quiet, queues, popVars
<1>11. CASE pop_global(w) /\ _age[victim[w]] # oldAge[w]
  BY <1>8, <1>11 DEF pop_global, ThiefPcs, queues
<1>12. CASE offer_termination(w) \/ Check(w) \/ Withdraw(w)
  <2>1. /\ pc[w] \notin PopPcs /\ "check" \notin PopPcs /\ "done" \notin PopPcs
        /\ "peek" \notin PopPcs /\ "steal" \notin PopPcs
    BY <1>12 DEF PopPcs, offer_termination, Check, Withdraw
  <2> QED BY <1>1, <1>3, <1>12, <2>1 DEF offer_termination, Check, Withdraw, Quiet, queues, popVars
<1>13. CASE PeekBottom(w)
  <2>1. pc[w] \notin PopPcs /\ "check" \notin PopPcs /\ "peekTop" \notin PopPcs
    BY <1>13 DEF PopPcs, PeekBottom
  <2>2. pc'[w] \notin PopPcs /\ \A v \in Workers \ {w} : pc'[v] = pc[v]
    BY <1>1, <1>13, <2>1 DEF PeekBottom
  <2>3. \A v \in Workers \ {w} : localBot'[v] = localBot[v]
    BY <1>13 DEF PeekBottom, TypeOK
  <2> QED BY <1>3, <1>13, <2>1, <2>2, <2>3 DEF PeekBottom, Quiet, queues
<1>14. CASE PeekTop(w)
  <2>1. pc[w] \notin PopPcs /\ "withdraw" \notin PopPcs /\ "peek" \notin PopPcs
    BY <1>14 DEF PopPcs, PeekTop
  <2>2. pc'[w] \notin PopPcs /\ \A v \in Workers \ {w} : pc'[v] = pc[v]
    BY <1>1, <1>14, <2>1 DEF PeekTop
  <2> QED BY <1>2, <1>3, <1>14, <2>1, <2>2 DEF PeekTop, Quiet, queues
<1>15. CASE pop_local(w) /\ Count(Q(w)) = 0
  <2>1. pc[w] \notin PopPcs /\ "drained" \notin PopPcs
    BY <1>15 DEF PopPcs, pop_local
  <2>2. Goto(w, "drained") /\ buf' = buf /\ localBot' = localBot
    BY <1>15, <2>1, OwnViews DEF pop_local
  <2> QED BY <1>1, <1>3, <1>15, <2>1, <2>2 DEF pop_local, Quiet, queues
<1>16. CASE Push(w) /\ buf' = buf
  <2>1. pc[w] \notin PopPcs
    BY <1>16 DEF PopPcs, Push
  <2>2. found'[w] = found[w] + 1 /\ \A v \in Workers \ {w} : found'[v] = found[v]
    BY <1>16 DEF Push, TypeOK
  <2> QED BY <1>3, <1>16, <2>1, <2>2 DEF Push, Quiet, queues, popVars
<1> QED BY <1>4, <1>5, <1>6, <1>7, <1>9, <1>10, <1>11, <1>12, <1>13, <1>14, <1>15, <1>16


\* push keeps every queue, and adds its task to the content of its own.
LEMMA PushStep ==
  ASSUME TagsLast, Inv, TypeOK', NEW w \in Workers, Push(w), buf' # buf
  PROVE  /\ AllKept /\ \A v \in Workers \ {w} : SameQueue(v)
         /\ Content(Q(w)') = Append(Content(Q(w)), <<w, found[w] + 1>>)
         /\ overflow' = overflow
<1> DEFINE t == <<w, found[w] + 1>>
<1>1. TypeOK /\ QueueInv(Q(w)) /\ QueueType(Q(w)')
  BY TypeOfQueuePrime DEF Inv
<1>2. /\ pc[w] = "work" /\ pc' = pc /\ found'[w] = found[w] + 1
      /\ \A v \in Workers \ {w} : found'[v] = found[v]
  BY <1>1 DEF Push, TypeOK
<1>3. t \in Tasks
  BY <1>1, NewTask DEF Push
<1>4. /\ overflow' = overflow
      /\ dirty_size(ownBottom(w), ownAge(w).top) < max_elems \/ dirty_size(ownBottom(w), ownAge(w).top) = N - 1
      /\ buf' = [buf EXCEPT ![w] =
                   Append(Append(@, Elem(ownBottom(w), t)), Bottom(increment_index(ownBottom(w))))]
  BY <1>2 DEF Push
<1>5. Count(Q(w)) < N - 2
  <2>1. Count(Q(w)) < N - 2 \/ Count(Q(w)) = N - 1
    BY <1>2, <1>4, OwnViews DEF PopPcs, max_elems
  <2>2. Count(Q(w)) \in Nat /\ Count(Q(w)) <= N - 2
    BY <1>1, ViewFacts DEF QueueInv, SizeInv
  <2> QED BY SMTT(30), <2>1, <2>2, NAssumption
<1>6. /\ buf'[w] = Append(Append(buf[w], Elem(BottomOf(Q(w)), t)), Bottom(increment_index(BottomOf(Q(w)))))
      /\ \A v \in Workers \ {w} : buf'[v] = buf[v]
  BY <1>1, <1>4, OwnViews DEF TypeOK
<1>7. \A v \in Workers \ {w} : Q(v)' = Q(v)
  BY <1>2, <1>6, Frame DEF Push, queues, popVars
<1>8. /\ Q(w)'.bottom = Q(w).bottom /\ Q(w)'.age = Q(w).age /\ Q(w)'.elems = Q(w).elems
      /\ Q(w)'.localBot = Q(w).localBot /\ Q(w)'.oldAge = Q(w).oldAge
      /\ Q(w).pc = "work" /\ Q(w)'.pc = "work" /\ Q(w)'.found = Q(w).found + 1
  <2>1. /\ _bottom' = _bottom /\ _age' = _age /\ _elems' = _elems
        /\ localBot' = localBot /\ oldAge' = oldAge
    BY DEF Push, queues, popVars
  <2> QED BY SMTT(30), <1>2, <2>1 DEF Q
<1>9. Q(w)'.buf = Append(Append(Q(w).buf, Elem(BottomOf(Q(w)), t)), Bottom(increment_index(BottomOf(Q(w)))))
  BY <1>6, Fields, FieldsPrime
<1>10. 2 * Q(w)'.found < TagValues
  BY <1>1 DEF QueueType
<1>11. /\ Kept(Q(w), Q(w)') /\ Top(Q(w)') = Top(Q(w)) /\ Count(Q(w)') = Count(Q(w)) + 1
       /\ \A i \in Index : ElemOf(Q(w)', i) = IF i = BottomOf(Q(w)) THEN t ELSE ElemOf(Q(w), i)
  <2> HIDE DEF t
  <2> QED BY <1>1, <1>3, <1>5, <1>8, <1>9, <1>10, KeptPush
<1>12. Content(Q(w)') = Append(Content(Q(w)), t)
  <2>1. QueueInv(Q(w)')
    BY <1>11 DEF Kept
  <2> HIDE DEF t
  <2> QED BY SMTT(30), <1>1, <1>3, <1>8, <1>11, <2>1, ContentPush
<1> QED BY <1>4, <1>7, <1>11, <1>12, OwnStep

\* Steps of a pop that move no task: the bottom is lowered, the slow path is
\* entered, the age is read again.
LEMMA PopStep ==
  ASSUME TagsLast, Inv, TypeOK', NEW w \in Workers,
         \/ pop_local(w) /\ Count(Q(w)) # 0
         \/ Reread(w) /\ ~(size(localBot[w], _age[w].top) > 0)
         \/ ReadAge(w) /\ localBot[w] = _age[w].top
  PROVE  AllKept /\ \A v \in Workers : SameQueue(v)
<1>1. TypeOK /\ QueueInv(Q(w))
  BY DEF Inv
<1>2. /\ _bottom' = _bottom /\ _age' = _age /\ _elems' = _elems /\ found' = found
  BY DEF pop_local, Reread, ReadAge, queues, popVars
<1>3. /\ Q(w)'.bottom = Q(w).bottom /\ Q(w)'.age = Q(w).age /\ Q(w)'.elems = Q(w).elems
      /\ Q(w)'.found = Q(w).found
  BY SMTT(30), <1>2 DEF Q
<1>4. ASSUME NEW l, Goto(w, l)
      PROVE  Q(w)'.pc = l /\ \A v \in Workers \ {w} : pc'[v] = pc[v]
  BY <1>1, <1>4, FieldsPrime DEF Goto, TypeOK
<1>5. CASE pop_local(w) /\ Count(Q(w)) # 0
  <2>1. pc[w] = "local" /\ pc[w] \notin PopPcs
    BY <1>5 DEF pop_local, PopPcs
  <2>2. /\ localBot' = [localBot EXCEPT ![w] = decrement_index(ownBottom(w))]
        /\ buf' = [buf EXCEPT ![w] = Append(@, Bottom(localBot'[w]))]
        /\ Goto(w, "fence") /\ oldAge' = oldAge
    BY <1>5, <2>1, OwnViews DEF pop_local
  <2>3. /\ localBot'[w] = decrement_index(BottomOf(Q(w)))
        /\ \A v \in Workers \ {w} : localBot'[v] = localBot[v]
    BY <1>1, <2>2, OwnViews DEF TypeOK
  <2>4. /\ buf'[w] = Append(buf[w], Bottom(localBot'[w]))
        /\ \A v \in Workers \ {w} : buf'[v] = buf[v]
    BY <1>1, <2>2 DEF TypeOK
  <2>5. \A v \in Workers \ {w} : Q(v)' = Q(v)
    BY <1>2, <1>4, <2>2, <2>3, <2>4, Frame
  <2>6. /\ Q(w).pc = "local" /\ Q(w)'.pc = "fence" /\ Q(w)'.oldAge = Q(w).oldAge
        /\ Q(w)'.localBot = decrement_index(BottomOf(Q(w)))
        /\ Q(w)'.buf = Append(Q(w).buf, Bottom(Q(w)'.localBot))
    <3>1. Q(w).pc = "local" /\ Q(w)'.pc = "fence"
      BY <1>4, <2>1, <2>2, Fields
    <3>2. Q(w)'.oldAge = Q(w).oldAge /\ Q(w)'.localBot = decrement_index(BottomOf(Q(w)))
      BY SMTT(30), <2>2, <2>3 DEF Q
    <3>3. Q(w)'.buf = Append(Q(w).buf, Bottom(Q(w)'.localBot))
      BY <2>4, Fields, FieldsPrime
    <3> QED BY <3>1, <3>2, <3>3
  <2>7. Kept(Q(w), Q(w)') /\ SameTasks(Q(w), Q(w)')
    BY <1>1, <1>3, <1>5, <2>6, KeptPop DEF SameTasks
  <2>8. SameQueue(w)
    BY <1>1, <2>7, ContentSame DEF SameQueue, SameTasks
  <2> QED BY <2>5, <2>7, <2>8, OwnStep
<1>6. CASE Reread(w) /\ ~(size(localBot[w], _age[w].top) > 0)
  <2>1. /\ pc[w] = "fence" /\ buf[w] = <<>> /\ buf' = buf /\ localBot' = localBot
        /\ oldAge' = oldAge /\ Goto(w, "slow")
    BY <1>6 DEF Reread, Fenced, popVars
  <2>2. \A v \in Workers \ {w} : Q(v)' = Q(v)
    BY <1>2, <1>4, <2>1, Frame
  <2>3. /\ Q(w).pc = "fence" /\ Q(w).buf = <<>> /\ Q(w)'.buf = Q(w).buf
        /\ Q(w)'.localBot = Q(w).localBot /\ Q(w)'.oldAge = Q(w).oldAge
        /\ ~(size(Q(w).localBot, Q(w).age.top) > 0)
    BY SMTT(30), <1>6, <2>1 DEF Q
  <2>4. Q(w)'.pc = "slow"
    BY <1>4, <2>1
  <2>5. Kept(Q(w), Q(w)') /\ SameTasks(Q(w), Q(w)')
    BY SMTT(30), <1>1, <1>3, <2>3, <2>4, KeptSlow DEF SameTasks
  <2>6. SameQueue(w)
    BY <1>1, <2>5, ContentSame DEF SameQueue, SameTasks
  <2> QED BY <2>2, <2>5, <2>6, OwnStep
<1>7. CASE ReadAge(w) /\ localBot[w] = _age[w].top
  <2>1. /\ pc[w] = "slow" /\ buf' = buf /\ localBot' = localBot
        /\ oldAge' = [oldAge EXCEPT ![w] = _age[w]] /\ Goto(w, "cas")
    BY <1>7 DEF ReadAge
  <2>2. oldAge'[w] = _age[w] /\ \A v \in Workers \ {w} : oldAge'[v] = oldAge[v]
    BY <1>1, <2>1 DEF TypeOK
  <2>3. \A v \in Workers \ {w} : Q(v)' = Q(v)
    BY <1>2, <1>4, <2>1, <2>2, Frame
  <2>4. /\ Q(w).pc = "slow" /\ Q(w)'.buf = Q(w).buf
        /\ Q(w)'.localBot = Q(w).localBot /\ Q(w)'.oldAge = Q(w).age
        /\ Q(w).localBot = Q(w).age.top
    BY SMTT(30), <1>7, <2>1, <2>2 DEF Q
  <2>5. Q(w)'.pc = "cas" /\ Q(w).buf = <<>>
    BY <1>1, <1>4, <2>1, <2>4 DEF QueueInv, PopInv
  <2>6. Kept(Q(w), Q(w)') /\ SameTasks(Q(w), Q(w)')
    BY SMTT(30), <1>1, <1>3, <2>4, <2>5, KeptSlow DEF SameTasks
  <2>7. SameQueue(w)
    BY <1>1, <2>6, ContentSame DEF SameQueue, SameTasks
  <2> QED BY <2>3, <2>6, <2>7, OwnStep
<1> QED BY <1>5, <1>6, <1>7


\* pop_local got its task without contention.
LEMMA TakenStep ==
  ASSUME TagsLast, Inv, TypeOK', NEW w \in Workers, Reread(w), size(localBot[w], _age[w].top) > 0
  PROVE  /\ AllKept /\ \A v \in Workers \ {w} : SameQueue(v)
         /\ Content(Q(w)) # <<>>
         /\ Content(Q(w))[Len(Content(Q(w)))] = _elems[w][localBot[w]]
         /\ Content(Q(w)') = SubSeq(Content(Q(w)), 1, Len(Content(Q(w))) - 1)
<1>1. TypeOK /\ QueueInv(Q(w)) /\ QueueType(Q(w)')
  BY TypeOfQueuePrime DEF Inv
<1>2. /\ _bottom' = _bottom /\ _age' = _age /\ _elems' = _elems /\ found' = found
      /\ buf' = buf /\ pc[w] = "fence" /\ buf[w] = <<>> /\ Goto(w, "work") /\ Forget(w)
  BY DEF Reread, queues, Fenced, Got
<1>3. pc'[w] = "work" /\ \A v \in Workers \ {w} : pc'[v] = pc[v]
  BY <1>1, <1>2 DEF Goto, TypeOK
<1>4. \A v \in Workers \ {w} : localBot'[v] = localBot[v] /\ oldAge'[v] = oldAge[v]
  BY <1>1, <1>2 DEF Forget, TypeOK
<1>5. \A v \in Workers \ {w} : Q(v)' = Q(v)
  BY <1>2, <1>3, <1>4, Frame
<1>6. /\ Q(w)'.bottom = Q(w).bottom /\ Q(w)'.age = Q(w).age /\ Q(w)'.elems = Q(w).elems
      /\ Q(w)'.found = Q(w).found /\ Q(w)'.buf = Q(w).buf
      /\ Q(w).pc = "fence" /\ Q(w)'.pc = "work" /\ Q(w).buf = <<>>
  BY SMTT(30), <1>2, <1>3 DEF Q
<1>7. /\ Q(w)'.localBot \in Index /\ Q(w)'.oldAge \in Ages
      /\ size(Q(w).localBot, Q(w).age.top) > 0
  BY <1>1, Fields DEF QueueType
<1>8. /\ Kept(Q(w), Q(w)') /\ Top(Q(w)') = Top(Q(w)) /\ Count(Q(w)') = Count(Q(w)) - 1
      /\ Count(Q(w)) \in Nat /\ Count(Q(w)) >= 2
      /\ Count(Q(w)) - 1 = dirty_size(Q(w).localBot, Top(Q(w)))
      /\ \A i \in Index : ElemOf(Q(w)', i) = ElemOf(Q(w), i)
  BY <1>1, <1>6, <1>7, KeptTaken
<1>9. Count(Q(w)) >= 1
  BY SMTT(30), <1>8
<1>10. QueueInv(Q(w)') /\ Q(w).localBot \in Index /\ Q(w).localBot = localBot[w]
  BY <1>1, <1>8, Fields DEF Kept, QueueInv, QueueType
<1>11. /\ Content(Q(w)) # <<>> /\ Content(Q(w))[Len(Content(Q(w)))] = ElemOf(Q(w), Q(w).localBot)
       /\ Content(Q(w)') = SubSeq(Content(Q(w)), 1, Len(Content(Q(w))) - 1)
  BY <1>1, <1>8, <1>9, <1>10, ContentPop
<1>12. ElemOf(Q(w), Q(w).localBot) = _elems[w][localBot[w]]
  <2>1. ElemOf(Q(w), Q(w).localBot) = Q(w).elems[Q(w).localBot]
    BY <1>6, <1>10, MemoryView
  <2>2. Q(w).elems = _elems[w]
    BY Fields
  <2> QED BY <1>10, <2>1, <2>2
<1> QED BY <1>5, <1>8, <1>11, <1>12, OwnStep

\* pop_local_slow got the last task.
LEMMA CasStep ==
  ASSUME TagsLast, Inv, TypeOK', NEW w \in Workers, pop_local_slow(w), _age[w] = oldAge[w]
  PROVE  /\ AllKept /\ \A v \in Workers \ {w} : SameQueue(v)
         /\ Content(Q(w)) # <<>>
         /\ Content(Q(w))[Len(Content(Q(w)))] = _elems[w][localBot[w]]
         /\ Content(Q(w)') = SubSeq(Content(Q(w)), 1, Len(Content(Q(w))) - 1)
<1>1. TypeOK /\ QueueInv(Q(w)) /\ QueueType(Q(w)')
  BY TypeOfQueuePrime DEF Inv
<1>2. /\ _bottom' = _bottom /\ _elems' = _elems /\ found' = found
      /\ buf' = buf /\ pc[w] = "cas" /\ Goto(w, "work") /\ Forget(w)
      /\ _age' = [_age EXCEPT ![w] = NewAge(localBot[w], oldAge[w].tag)]
  BY DEF pop_local_slow, Got
<1>3. pc'[w] = "work" /\ \A v \in Workers \ {w} : pc'[v] = pc[v]
  BY <1>1, <1>2 DEF Goto, TypeOK
<1>4. \A v \in Workers \ {w} : localBot'[v] = localBot[v] /\ oldAge'[v] = oldAge[v]
  BY <1>1, <1>2 DEF Forget, TypeOK
<1>5. /\ _age'[w] = NewAge(localBot[w], oldAge[w].tag)
      /\ \A v \in Workers \ {w} : _age'[v] = _age[v]
  BY <1>1, <1>2 DEF TypeOK
<1>6. \A v \in Workers \ {w} : Q(v)' = Q(v)
  BY <1>2, <1>3, <1>4, <1>5, Frame
<1>7. /\ Q(w)'.bottom = Q(w).bottom /\ Q(w)'.elems = Q(w).elems
      /\ Q(w)'.found = Q(w).found /\ Q(w)'.buf = Q(w).buf
      /\ Q(w).pc = "cas" /\ Q(w)'.pc = "work" /\ Q(w).age = Q(w).oldAge
  BY SMTT(30), <1>2, <1>3 DEF Q
<1>8. /\ Q(w)'.localBot \in Index /\ Q(w)'.oldAge \in Ages
      /\ Q(w)'.age = NewAge(Q(w).localBot, Q(w).oldAge.tag)
  BY <1>1, <1>5, Fields, FieldsPrime DEF QueueType
<1>9. /\ Kept(Q(w), Q(w)') /\ Count(Q(w)') = 0 /\ Count(Q(w)) = 1 /\ Q(w).localBot = Top(Q(w))
      /\ \A i \in Index : ElemOf(Q(w), i) = Q(w).elems[i]
  BY <1>1, <1>7, <1>8, KeptCas
<1>10. /\ QueueInv(Q(w)') /\ Q(w).localBot \in Index /\ Q(w).localBot = localBot[w]
       /\ Q(w).elems = _elems[w]
  BY <1>1, <1>9, Fields DEF Kept, QueueInv, QueueType
<1>11. dirty_size(Q(w).localBot, Top(Q(w))) = 0
  BY SMTT(30), <1>9, <1>10, DistanceOrder
<1>12. /\ Count(Q(w)) >= 1 /\ Count(Q(w)') = Count(Q(w)) - 1 /\ ~(Count(Q(w)') > 0)
       /\ dirty_size(Q(w).localBot, Top(Q(w))) = Count(Q(w)) - 1
  BY SMTT(30), <1>9, <1>11
<1>13. /\ Content(Q(w)) # <<>> /\ Content(Q(w))[Len(Content(Q(w)))] = ElemOf(Q(w), Q(w).localBot)
       /\ Content(Q(w)') = SubSeq(Content(Q(w)), 1, Len(Content(Q(w))) - 1)
  BY <1>1, <1>10, <1>12, ContentPop
<1>14. ElemOf(Q(w), Q(w).localBot) = _elems[w][localBot[w]]
  BY <1>9, <1>10
<1> QED BY <1>6, <1>9, <1>13, <1>14, OwnStep


\* A pop that loses its task to a thief: the queue is empty before and after.
LEMMA LoseStep ==
  ASSUME TagsLast, Inv, TypeOK', NEW w \in Workers,
         \/ ReadAge(w) /\ localBot[w] # _age[w].top
         \/ pop_local_slow(w) /\ _age[w] # oldAge[w]
  PROVE  AllKept /\ \A v \in Workers : SameQueue(v)
<1> DEFINE q == Q(w)
<1>1. TypeOK /\ QueueInv(q) /\ QueueType(Q(w)')
  BY TypeOfQueuePrime DEF Inv
<1>2. PICK a : Lose(w, a) /\ a = NewAge(q.localBot, IF q.pc = "slow" THEN q.age.tag ELSE q.oldAge.tag)
               /\ (\/ q.pc = "slow" /\ q.localBot # q.age.top
                   \/ q.pc = "cas" /\ q.age # q.oldAge)
  <2>1. CASE ReadAge(w) /\ localBot[w] # _age[w].top
    <3>1. pc[w] = "slow" /\ Lose(w, NewAge(localBot[w], _age[w].tag))
      BY <2>1 DEF ReadAge
    <3> QED BY <2>1, <3>1, Fields
  <2>2. CASE pop_local_slow(w) /\ _age[w] # oldAge[w]
    <3>1. pc[w] = "cas" /\ pc[w] # "slow" /\ Lose(w, NewAge(localBot[w], oldAge[w].tag))
      BY <2>2 DEF pop_local_slow
    <3> QED BY <2>2, <3>1, Fields
  <2> QED BY <2>1, <2>2
<1>3. _bottom' = _bottom /\ _age' = _age /\ _elems' = _elems /\ found' = found
  <2>1. CASE ReadAge(w) /\ localBot[w] # _age[w].top
    BY <2>1 DEF ReadAge, queues
  <2>2. CASE pop_local_slow(w) /\ _age[w] # oldAge[w]
    BY <2>2 DEF pop_local_slow
  <2> QED BY <2>1, <2>2
<1>4. pc'[w] = "drained" /\ \A v \in Workers \ {w} : pc'[v] = pc[v]
  BY <1>1, <1>2 DEF Lose, Goto, TypeOK
<1>5. \A v \in Workers \ {w} : localBot'[v] = localBot[v] /\ oldAge'[v] = oldAge[v]
  BY <1>1, <1>2 DEF Lose, Forget, TypeOK
<1>6. buf'[w] = Append(buf[w], AgeStore(a)) /\ \A v \in Workers \ {w} : buf'[v] = buf[v]
  BY <1>1, <1>2 DEF Lose, TypeOK
<1>7. \A v \in Workers \ {w} : Q(v)' = Q(v)
  BY <1>3, <1>4, <1>5, <1>6, Frame
<1>8. /\ Q(w)'.bottom = q.bottom /\ Q(w)'.age = q.age /\ Q(w)'.elems = q.elems
      /\ Q(w)'.found = q.found /\ Q(w)'.pc = "drained" /\ Q(w)'.buf = Append(q.buf, AgeStore(a))
  BY SMTT(30), <1>3, <1>4, <1>6 DEF Q
<1>9. Q(w)'.localBot \in Index /\ Q(w)'.oldAge \in Ages
  BY <1>1 DEF QueueType
<1>10. q.pc \in {"slow", "cas"} /\ q.pc \in PopPcs /\ q.buf = <<>> /\ Count(q) <= 1
  BY <1>1, <1>2 DEF PopPcs, QueueInv, PopInv
<1> HIDE DEF q
<1>11. /\ AgeOf(q) = q.age /\ Top(q) = q.age.top /\ q.localBot \in Index /\ Top(q) \in Index
       /\ Count(q) \in Nat /\ q.age.tag \in Nat
       /\ Count(q) = IF dirty_size(q.localBot, Top(q)) = N - 1 THEN 0
                     ELSE dirty_size(q.localBot, Top(q)) + 1
  BY <1>1, <1>10, PopFacts
<1>12. /\ q.age \in Ages /\ q.oldAge \in Ages /\ q.found \in Nat /\ 2 * q.found < TagValues
  BY <1>1 DEF QueueInv, QueueType
<1>13. Count(q) = 0
  <2>1. CASE q.pc = "slow" /\ q.localBot # q.age.top
    <3>1. dirty_size(q.localBot, Top(q)) # 0 /\ dirty_size(q.localBot, Top(q)) \in Nat
      BY SMTT(30), <1>11, <2>1, DistanceOrder, DistanceNat
    <3> QED BY SMTT(30), <1>10, <1>11, <3>1
  <2>2. CASE q.pc = "cas" /\ q.age # q.oldAge
    <3>1. Count(q) # 1
      BY <1>1, <2>2 DEF QueueInv, PopInv
    <3> QED BY SMTT(30), <1>10, <1>11, <3>1
  <2> QED BY <1>2, <2>1, <2>2
<1>14. q.age.tag + 1 <= 2 * q.found
  BY <1>1, <1>10, <1>11, <1>13 DEF QueueInv, PopInv
<1>15. /\ a \in Ages /\ a.top = q.localBot /\ a.tag <= 2 * q.found /\ Before(q.age, a)
  <2>1. CASE q.pc = "slow"
    <3>1. a = NewAge(q.localBot, q.age.tag) /\ q.age.tag + 1 < TagValues
      BY SMTT(30), <1>2, <1>11, <1>12, <1>14, <2>1, NAssumption
    <3> QED BY <1>11, <1>12, <1>14, <3>1, NewAgeFacts
  <2>2. CASE q.pc = "cas"
    <3> DEFINE o == q.oldAge
    <3>1. 0 # 1
      BY SMTT(30)
    <3>2. /\ o.top = q.localBot /\ o.tag + 1 <= 2 * q.found /\ q.age = Increment(o)
      BY <1>1, <1>13, <2>2, <3>1 DEF QueueInv, PopInv
    <3>3. a = NewAge(q.localBot, o.tag)
      BY <1>2, <2>2
    <3>4. o \in Ages /\ o.tag \in Nat
      BY SMTT(30), <1>12 DEF Ages
    <3> HIDE DEF o
    <3>5. o.tag + 1 < TagValues
      BY SMTT(30), <1>12, <3>2, <3>4, NAssumption
    <3>6. /\ q.age.top = increment_index(o.top)
          /\ q.age.tag = IF o.top = N - 1 THEN o.tag + 1 ELSE o.tag
      BY <3>2, <3>4, <3>5, IncrementAge
    <3>7. /\ a \in Ages /\ a.top = q.localBot /\ a.tag = o.tag + 1
      BY <1>11, <3>3, <3>4, <3>5, NewAgeFacts
    <3>8. o.top = N - 1 => q.age.top = 0
      BY <1>11, <3>2, <3>6, IncrementFacts
    <3>9. Before(q.age, a)
      <4>1. CASE o.top = N - 1
        <5>1. q.age.tag = a.tag /\ q.age.top = 0 /\ a.top = N - 1
          BY <3>2, <3>6, <3>7, <3>8, <4>1
        <5>2. 0 < N - 1
          BY SMTT(30), NAssumption
        <5> QED BY <5>1, <5>2 DEF Before
      <4>2. CASE o.top # N - 1
        BY SMTT(30), <3>4, <3>6, <3>7, <4>2 DEF Before
      <4> QED BY <4>1, <4>2
    <3> QED BY <3>2, <3>7, <3>9
  <2> QED BY <1>2, <2>1, <2>2
<1>16. Kept(q, Q(w)') /\ Count(Q(w)') = 0
  BY <1>1, <1>8, <1>9, <1>10, <1>13, <1>15, KeptLose
<1>17. SameQueue(w)
  <2>1. Content(q) = <<>> /\ Content(Q(w)') = <<>>
    BY <1>1, <1>13, <1>16, ContentEmpty DEF Kept
  <2> QED BY <1>13, <1>16, <2>1 DEF SameQueue, q
<1> QED BY <1>7, <1>16, <1>17, OwnStep DEF q

\* A store that reaches memory keeps every queue and its content.
LEMMA DrainStep ==
  ASSUME TagsLast, Inv, TypeOK', NEW w \in Workers, Drain(w)
  PROVE  AllKept /\ \A v \in Workers : SameQueue(v)
<1> DEFINE s == Head(buf[w])
<1>1. TypeOK /\ QueueInv(Q(w))
  BY DEF Inv
<1>2. /\ buf[w] # <<>> /\ pc' = pc /\ localBot' = localBot /\ oldAge' = oldAge /\ found' = found
  BY DEF Drain, popVars
<1>3. /\ _bottom'[w] = IF s.to = "bottom" THEN s.val ELSE _bottom[w]
      /\ \A v \in Workers \ {w} : _bottom'[v] = _bottom[v]
  BY <1>1 DEF Drain, TypeOK
<1>4. /\ _age'[w] = IF s.to = "age" THEN s.val ELSE _age[w]
      /\ \A v \in Workers \ {w} : _age'[v] = _age[v]
  BY <1>1 DEF Drain, TypeOK
<1>5. /\ \A i \in Index : _elems'[w][i] = IF s.to = "elem" /\ s.at = i THEN s.val ELSE _elems[w][i]
      /\ \A v \in Workers \ {w} : _elems'[v] = _elems[v]
  <2>1. _elems \in [Workers -> [Index -> Tasks \cup {None}]]
    BY <1>1 DEF TypeOK
  <2>2. CASE s.to = "elem"
    <3>1. _elems' = [_elems EXCEPT ![w][s.at] = s.val]
      BY <2>2 DEF Drain
    <3>2. _elems[w] \in [Index -> Tasks \cup {None}]
      BY <2>1
    <3>3. _elems'[w] = [_elems[w] EXCEPT ![s.at] = s.val]
      BY <2>1, <3>1
    <3> HIDE DEF s
    <3>4. \A i \in Index : _elems'[w][i] = IF s.at = i THEN s.val ELSE _elems[w][i]
      BY <3>2, <3>3
    <3> QED BY <2>1, <2>2, <3>1, <3>4
  <2>3. CASE s.to # "elem"
    BY <2>3 DEF Drain
  <2> QED BY <2>2, <2>3
<1>6. buf'[w] = Tail(buf[w]) /\ \A v \in Workers \ {w} : buf'[v] = buf[v]
  BY <1>1 DEF Drain, TypeOK
<1>7. \A v \in Workers \ {w} : Q(v)' = Q(v)
  BY <1>2, <1>3, <1>4, <1>5, <1>6, Frame
<1> HIDE DEF s
<1>8. /\ Q(w)'.bottom = IF s.to = "bottom" THEN s.val ELSE Q(w).bottom
      /\ Q(w)'.age = IF s.to = "age" THEN s.val ELSE Q(w).age
      /\ \A i \in Index : Q(w)'.elems[i] = IF s.to = "elem" /\ s.at = i THEN s.val ELSE Q(w).elems[i]
  BY SMTT(30), <1>3, <1>4, <1>5 DEF Q
<1>9. /\ Q(w)'.buf = Tail(Q(w).buf) /\ Q(w)'.pc = Q(w).pc /\ Q(w)'.localBot = Q(w).localBot
      /\ Q(w)'.oldAge = Q(w).oldAge /\ Q(w)'.found = Q(w).found
  BY SMTT(30), <1>2, <1>6 DEF Q
<1>10. Q(w).buf # <<>> /\ s = Head(Q(w).buf)
  BY <1>2, Fields DEF s
<1>11. Kept(Q(w), Q(w)') /\ SameTasks(Q(w), Q(w)')
  BY SMTT(30), <1>1, <1>8, <1>9, <1>10, KeptDrain DEF SameTasks
<1>12. SameQueue(w)
  BY <1>1, <1>11, ContentSame DEF SameQueue, SameTasks
<1> QED BY <1>7, <1>11, <1>12, OwnStep

\* A thief got the task it read.
LEMMA StolenStep ==
  ASSUME TagsLast, Inv, TypeOK', NEW w \in Workers, pop_global(w), _age[victim[w]] = oldAge[w],
         NEW v \in Workers, v = victim[w]
  PROVE  /\ v # w /\ AllKept /\ \A x \in Workers \ {v} : SameQueue(x)
         /\ Content(Q(v)) # <<>> /\ Head(Content(Q(v))) = task[w] /\ Content(Q(v)') = Tail(Content(Q(v)))
         /\ Count(Q(v)) # 0
<1>1. TypeOK /\ QueueInv(Q(v)) /\ QueueInv(Q(w)) /\ QueueType(Q(w)')
  BY TypeOfQueuePrime DEF Inv
<1>2. /\ v # w /\ Live(Q(v)) /\ task[w] = ElemOf(Q(v), Top(Q(v)))
  <2>1. ThiefInv(w) /\ pc[w] = "casTop" /\ pc[w] # "readBottom" /\ pc[w] \in ThiefPcs
    BY DEF Inv, pop_global, ThiefPcs
  <2> QED BY <2>1 DEF ThiefInv
<1>3. /\ _bottom' = _bottom /\ _elems' = _elems /\ found' = found /\ buf' = buf
      /\ pc[w] = "casTop" /\ Goto(w, "work") /\ Forget(w)
      /\ _age' = [_age EXCEPT ![v] = Increment(@)]
  BY DEF pop_global, Got
<1>4. pc'[w] = "work" /\ \A x \in Workers \ {w} : pc'[x] = pc[x]
  BY <1>1, <1>3 DEF Goto, TypeOK
<1>5. \A x \in Workers \ {w} : localBot'[x] = localBot[x] /\ oldAge'[x] = oldAge[x]
  BY <1>1, <1>3 DEF Forget, TypeOK
<1>6. /\ _age'[v] = Increment(_age[v])
      /\ \A x \in Workers \ {v} : _age'[x] = _age[x]
  BY <1>1, <1>3 DEF TypeOK
<1>7. /\ Kept(Q(v), Q(v)') /\ Top(Q(v)') = increment_index(Top(Q(v))) /\ Count(Q(v)') = Count(Q(v)) - 1
      /\ Count(Q(v)) \in Nat /\ Count(Q(v)) >= 1
      /\ \A i \in Index : ElemOf(Q(v)', i) = ElemOf(Q(v), i)
  <2>1. pc'[v] = pc[v] /\ localBot'[v] = localBot[v] /\ oldAge'[v] = oldAge[v]
    BY <1>2, <1>4, <1>5
  <2>2. /\ Q(v)'.bottom = Q(v).bottom /\ Q(v)'.elems = Q(v).elems /\ Q(v)'.buf = Q(v).buf
        /\ Q(v)'.pc = Q(v).pc /\ Q(v)'.localBot = Q(v).localBot
        /\ Q(v)'.oldAge = Q(v).oldAge /\ Q(v)'.found = Q(v).found
    BY SMTT(30), <1>3, <2>1 DEF Q
  <2>3. Q(v)'.age = Increment(Q(v).age)
    BY <1>6, Fields, FieldsPrime
  <2> QED BY <1>1, <1>2, <2>2, <2>3, KeptStolen
<1>8. /\ Content(Q(v)) # <<>> /\ Head(Content(Q(v))) = task[w] /\ Content(Q(v)') = Tail(Content(Q(v)))
  BY <1>1, <1>2, <1>7, ContentSteal DEF Kept
<1>9. Kept(Q(w), Q(w)') /\ SameTasks(Q(w), Q(w)')
  <2>1. pc[w] \notin PopPcs /\ pc'[w] \notin PopPcs /\ _age'[w] = _age[w] /\ found[w] <= found[w]
    <3>1. found[w] <= found[w]
      <4>1. found[w] \in Nat
        BY <1>1 DEF TypeOK
      <4> QED BY SMTT(30), <4>1
    <3> QED BY <1>2, <1>3, <1>4, <1>6, <3>1 DEF PopPcs
  <2>2. /\ Q(w)'.bottom = Q(w).bottom /\ Q(w)'.age = Q(w).age /\ Q(w)'.elems = Q(w).elems
        /\ Q(w)'.buf = Q(w).buf /\ Q(w).pc \notin PopPcs /\ Q(w)'.pc \notin PopPcs
        /\ Q(w).found <= Q(w)'.found
    BY SMTT(30), <1>3, <2>1 DEF Q
  <2> QED BY <1>1, <2>2, KeptOutside DEF SameTasks
<1>10. SameQueue(w)
  BY <1>1, <1>9, ContentSame DEF SameQueue, SameTasks
<1>11. ASSUME NEW x \in Workers \ {v, w} PROVE Kept(Q(x), Q(x)') /\ SameQueue(x)
  <2>1. Q(x)' = Q(x) /\ QueueInv(Q(x))
    BY <1>3, <1>4, <1>5, <1>6, Frame DEF Inv
  <2> QED BY <2>1, KeptSelf DEF SameQueue
<1>12. Count(Q(v)) # 0
  BY SMTT(30), <1>7
<1> QED BY <1>2, <1>7, <1>8, <1>9, <1>10, <1>11, <1>12 DEF AllKept


\* Every step keeps the types.
LEMMA TypeStep ==
  ASSUME TagsLast, TypeOK, NEW w \in Workers, Step(w) \/ Drain(w)
  PROVE  TypeOK'
<1>1. ASSUME Step(w) PROVE TypeOK'
  BY <1>1, TypePush, TypePops, TypeOutside DEF Step
<1> QED BY <1>1, TypeDrain

\* Every step, in short.
LEMMA QueueStep ==
  ASSUME TagsLast, Inv, NEW w \in Workers, Step(w) \/ Drain(w)
  PROVE  /\ TypeOK /\ TypeOK' /\ AllKept
         /\ \A v \in Workers \ {w} : Count(Q(v)) = 0 => Count(Q(v)') = 0
<1> DEFINE P == AllKept /\ \A v \in Workers \ {w} : Count(Q(v)) = 0 => Count(Q(v)') = 0
<1>1. TypeOK /\ TypeOK'
  BY TypeStep DEF Inv
<1>2. ASSUME AllKept, \A v \in Workers \ {w} : SameQueue(v) PROVE P
  BY <1>2 DEF SameQueue
<1>3. ASSUME Quiet(w) PROVE P
  BY <1>1, <1>2, <1>3, QuietStep
<1>4. CASE Push(w)
  <2>1. CASE buf' = buf
    BY <1>1, <1>3, <1>4, <2>1, QuietActions
  <2>2. CASE buf' # buf
    BY <1>1, <1>2, <1>4, <2>2, PushStep
  <2> QED BY <1>1, <2>1, <2>2
<1>5. CASE pop_local(w)
  <2>1. CASE Count(Q(w)) = 0
    BY <1>1, <1>3, <1>5, <2>1, QuietActions
  <2>2. CASE Count(Q(w)) # 0
    BY <1>1, <1>2, <1>5, <2>2, PopStep
  <2> QED BY <1>1, <2>1, <2>2
<1>6. CASE Reread(w)
  BY <1>1, <1>2, <1>6, TakenStep, PopStep
<1>7. CASE ReadAge(w)
  BY <1>1, <1>2, <1>7, LoseStep, PopStep
<1>8. CASE pop_local_slow(w)
  BY <1>1, <1>2, <1>8, LoseStep, CasStep
<1>9. CASE pop_global(w)
  <2>1. CASE _age[victim[w]] = oldAge[w]
    <3> DEFINE v == victim[w]
    <3>1. v \in Workers
      BY <1>1 DEF TypeOK
    <3>2. /\ AllKept /\ \A x \in Workers \ {v} : SameQueue(x)
          /\ Count(Q(v)) # 0
      BY <1>1, <1>9, <2>1, <3>1, StolenStep
    <3> QED BY <1>1, <3>1, <3>2 DEF SameQueue
  <2>2. CASE _age[victim[w]] # oldAge[w]
    BY <1>1, <1>3, <1>9, <2>2, QuietActions
  <2> QED BY <2>1, <2>2
<1>10. CASE Drain(w)
  BY <1>1, <1>2, <1>10, DrainStep
<1>11. CASE \/ Processed(w) \/ pop_overflow(w) \/ Drained(w) \/ steal(w) \/ ReadBottom(w)
            \/ ReadElem(w) \/ offer_termination(w) \/ Check(w) \/ PeekBottom(w) \/ PeekTop(w)
            \/ Withdraw(w)
  BY <1>1, <1>3, <1>11, QuietActions
<1> QED BY <1>4, <1>5, <1>6, <1>7, <1>8, <1>9, <1>10, <1>11 DEF Step

-----------------------------------------------------------------------------
(* The thieves.                                                            *)

\* The bottom in memory above the age in memory: the queue has a task that a
\* thief may take.
LEMMA LiveIfBottom ==
  ASSUME NEW q, QueueInv(q), size(q.bottom, q.age.top) # 0
  PROVE  Live(q)
<1> DEFINE d == dirty_size(q.bottom, Top(q))
<1>1. /\ q.bottom \in Index /\ q.age.top \in Index /\ Top(q) \in Index /\ Count(q) \in Nat
  <2>1. q.bottom \in Index /\ q.age \in Ages
    BY DEF QueueInv, QueueType
  <2> QED BY SMTT(30), <2>1, ViewFacts DEF QueueInv, Ages
<1>2. AgeInMemory(q)
  <2> SUFFICES ASSUME NEW i \in DOMAIN q.buf, q.buf[i].to = "age"
               PROVE  FALSE
    BY DEF AgeInMemory
  <2>1. q.age.top = increment_index(q.bottom)
    BY DEF QueueInv, AgeInv
  <2>2. dirty_size(q.bottom, q.age.top) = N - 1
    BY <1>1, <2>1, DistanceTop
  <2> QED BY <2>2 DEF size
<1>3. AgeOf(q) = q.age /\ Top(q) = q.age.top
  BY <1>2, MemoryView DEF Top
<1>4. d \in Nat /\ d # 0 /\ d # N - 1
  <2>1. dirty_size(q.bottom, q.age.top) # 0 /\ dirty_size(q.bottom, q.age.top) # N - 1
    BY DEF size
  <2> QED BY <1>1, <1>3, <2>1, DistanceNat
<1>5. CASE Exposed(q)
  <2>1. d <= Count(q)
    BY <1>5 DEF QueueInv, OrderInv, Ordered
  <2>2. d >= 1 /\ Count(q) >= 1
    BY SMTT(30), <1>1, <1>4, <2>1
  <2> QED BY <1>2, <2>2 DEF Live
<1>6. CASE ~Exposed(q)
  <2>1. q.pc \in PopPcs /\ q.buf = <<>>
    BY <1>6 DEF Exposed
  <2>2. Count(q) = IF d = N - 1 THEN 0 ELSE d + 1
    BY <2>1, PopFacts
  <2>3. Count(q) >= 1
    BY SMTT(30), <1>4, <2>2
  <2> QED BY <1>2, <1>6, <2>3 DEF Live
<1> QED BY <1>5, <1>6

\* And that task is in memory.
LEMMA LiveElem ==
  ASSUME NEW q, QueueInv(q), Live(q)
  PROVE  ElemOf(q, Top(q)) = q.elems[q.age.top]
<1>1. /\ q.bottom \in Index /\ Top(q) \in Index /\ q.buf \in Seq(Stores)
  BY ViewFacts DEF QueueInv, QueueType
<1>2. Top(q) = q.age.top
  BY MemoryView DEF Live, Top
<1>3. \A i \in DOMAIN q.buf : ~To(q.buf[i], "elem", Top(q))
  <2> SUFFICES ASSUME NEW i \in DOMAIN q.buf, q.buf[i].to = "elem", q.buf[i].at = Top(q)
               PROVE  FALSE
    BY DEF To
  <2>1. i \in 1 .. Len(q.buf) /\ Len(q.buf) \in Nat /\ q.buf # <<>> /\ Exposed(q)
    <3>1. i \in 1 .. Len(q.buf) /\ Len(q.buf) \in Nat /\ q.buf # <<>>
      BY SMTT(30), <1>1
    <3> QED BY <3>1 DEF Exposed
  <2>2. /\ Ordered(q.bottom, q.buf, Committed(q), Top(q), Count(q))
        /\ dirty_size(q.bottom, Top(q)) >= 1
    BY <2>1 DEF Live, QueueInv, OrderInv
  <2>3. CASE i \in 1 .. Committed(q)
    <3>1. q.buf[i].to # "age" /\ Key(q.buf[i]) = Top(q)
      BY SMTT(30) DEF Key
    <3>2. dirty_size(q.bottom, Top(q)) <= dirty_size(Top(q), Top(q))
      BY <2>2, <2>3, <3>1 DEF Ordered
    <3>3. dirty_size(Top(q), Top(q)) = 0 /\ dirty_size(q.bottom, Top(q)) \in Nat
      BY SMTT(30), <1>1, DistanceOrder, DistanceNat
    <3> QED BY SMTT(30), <2>2, <3>2, <3>3
  <2>4. CASE i \notin 1 .. Committed(q)
    <3>1. q.pc = "fence" /\ i = Len(q.buf)
      BY SMTT(30), <2>1, <2>4 DEF Committed
    <3>2. q.buf[i] = Bottom(q.localBot)
      BY <2>1, <3>1 DEF QueueInv, PopInv
    <3> QED BY SMTT(30), <3>2 DEF Bottom
  <2> QED BY <2>3, <2>4
<1> QED BY <1>2, <1>3, SeenMemory DEF ElemOf, Latest

\* Whatever others do, a thief's read stays good or its CAS fails.
LEMMA ThiefKept ==
  ASSUME TypeOK, TypeOK', AllKept, NEW x \in Workers, ThiefInv(x), pc'[x] = pc[x],
         victim'[x] = victim[x], oldAge'[x] = oldAge[x], task'[x] = task[x]
  PROVE  ThiefInv(x)'
<1>1. PICK v \in Workers : v = victim[x]
  BY DEF TypeOK
<1> SUFFICES ASSUME pc[x] \in ThiefPcs
             PROVE  /\ v # x /\ (oldAge[x] = _age'[v] \/ Before(oldAge[x], _age'[v]))
                    /\ pc[x] # "readBottom" /\ oldAge[x] = _age'[v] =>
                         /\ Live(Q(v)')
                         /\ pc[x] = "casTop" => task[x] = ElemOf(Q(v)', Top(Q(v)'))
  BY <1>1 DEF ThiefInv
<1> DEFINE a == oldAge[x]
           b == _age[v]
           c == _age'[v]
<1>2. a \in Ages /\ b \in Ages /\ c \in Ages
  BY DEF TypeOK
<1>3. /\ v # x /\ (a = b \/ Before(a, b))
      /\ pc[x] # "readBottom" /\ a = b =>
           Live(Q(v)) /\ (pc[x] = "casTop" => task[x] = ElemOf(Q(v), Top(Q(v))))
  BY <1>1 DEF ThiefInv
<1>4. /\ c = b \/ Before(b, c)
      /\ c = b /\ Live(Q(v)) =>
           Live(Q(v)') /\ Top(Q(v)') = Top(Q(v)) /\ ElemOf(Q(v)', Top(Q(v)')) = ElemOf(Q(v), Top(Q(v)))
  <2>1. Kept(Q(v), Q(v)')
    BY <1>2 DEF AllKept
  <2>2. Q(v).age = b /\ Q(v)'.age = c
    BY Fields, FieldsPrime
  <2> QED BY <2>1, <2>2 DEF Kept
<1> HIDE DEF a, b, c
<1>5. a = c \/ Before(a, c)
  BY <1>2, <1>3, <1>4, BeforeFacts
<1>6. a = c => b = c /\ a = b
  BY <1>2, <1>3, <1>4, BeforeFacts
<1> QED BY <1>3, <1>4, <1>5, <1>6 DEF a, c

\* The locals of the other workers.
Others(w) ==
  \A x \in Workers \ {w} :
    /\ pc'[x] = pc[x] /\ task'[x] = task[x] /\ overflow'[x] = overflow[x]
    /\ victim'[x] = victim[x] /\ oldAge'[x] = oldAge[x]

\* The locals of a worker are written by its own steps only.
LEMMA OthersStep ==
  ASSUME TypeOK, NEW w \in Workers, Step(w) \/ Drain(w)
  PROVE  Others(w)
<1> SUFFICES ASSUME NEW x \in Workers \ {w}
             PROVE  /\ pc'[x] = pc[x] /\ task'[x] = task[x] /\ overflow'[x] = overflow[x]
                    /\ victim'[x] = victim[x] /\ oldAge'[x] = oldAge[x]
  BY DEF Others
<1> DEFINE P == /\ pc'[x] = pc[x] /\ task'[x] = task[x] /\ overflow'[x] = overflow[x]
                /\ victim'[x] = victim[x] /\ oldAge'[x] = oldAge[x]
<1>1. ASSUME NEW l, Goto(w, l) PROVE pc'[x] = pc[x]
  BY <1>1 DEF Goto, TypeOK
<1>2. ASSUME Forget(w) PROVE oldAge'[x] = oldAge[x]
  BY <1>2 DEF Forget, TypeOK
<1>3. ASSUME NEW t, NEW l, Got(w, t, l)
      PROVE  pc'[x] = pc[x] /\ oldAge'[x] = oldAge[x] /\ task'[x] = task[x]
  BY <1>1, <1>2, <1>3 DEF Got, TypeOK
<1>4. ASSUME Failed(w)
      PROVE  pc'[x] = pc[x] /\ oldAge'[x] = oldAge[x] /\ task'[x] = task[x] /\ victim'[x] = victim[x]
  BY <1>1, <1>2, <1>4 DEF Failed, TypeOK
<1>5. ASSUME NEW a, Lose(w, a) PROVE pc'[x] = pc[x] /\ oldAge'[x] = oldAge[x] /\ task' = task
  BY <1>1, <1>2, <1>5 DEF Lose
<1>6. CASE Push(w)
  BY <1>6 DEF Push, TypeOK, popVars, stealVars
<1>7. CASE Processed(w)
  <2>1. pc'[x] = pc[x]
    BY <1>1, <1>7 DEF Processed
  <2> QED BY <1>7, <2>1 DEF Processed, TypeOK, popVars, stealVars
<1>8. CASE pop_overflow(w)
  <2>1. CASE overflow[w] = <<>>
    BY <1>1, <1>8, <2>1 DEF pop_overflow, popVars, stealVars
  <2>2. CASE overflow[w] # <<>>
    <3>1. pc'[x] = pc[x] /\ oldAge'[x] = oldAge[x] /\ task'[x] = task[x]
      BY <1>3, <1>8, <2>2 DEF pop_overflow
    <3> QED BY <1>8, <2>2, <3>1 DEF pop_overflow, stealVars, TypeOK
  <2> QED BY <2>1, <2>2
<1>9. CASE pop_local(w)
  <2>1. pc'[x] = pc[x]
    BY <1>1, <1>9 DEF pop_local
  <2> QED BY <1>9, <2>1 DEF pop_local, stealVars
<1>10. CASE Reread(w)
  <2>1. pc'[x] = pc[x] /\ oldAge'[x] = oldAge[x] /\ task'[x] = task[x]
    BY <1>1, <1>3, <1>10 DEF Reread, popVars
  <2> QED BY <1>10, <2>1 DEF Reread, stealVars
<1>11. CASE ReadAge(w)
  <2>1. CASE localBot[w] = _age[w].top
    BY <1>1, <1>11, <2>1 DEF ReadAge, stealVars, TypeOK
  <2>2. CASE localBot[w] # _age[w].top
    BY <1>5, <1>11, <2>2 DEF ReadAge, stealVars
  <2> QED BY <2>1, <2>2
<1>12. CASE pop_local_slow(w)
  <2>1. CASE _age[w] = oldAge[w]
    BY <1>3, <1>12, <2>1 DEF pop_local_slow, stealVars
  <2>2. CASE _age[w] # oldAge[w]
    BY <1>5, <1>12, <2>2 DEF pop_local_slow, stealVars
  <2> QED BY <2>1, <2>2
<1>13. CASE Drained(w)
  BY <1>1, <1>13 DEF Drained, stealVars, popVars
<1>14. CASE steal(w)
  <2>1. pc'[x] = pc[x]
    BY <1>1, <1>14 DEF steal
  <2> QED BY <1>14, <2>1 DEF steal, TypeOK
<1>15. CASE ReadBottom(w)
  BY <1>1, <1>4, <1>15 DEF ReadBottom, popVars, stealVars
<1>16. CASE ReadElem(w)
  <2>1. pc'[x] = pc[x]
    BY <1>1, <1>16 DEF ReadElem
  <2> QED BY <1>16, <2>1 DEF ReadElem, TypeOK, popVars, stealVars
<1>17. CASE pop_global(w)
  <2>1. CASE _age[victim[w]] = oldAge[w]
    <3>1. pc'[x] = pc[x] /\ oldAge'[x] = oldAge[x] /\ task'[x] = task[x]
      BY <1>3, <1>17, <2>1 DEF pop_global
    <3> QED BY <1>17, <2>1, <3>1 DEF pop_global, TypeOK
  <2>2. CASE _age[victim[w]] # oldAge[w]
    BY <1>4, <1>17, <2>2 DEF pop_global
  <2> QED BY <2>1, <2>2
<1>18. CASE offer_termination(w) \/ Check(w) \/ Withdraw(w)
  BY <1>1, <1>18 DEF offer_termination, Check, Withdraw, popVars, stealVars
<1>19. CASE PeekBottom(w)
  <2>1. pc'[x] = pc[x]
    BY <1>1, <1>19 DEF PeekBottom
  <2> QED BY <1>19, <2>1 DEF PeekBottom, TypeOK
<1>20. CASE PeekTop(w)
  <2>1. pc'[x] = pc[x] /\ oldAge'[x] = oldAge[x]
    BY <1>1, <1>2, <1>20 DEF PeekTop
  <2> QED BY <1>20, <2>1 DEF PeekTop, TypeOK
<1>21. CASE Drain(w)
  BY <1>21 DEF Drain, popVars, stealVars
<1> QED BY <1>6, <1>7, <1>8, <1>9, <1>10, <1>11, <1>12, <1>13, <1>14, <1>15, <1>16, <1>17,
           <1>18, <1>19, <1>20, <1>21 DEF Step

\* From where to where the steps lead.
BusyPcs == {"work", "overflow", "local", "drained", "fence", "slow", "cas"}
StealPcs == {"steal", "readBottom", "readElem", "casTop", "offer"}

\* Where the steps of a worker start and end.
LEMMA Moves ==
  ASSUME TypeOK, NEW w \in Workers
  PROVE  /\ (\/ Push(w) \/ Processed(w) \/ pop_overflow(w) \/ pop_local(w) \/ Reread(w)
             \/ ReadAge(w) \/ pop_local_slow(w))
              => pc[w] \in BusyPcs /\ pc'[w] \in BusyPcs
         /\ Drained(w) => pc[w] = "drained" /\ pc'[w] \in {"overflow", "steal"}
         /\ steal(w) \/ ReadBottom(w) \/ ReadElem(w) => pc[w] \in StealPcs /\ pc'[w] \in StealPcs
         /\ pop_global(w) => pc[w] = "casTop" /\ pc'[w] \in {"work", "steal"}
         /\ offer_termination(w) => pc[w] = "offer" /\ pc'[w] = "check"
         /\ Check(w) \/ PeekBottom(w) \/ PeekTop(w) => pc[w] \in OfferPcs /\ pc'[w] \in OfferPcs
         /\ Withdraw(w) => pc[w] = "withdraw" /\ pc'[w] = "steal"
<1>1. ASSUME NEW l, Goto(w, l) PROVE pc'[w] = l
  BY <1>1 DEF Goto, TypeOK
<1>2. /\ \A t, l : Got(w, t, l) => pc'[w] = "work"
      /\ \A a : Lose(w, a) => pc'[w] = "drained"
      /\ Failed(w) => pc'[w] = "steal"
  BY <1>1 DEF Got, Lose, Failed
<1>3. Push(w) => pc[w] = "work" /\ pc'[w] = "work"
  BY DEF Push
<1>4. Processed(w) => pc[w] = "work" /\ pc'[w] \in {"overflow", "local"}
  BY <1>1 DEF Processed, TypeOK
<1>5. pop_overflow(w) => pc[w] = "overflow" /\ pc'[w] \in {"local", "work"}
  BY <1>1, <1>2 DEF pop_overflow
<1>6. pop_local(w) => pc[w] = "local" /\ pc'[w] \in {"drained", "fence"}
  BY <1>1 DEF pop_local
<1>7. Reread(w) => pc[w] = "fence" /\ pc'[w] \in {"work", "slow"}
  BY <1>1, <1>2 DEF Reread
<1>8. ReadAge(w) => pc[w] = "slow" /\ pc'[w] \in {"cas", "drained"}
  BY <1>1, <1>2 DEF ReadAge
<1>9. pop_local_slow(w) => pc[w] = "cas" /\ pc'[w] \in {"work", "drained"}
  BY <1>2 DEF pop_local_slow
<1>10. Drained(w) => pc[w] = "drained" /\ pc'[w] \in {"overflow", "steal"}
  BY <1>1 DEF Drained
<1>11. steal(w) => pc[w] = "steal" /\ pc'[w] \in {"readBottom", "offer"}
  BY <1>1 DEF steal
<1>12. ReadBottom(w) => pc[w] = "readBottom" /\ pc'[w] \in {"steal", "readElem"}
  BY <1>1, <1>2 DEF ReadBottom
<1>13. ReadElem(w) => pc[w] = "readElem" /\ pc'[w] = "casTop"
  BY <1>1 DEF ReadElem
<1>14. pop_global(w) => pc[w] = "casTop" /\ pc'[w] \in {"work", "steal"}
  BY <1>2 DEF pop_global
<1>15. offer_termination(w) => pc[w] = "offer" /\ pc'[w] = "check"
  BY <1>1 DEF offer_termination
<1>16. Check(w) => pc[w] = "check" /\ pc'[w] \in {"done", "peek"}
  BY <1>1 DEF Check
<1>17. PeekBottom(w) => pc[w] = "peek" /\ pc'[w] \in {"check", "peekTop"}
  BY <1>1 DEF PeekBottom
<1>18. PeekTop(w) => pc[w] = "peekTop" /\ pc'[w] \in {"withdraw", "peek"}
  BY <1>1 DEF PeekTop
<1>19. Withdraw(w) => pc[w] = "withdraw" /\ pc'[w] = "steal"
  BY <1>1 DEF Withdraw
<1>20. (\/ Push(w) \/ Processed(w) \/ pop_overflow(w) \/ pop_local(w) \/ Reread(w)
        \/ ReadAge(w) \/ pop_local_slow(w))
         => pc[w] \in BusyPcs /\ pc'[w] \in BusyPcs
  BY <1>3, <1>4, <1>5, <1>6, <1>7, <1>8, <1>9 DEF BusyPcs
<1>21. steal(w) \/ ReadBottom(w) \/ ReadElem(w) => pc[w] \in StealPcs /\ pc'[w] \in StealPcs
  BY <1>11, <1>12, <1>13 DEF StealPcs
<1>22. Check(w) \/ PeekBottom(w) \/ PeekTop(w) => pc[w] \in OfferPcs /\ pc'[w] \in OfferPcs
  BY <1>16, <1>17, <1>18 DEF OfferPcs
<1> QED BY <1>10, <1>14, <1>15, <1>19, <1>20, <1>21, <1>22

\* What the classes of program points have in common.
LEMMA PcClasses ==
  /\ \A l \in BusyPcs : l \notin ThiefPcs /\ l \notin IdlePcs /\ l \notin OfferPcs
  /\ \A l \in StealPcs : l \in IdlePcs /\ l # "work" /\ l \notin OfferPcs /\ l \notin PopPcs
  /\ \A l \in OfferPcs : l \in IdlePcs /\ l # "work" /\ l \notin ThiefPcs /\ l \notin PopPcs
<1>1. \A l \in BusyPcs : l \notin ThiefPcs /\ l \notin OfferPcs
  BY DEF BusyPcs, ThiefPcs, OfferPcs
<1>2. \A l \in BusyPcs : l \notin IdlePcs
  BY SMTT(30) DEF BusyPcs, IdlePcs, OfferPcs
<1>3. \A l \in StealPcs : l \in IdlePcs /\ l # "work" /\ l \notin OfferPcs /\ l \notin PopPcs
  BY DEF StealPcs, IdlePcs, OfferPcs, PopPcs
<1>4. \A l \in OfferPcs : l \in IdlePcs /\ l # "work" /\ l \notin ThiefPcs /\ l \notin PopPcs
  BY DEF IdlePcs, OfferPcs, ThiefPcs, PopPcs
<1> QED BY <1>1, <1>2, <1>3, <1>4

\* Only the steps of pop_global lead into pop_global.
LEMMA NoThief ==
  ASSUME TypeOK, NEW w \in Workers, Step(w), ~steal(w), ~ReadBottom(w), ~ReadElem(w)
  PROVE  pc'[w] \notin ThiefPcs
<1>1. pc'[w] \in BusyPcs \cup OfferPcs \cup {"overflow", "steal", "work", "check"}
  BY Moves DEF Step
<1>2. {"overflow", "steal", "work", "check"} \cap ThiefPcs = {}
  BY DEF ThiefPcs
<1> QED BY <1>1, <1>2, PcClasses

\* Every step keeps what a thief has read true of its victim.
LEMMA ThiefStep ==
  ASSUME TagsLast, Inv, NEW w \in Workers, Step(w) \/ Drain(w), NEW x \in Workers
  PROVE  ThiefInv(x)'
<1>1. TypeOK /\ TypeOK' /\ AllKept /\ Others(w) /\ ThiefInv(x)
  BY QueueStep, OthersStep DEF Inv
<1>2. /\ pc \in [Workers -> Pcs] /\ victim \in [Workers -> Workers] /\ oldAge \in [Workers -> Ages]
      /\ task \in [Workers -> Tasks \cup {Roots, None}]
  BY <1>1 DEF TypeOK
<1>3. ASSUME NEW l, Goto(w, l) PROVE pc'[w] = l
  BY <1>2, <1>3 DEF Goto
<1>4. CASE x # w
  BY <1>1, <1>4, ThiefKept DEF Others
<1>5. CASE x = w /\ Drain(w)
  <2>1. pc' = pc /\ victim' = victim /\ oldAge' = oldAge /\ task' = task
    BY <1>5 DEF Drain, popVars, stealVars
  <2> QED BY <1>1, <2>1, ThiefKept
<1>6. CASE x = w /\ steal(w)
  <2>1. CASE /\ Goto(w, "readBottom")
             /\ \E v \in Workers \ {w} : /\ victim' = [victim EXCEPT ![w] = v]
                                        /\ oldAge' = [oldAge EXCEPT ![w] = _age[v]]
    <3>1. PICK v \in Workers \ {w} : /\ victim' = [victim EXCEPT ![w] = v]
                                     /\ oldAge' = [oldAge EXCEPT ![w] = _age[v]]
      BY <2>1
    <3>2. victim'[w] = v /\ oldAge'[w] = _age[v] /\ pc'[w] = "readBottom" /\ _age' = _age
      <4>1. pc'[w] = "readBottom"
        BY <1>3, <2>1
      <4>2. victim'[w] = v /\ oldAge'[w] = _age[v]
        BY <1>2, <3>1
      <4> QED BY <1>6, <4>1, <4>2 DEF steal, queues
    <3>3. victim'[w] # w /\ oldAge'[w] = _age'[victim'[w]] /\ ~(pc'[w] # "readBottom")
      BY <3>1, <3>2
    <3> QED BY <1>6, <3>3 DEF ThiefInv
  <2>2. CASE Goto(w, "offer")
    <3>1. pc'[w] = "offer" /\ pc'[w] \notin ThiefPcs
      BY <1>3, <2>2 DEF ThiefPcs
    <3> QED BY <1>6, <3>1 DEF ThiefInv
  <2> QED BY <1>6, <2>1, <2>2 DEF steal
<1>7. CASE x = w /\ (ReadBottom(w) \/ ReadElem(w))
  <2>0. PICK v \in Workers : v = victim[w]
    BY <1>1 DEF TypeOK
  <2>1. pc[w] \in ThiefPcs
    BY <1>7 DEF ThiefPcs, ReadBottom, ReadElem
  <2>2. /\ v # w /\ (oldAge[w] = _age[v] \/ Before(oldAge[w], _age[v]))
        /\ pc[w] # "readBottom" /\ oldAge[w] = _age[v] => Live(Q(v))
    BY <1>1, <1>7, <2>0, <2>1 DEF ThiefInv
  <2>3. Q(v)' = Q(v) /\ _age' = _age /\ QueueInv(Q(v))
    <3>1. Quiet(w)
      BY <1>1, <1>7, QuietActions
    <3> QED BY <2>2, <3>1, Frame DEF Quiet, Inv
  <2>4. CASE ReadBottom(w)
    <3>1. CASE Failed(w)
      <4>1. pc'[w] = "steal" /\ pc'[w] \notin ThiefPcs
        <5>1. pc'[w] = "steal"
          BY <1>3, <3>1 DEF Failed
        <5> QED BY <5>1 DEF ThiefPcs
      <4> QED BY <1>7, <4>1 DEF ThiefInv
    <3>2. CASE size(_bottom[victim[w]], oldAge[w].top) # 0
      <4>1. pc'[w] = "readElem" /\ victim'[w] = v /\ oldAge'[w] = oldAge[w]
        BY <1>3, <2>0, <2>4, <3>2 DEF ReadBottom, popVars, stealVars
      <4>2. oldAge[w] = _age[v] => Live(Q(v))
        <5> HAVE oldAge[w] = _age[v]
        <5>1. size(Q(v).bottom, Q(v).age.top) # 0
          BY <2>0, <3>2, Fields
        <5> QED BY <2>3, <5>1, LiveIfBottom
      <4>3. /\ victim'[w] # w /\ (oldAge'[w] = _age'[victim'[w]] \/ Before(oldAge'[w], _age'[victim'[w]]))
            /\ (oldAge'[w] = _age'[victim'[w]] => Live(Q(v)')) /\ pc'[w] # "casTop"
        BY <2>2, <2>3, <4>1, <4>2
      <4> QED BY <1>7, <4>1, <4>3 DEF ThiefInv
    <3> QED BY <2>4, <3>1, <3>2 DEF ReadBottom
  <2>5. CASE ReadElem(w)
    <3>1. /\ pc'[w] = "casTop" /\ victim'[w] = v /\ oldAge'[w] = oldAge[w]
          /\ task'[w] = _elems[v][oldAge[w].top] /\ pc[w] # "readBottom"
      BY <1>2, <1>3, <2>0, <2>5 DEF ReadElem, popVars, stealVars
    <3>2. oldAge[w] = _age[v] => Live(Q(v)) /\ task'[w] = ElemOf(Q(v), Top(Q(v)))
      <4> HAVE oldAge[w] = _age[v]
      <4>1. Live(Q(v))
        BY <2>2, <3>1
      <4>2. ElemOf(Q(v), Top(Q(v))) = Q(v).elems[Q(v).age.top]
        BY <2>3, <4>1, LiveElem
      <4>3. Q(v).elems = _elems[v] /\ Q(v).age = oldAge[w]
        BY Fields
      <4> QED BY <3>1, <4>1, <4>2, <4>3
    <3>3. /\ victim'[w] # w /\ (oldAge'[w] = _age'[v] \/ Before(oldAge'[w], _age'[v]))
          /\ (oldAge'[w] = _age'[v] => Live(Q(v)') /\ task'[w] = ElemOf(Q(v)', Top(Q(v)')))
      BY <2>2, <2>3, <3>1, <3>2
    <3> QED BY <1>7, <3>1, <3>3 DEF ThiefInv
  <2> QED BY <1>7, <2>4, <2>5
<1>8. CASE x = w /\ ~(Drain(w) \/ steal(w) \/ ReadBottom(w) \/ ReadElem(w))
  <2>1. pc'[w] \notin ThiefPcs
    BY <1>1, <1>8, NoThief DEF Step
  <2> QED BY <1>8, <2>1 DEF ThiefInv
<1> QED BY <1>4, <1>5, <1>6, <1>7, <1>8

-----------------------------------------------------------------------------
(* The owners and the terminator.                                          *)

\* The newest and the oldest task of a content are tasks.
LEMMA TaskOfContent ==
  ASSUME NEW q, QueueInv(q), Content(q) # <<>>
  PROVE  Content(q)[Len(Content(q))] \in Tasks /\ Head(Content(q)) \in Tasks
<1>1. Content(q) \in Seq(Tasks)
  BY ContentType
<1>2. ASSUME NEW s \in Seq(Tasks), s # <<>> PROVE s[Len(s)] \in Tasks /\ Head(s) \in Tasks
  BY SMTT(30), <1>2
<1> QED BY <1>1, <1>2

\* Steps of a worker that steals or offers leave it with nothing.
LEMMA IdleStep ==
  ASSUME TagsLast, Inv, NEW w \in Workers, OwnerInv(w), pc[w] \in IdlePcs, pc'[w] # "work",
         Quiet(w), TypeOK', overflow' = overflow
  PROVE  OwnerInv(w)'
<1>1. Count(Q(w)') = Count(Q(w))
  BY QuietStep DEF SameQueue
<1> QED BY <1>1 DEF OwnerInv

\* A step of a worker keeps what holds of the worker as an owner.
LEMMA OwnStepOwner ==
  ASSUME TagsLast, Inv, NEW w \in Workers, Step(w) \/ Drain(w)
  PROVE  OwnerInv(w)'
<1>1. TypeOK /\ TypeOK' /\ OwnerInv(w) /\ QueueInv(Q(w))
  BY QueueStep DEF Inv
<1>2. ASSUME NEW l, Goto(w, l) PROVE pc'[w] = l
  BY <1>1, <1>2 DEF Goto, TypeOK
<1>3. CASE Drain(w)
  <2>1. pc' = pc /\ task' = task /\ overflow' = overflow
    BY <1>3 DEF Drain
  <2>2. Count(Q(w)') = Count(Q(w))
    BY <1>1, <1>3, DrainStep DEF SameQueue
  <2> QED BY <1>1, <1>3, <2>1, <2>2 DEF OwnerInv
<1>4. ASSUME pc'[w] \in BusyPcs, pc'[w] = "work" => task'[w] \in Tasks \/ task'[w] = Roots
      PROVE  OwnerInv(w)'
  BY <1>4, PcClasses, NoneAssumption DEF OwnerInv
<1>5. ASSUME NEW t, NEW l, Got(w, t, l) PROVE task'[w] = t
  <2>1. task \in [Workers -> Tasks \cup {Roots, None}]
    BY <1>1 DEF TypeOK
  <2> QED BY <1>5, <2>1 DEF Got
<1>6. CASE Push(w)
  <2>1. task' = task /\ pc' = pc /\ pc[w] = "work" /\ task[w] # None
    BY <1>1, <1>6 DEF Push, OwnerInv
  <2>2. pc'[w] \in BusyPcs
    BY <1>1, <1>6, Moves
  <2> QED BY <2>1, <2>2, PcClasses DEF OwnerInv
<1>7. CASE Processed(w)
  <2>1. pc'[w] \in BusyPcs /\ pc'[w] \in {"overflow", "local"}
    <3>1. back[w] \in {"overflow", "local"} /\ pc'[w] = back[w]
      BY <1>1, <1>2, <1>7 DEF Processed, TypeOK
    <3> QED BY <1>1, <1>7, <3>1, Moves
  <2> QED BY <1>4, <2>1
<1>8. CASE pop_overflow(w)
  <2>1. pc'[w] \in BusyPcs
    BY <1>1, <1>8, Moves
  <2>2. CASE overflow[w] = <<>>
    <3>1. pc'[w] = "local"
      BY <1>2, <1>8, <2>2 DEF pop_overflow
    <3> QED BY <1>4, <2>1, <3>1
  <2>3. CASE overflow[w] # <<>>
    <3>1. overflow[w] \in Seq(Tasks)
      BY <1>1 DEF TypeOK
    <3>2. overflow[w][Len(overflow[w])] \in Tasks
      BY SMTT(30), <2>3, <3>1
    <3>3. task'[w] = overflow[w][Len(overflow[w])]
      BY <1>5, <1>8, <2>3 DEF pop_overflow
    <3> QED BY <1>4, <2>1, <3>2, <3>3
  <2> QED BY <2>2, <2>3
<1>9. CASE pop_local(w) \/ ReadAge(w)
  <2>1. pc'[w] \in BusyPcs
    BY <1>1, <1>9, Moves
  <2>2. pc'[w] # "work"
    BY <1>2, <1>9 DEF pop_local, ReadAge, Lose
  <2> QED BY <1>4, <2>1, <2>2
<1>10. CASE Reread(w)
  <2>1. pc'[w] \in BusyPcs
    BY <1>1, <1>10, Moves
  <2>2. CASE size(localBot[w], _age[w].top) > 0
    <3>1. task'[w] = _elems[w][localBot[w]]
      BY <1>5, <1>10, <2>2 DEF Reread
    <3>2. Content(Q(w)) # <<>> /\ Content(Q(w))[Len(Content(Q(w)))] = _elems[w][localBot[w]]
      BY <1>1, <1>10, <2>2, TakenStep
    <3> QED BY <1>1, <1>4, <2>1, <3>1, <3>2, TaskOfContent
  <2>3. CASE ~(size(localBot[w], _age[w].top) > 0)
    <3>1. pc'[w] = "slow"
      BY <1>2, <1>10, <2>3 DEF Reread
    <3> QED BY <1>4, <2>1, <3>1
  <2> QED BY <2>2, <2>3
<1>11. CASE pop_local_slow(w)
  <2>1. pc'[w] \in BusyPcs
    BY <1>1, <1>11, Moves
  <2>2. CASE _age[w] = oldAge[w]
    <3>1. task'[w] = _elems[w][localBot[w]]
      BY <1>5, <1>11, <2>2 DEF pop_local_slow
    <3>2. Content(Q(w)) # <<>> /\ Content(Q(w))[Len(Content(Q(w)))] = _elems[w][localBot[w]]
      BY <1>1, <1>11, <2>2, CasStep
    <3> QED BY <1>1, <1>4, <2>1, <3>1, <3>2, TaskOfContent
  <2>3. CASE _age[w] # oldAge[w]
    <3>1. pc'[w] = "drained"
      BY <1>2, <1>11, <2>3 DEF pop_local_slow, Lose
    <3> QED BY <1>4, <2>1, <3>1
  <2> QED BY <2>2, <2>3
<1>12. CASE Drained(w)
  <2>1. pc[w] = "drained" /\ pc[w] \notin PopPcs /\ overflow' = overflow
    BY <1>12 DEF Drained, PopPcs
  <2>2. CASE size(ownBottom(w), ownAge(w).top) # 0 \/ overflow[w] # <<>>
    <3>1. pc'[w] = "overflow"
      BY <1>2, <1>12, <2>2 DEF Drained
    <3>2. pc'[w] \in BusyPcs
      BY <3>1 DEF BusyPcs
    <3> QED BY <1>4, <3>1, <3>2
  <2>3. CASE size(ownBottom(w), ownAge(w).top) = 0 /\ overflow[w] = <<>>
    <3>1. pc'[w] = "steal"
      BY <1>2, <1>12, <2>3 DEF Drained
    <3>2. (IF Count(Q(w)) = N - 1 THEN 0 ELSE Count(Q(w))) = 0
      BY <2>1, <2>3, OwnViews DEF size
    <3>3. Count(Q(w)) \in Nat /\ Count(Q(w)) <= N - 2
      BY <1>1, ViewFacts DEF QueueInv, SizeInv
    <3>4. Count(Q(w)) = 0
      BY SMTT(30), <3>2, <3>3, NAssumption
    <3>5. Count(Q(w)') = 0
      BY <1>1, <1>12, <3>4, QuietActions, QuietStep DEF SameQueue
    <3> QED BY <2>1, <2>3, <3>1, <3>5 DEF OwnerInv
  <2> QED BY <2>2, <2>3
<1>13. CASE pop_global(w) /\ _age[victim[w]] = oldAge[w]
  <2>1. PICK v \in Workers : v = victim[w]
    BY <1>1 DEF TypeOK
  <2>2. Content(Q(v)) # <<>> /\ Head(Content(Q(v))) = task[w] /\ QueueInv(Q(v))
    BY <1>1, <1>13, <2>1, StolenStep DEF Inv
  <2>3. task'[w] = task[w] /\ pc'[w] = "work"
    <3>1. Got(w, task[w], "overflow")
      BY <1>13 DEF pop_global
    <3>2. pc'[w] = "work"
      BY <1>2, <3>1 DEF Got
    <3> QED BY <1>5, <3>1, <3>2
  <2>4. pc'[w] \in BusyPcs
    BY <2>3 DEF BusyPcs
  <2> QED BY <1>4, <2>2, <2>3, <2>4, TaskOfContent
<1>14. CASE \/ steal(w) \/ ReadBottom(w) \/ ReadElem(w) \/ Check(w) \/ PeekBottom(w) \/ PeekTop(w)
            \/ (pop_global(w) /\ _age[victim[w]] # oldAge[w])
            \/ offer_termination(w) \/ Withdraw(w)
  <2>1. Quiet(w)
    BY <1>1, <1>14, QuietActions
  <2>2. overflow' = overflow
    BY <1>14 DEF steal, ReadBottom, ReadElem, Check, PeekBottom, PeekTop, pop_global,
                 offer_termination, Withdraw
  <2>3. pc[w] \in IdlePcs /\ pc'[w] # "work"
    <3>1. CASE steal(w) \/ ReadBottom(w) \/ ReadElem(w) \/ Check(w) \/ PeekBottom(w) \/ PeekTop(w)
      BY <1>1, <3>1, Moves, PcClasses
    <3>2. CASE pop_global(w) /\ _age[victim[w]] # oldAge[w]
      <4>1. pc[w] = "casTop" /\ pc'[w] = "steal"
        BY <1>2, <3>2 DEF pop_global, Failed
      <4> QED BY <4>1 DEF IdlePcs
    <3>3. CASE offer_termination(w) \/ Withdraw(w)
      <4>1. pc[w] \in {"offer", "withdraw"} /\ pc'[w] \in {"check", "steal"}
        BY <1>1, <3>3, Moves
      <4> QED BY <4>1 DEF IdlePcs, OfferPcs
    <3> QED BY <1>14, <3>1, <3>2, <3>3
  <2> QED BY <1>1, <2>1, <2>2, <2>3, IdleStep
<1> QED BY <1>3, <1>6, <1>7, <1>8, <1>9, <1>10, <1>11, <1>12, <1>13, <1>14 DEF Step

\* A step of any worker keeps what holds of every worker as an owner.
LEMMA OwnerStep ==
  ASSUME TagsLast, Inv, NEW w \in Workers, Step(w) \/ Drain(w), NEW x \in Workers
  PROVE  OwnerInv(x)'
<1>1. CASE x # w
  <2>1. OwnerInv(x) /\ Others(w) /\ (Count(Q(x)) = 0 => Count(Q(x)') = 0)
    BY <1>1, QueueStep, OthersStep DEF Inv
  <2>2. pc'[x] = pc[x] /\ task'[x] = task[x] /\ overflow'[x] = overflow[x]
    BY <1>1, <2>1 DEF Others
  <2> QED BY <2>1, <2>2 DEF OwnerInv
<1> QED BY <1>1, OwnStepOwner

-----------------------------------------------------------------------------
(* The invariant.                                                          *)

\* An empty queue that nobody has used.
LEMMA NewQueue ==
  ASSUME NEW q, QueueType(q), q.buf = <<>>, q.bottom = 0, q.age = NoAge, q.pc = "work"
  PROVE  QueueInv(q) /\ Count(q) = 0
<1>1. BottomOf(q) = 0 /\ AgeOf(q) = NoAge
  BY MemoryView
<1>2. NoAge.top = 0 /\ NoAge.tag = 0 /\ 0 \in Index
  BY SMTT(30), NAssumption DEF NoAge, Index
<1>3. Top(q) = 0 /\ End(q) = 0 /\ AgeOf(q).tag = 0
  BY <1>1, <1>2 DEF Top, End, PopPcs
<1>4. Count(q) = 0
  BY SMTT(30), <1>2, <1>3, DistanceOrder DEF Count
<1>5. q.found \in Nat /\ q.buf \in Seq(Stores) /\ DOMAIN q.buf = {} /\ Len(q.buf) = 0
  BY SMTT(30) DEF QueueType
<1>6. SizeInv(q)
  BY SMTT(30), <1>3, <1>4, <1>5, NAssumption DEF SizeInv
<1>7. OrderInv(q)
  <2>1. Committed(q) = 0
    BY <1>5 DEF Committed
  <2>2. dirty_size(0, 0) = 0 /\ 0 <= 0 /\ 1 .. 0 = {}
    BY SMTT(30), <1>2, DistanceOrder
  <2> QED BY <1>3, <1>4, <2>1, <2>2 DEF OrderInv, Ordered
<1>8. ElemInv(q)
  <2>1. \A i \in Index : ~(dirty_size(i, 0) < 0)
    BY SMTT(30), <1>2, DistanceNat
  <2> QED BY <1>3, <1>4, <2>1 DEF ElemInv
<1>9. AgeInv(q) /\ PopInv(q)
  BY <1>5 DEF AgeInv, PopInv, PopPcs
<1>10. Settled(q.buf)
  BY <1>5 DEF Settled
<1> QED BY <1>4, <1>6, <1>7, <1>8, <1>9, <1>10 DEF QueueInv

\* The invariant implies the asserts of the code.
LEMMA InvAsserts ==
  ASSUME TagsLast, Inv
  PROVE  Asserts
<1>1. _bottom \in [Workers -> Index] /\ _age \in [Workers -> Ages] /\ OfferInv
  BY DEF Inv, TypeOK
<1>2. ASSUME NEW w \in Workers
      PROVE  /\ pc[w] \notin PopPcs => dirty_size(ownBottom(w), ownAge(w).top) # N - 1
             /\ pc[w] \in IdlePcs => ownBottom(w) = ownAge(w).top /\ overflow[w] = <<>>
  <2>1. QueueInv(Q(w)) /\ OwnerInv(w)
    BY DEF Inv
  <2>2. /\ Count(Q(w)) \in Nat /\ Count(Q(w)) <= N - 2
        /\ BottomOf(Q(w)) \in Index /\ Top(Q(w)) \in Index
    BY <2>1, ViewFacts DEF QueueInv, SizeInv
  <2>3. ASSUME pc[w] \notin PopPcs
        PROVE  /\ dirty_size(ownBottom(w), ownAge(w).top) # N - 1
               /\ Count(Q(w)) = 0 => ownBottom(w) = ownAge(w).top
    <3>1. /\ dirty_size(BottomOf(Q(w)), Top(Q(w))) = Count(Q(w))
          /\ ownBottom(w) = BottomOf(Q(w)) /\ ownAge(w).top = Top(Q(w))
      BY <2>3, OwnViews
    <3>2. Count(Q(w)) # N - 1
      BY SMTT(30), <2>2, NAssumption
    <3>3. Count(Q(w)) = 0 => BottomOf(Q(w)) = Top(Q(w))
      BY SMTT(30), <2>2, <3>1, DistanceOrder
    <3> QED BY <3>1, <3>2, <3>3
  <2>4. ASSUME pc[w] \in IdlePcs
        PROVE  pc[w] \notin PopPcs /\ Count(Q(w)) = 0 /\ overflow[w] = <<>>
    BY <2>1, <2>4 DEF OwnerInv, IdlePcs, OfferPcs, PopPcs
  <2> QED BY <2>3, <2>4
<1> QED BY <1>1, <1>2 DEF Asserts, OfferInv, IdlePcs

=============================================================================
