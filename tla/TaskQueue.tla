------------------------------ MODULE TaskQueue ------------------------------
(***************************************************************************)
(* The work stealing of the parallel collectors, gc/shared/taskqueue:      *)
(* the queues, with an owner that works at the bottom and thieves that     *)
(* work at the top; the overflow stacks; the terminator; and the loop of   *)
(* the scavenger's workers that drives them (gc/parallel).                 *)
(*                                                                         *)
(* A step is one access to memory that another thread may also access.     *)
(* Memory is that of x86: a thread's stores wait in its buffer, from which *)
(* they reach memory in their order, and a fence or an atomic operation    *)
(* waits until the buffer is empty.                                        *)
(***************************************************************************)
EXTENDS Integers, Sequences, FiniteSets

CONSTANTS Workers,
          N,          \* the length of a queue's array
          TagValues,  \* how many values the tag of an age has (2^32)
          MaxFound,   \* how many tasks each worker finds: the input
          Roots, None

\* In the code N is a power of two; no more than this matters.
ASSUME NAssumption == N \in Nat /\ N >= 4 /\ TagValues \in Nat \ {0}
ASSUME WorkersAssumption == IsFiniteSet(Workers) /\ MaxFound \in [Workers -> Nat]

VARIABLES _bottom, _age, _elems,  \* of each worker's queue
          buf,                    \* stores of each worker not yet in memory
          overflow,               \* _overflow_stack of each worker's queue
          _offered_termination,
          pc,                     \* where each worker is
          back,                   \* where it goes on when its task is done
          task,                   \* the task it has, or has read
          localBot, oldAge,       \* locals of push and the pops
          victim, tries,          \* locals of steal
          next,                   \* the next queue to look at in peek()
          found                   \* how many tasks it has found so far

queues == <<_bottom, _age, _elems>>
popVars == <<localBot, oldAge>>
stealVars == <<victim, tries>>
vars == <<queues, buf, overflow, _offered_termination, pc, back, task, popVars,
          stealVars, next, found>>

Index == 0..(N - 1)
Ages == [top : Index, tag : 0..(TagValues - 1)]
Tasks == UNION {{<<w, k>> : k \in 1..MaxFound[w]} : w \in Workers}

ASSUME NoneAssumption == None \notin Tasks \cup {Roots}

NoAge == [top |-> 0, tag |-> 0]

increment_index(ind) == (ind + 1) % N

decrement_index(ind) == (ind - 1) % N

dirty_size(bot, top) == (bot - top) % N

size(bot, top) ==
  LET sz == dirty_size(bot, top) IN IF sz = N - 1 THEN 0 ELSE sz

max_elems == N - 2

\* Age(top, tag) with the tag counted on, in its width.
NewAge(top, tag) == [top |-> top, tag |-> (tag + 1) % TagValues]

\* Age::increment: the tag counts the times the top wraps around.
Increment(age) ==
  LET top == increment_index(age.top)
  IN IF top = 0 THEN NewAge(top, age.tag) ELSE [age EXCEPT !.top = top]

-----------------------------------------------------------------------------
(* Stores and what their thread sees of them. *)

Bottom(v) == [to |-> "bottom", at |-> 0, val |-> v]
AgeStore(a) == [to |-> "age", at |-> 0, val |-> a]
Elem(i, t) == [to |-> "elem", at |-> i, val |-> t]

\* What a location holds for the thread with the buffer b: the latest of its
\* own stores to it or, if none is pending, what is in memory.
Seen(b, to, at, memory) ==
  LET mine == {i \in DOMAIN b : b[i].to = to /\ b[i].at = at}
      last == {i \in mine : \A j \in mine : j <= i}
  IN IF last = {} THEN memory ELSE b[CHOOSE i \in last : TRUE].val

ownBottom(w) == Seen(buf[w], "bottom", 0, _bottom[w])

ownAge(w) == Seen(buf[w], "age", 0, _age[w])

ownElem(w, i) == Seen(buf[w], "elem", i, _elems[w][i])

Fenced(w) == buf[w] = <<>>

\* The oldest store of w reaches memory.
Drain(w) ==
  /\ buf[w] # <<>>
  /\ LET s == Head(buf[w]) IN
       /\ _bottom' = IF s.to = "bottom" THEN [_bottom EXCEPT ![w] = s.val] ELSE _bottom
       /\ _age' = IF s.to = "age" THEN [_age EXCEPT ![w] = s.val] ELSE _age
       /\ _elems' = IF s.to = "elem" THEN [_elems EXCEPT ![w][s.at] = s.val] ELSE _elems
  /\ buf' = [buf EXCEPT ![w] = Tail(@)]
  /\ UNCHANGED <<overflow, _offered_termination, pc, back, task, popVars,
                 stealVars, next, found>>

Init ==
  /\ _bottom = [w \in Workers |-> 0]
  /\ _age = [w \in Workers |-> NoAge]
  /\ _elems = [w \in Workers |-> [i \in Index |-> None]]
  /\ buf = [w \in Workers |-> <<>>]
  /\ overflow = [w \in Workers |-> <<>>]
  /\ _offered_termination = 0
  /\ pc = [w \in Workers |-> "work"]
  /\ back = [w \in Workers |-> "overflow"]
  /\ task = [w \in Workers |-> Roots]
  /\ localBot = [w \in Workers |-> 0]
  /\ oldAge = [w \in Workers |-> NoAge]
  /\ victim = [w \in Workers |-> w]
  /\ tries = [w \in Workers |-> 0]
  /\ next = [w \in Workers |-> {}]
  /\ found = [w \in Workers |-> 0]

Goto(w, l) == pc' = [pc EXCEPT ![w] = l]

\* The locals of a pop or a steal that is over.
Forget(w) ==
  /\ localBot' = [localBot EXCEPT ![w] = 0]
  /\ oldAge' = [oldAge EXCEPT ![w] = NoAge]

\* A pop or a steal got the task t; when t is done, the worker goes on at l.
Got(w, t, l) ==
  /\ task' = [task EXCEPT ![w] = t]
  /\ back' = [back EXCEPT ![w] = l]
  /\ Goto(w, "work") /\ Forget(w)

-----------------------------------------------------------------------------
(* The owner's end. *)

PushBottomFirst(w) ==
  /\ pc[w] = "work" /\ found[w] < MaxFound[w]
  /\ found' = [found EXCEPT ![w] = @ + 1]
  /\ LET bot == ownBottom(w)
         n == dirty_size(bot, ownAge(w).top)
         t == <<w, found'[w]>>
     IN IF n < max_elems \/ n = N - 1
        THEN /\ buf' = [buf EXCEPT ![w] =
                          Append(Append(@, Bottom(increment_index(bot))), Elem(bot, t))]
             /\ UNCHANGED overflow
        ELSE /\ overflow' = [overflow EXCEPT ![w] = Append(@, t)]
             /\ UNCHANGED buf
  /\ UNCHANGED <<queues, _offered_termination, pc, back, task, popVars,
                 stealVars, next>>

\* OverflowTaskQueue::push and GenericTaskQueue::push, push_slow: the worker
\* found a task in what it is at work on.
Push(w) ==
  /\ pc[w] = "work" /\ found[w] < MaxFound[w]
  /\ found' = [found EXCEPT ![w] = @ + 1]
  /\ LET bot == ownBottom(w)
         n == dirty_size(bot, ownAge(w).top)
         t == <<w, found'[w]>>
     IN IF n < max_elems \/ n = N - 1
        THEN /\ buf' = [buf EXCEPT ![w] =
                          Append(Append(@, Elem(bot, t)), Bottom(increment_index(bot)))]
             /\ UNCHANGED overflow
        ELSE /\ overflow' = [overflow EXCEPT ![w] = Append(@, t)]
             /\ UNCHANGED buf
  /\ UNCHANGED <<queues, _offered_termination, pc, back, task, popVars,
                 stealVars, next>>

\* The task is done.
Processed(w) ==
  /\ pc[w] = "work"
  /\ Goto(w, back[w])
  /\ task' = [task EXCEPT ![w] = None]
  /\ back' = [back EXCEPT ![w] = "overflow"]
  /\ UNCHANGED <<queues, buf, overflow, _offered_termination, popVars,
                 stealVars, next, found>>

pop_overflow(w) ==
  /\ pc[w] = "overflow"
  /\ IF overflow[w] = <<>>
     THEN Goto(w, "local") /\ UNCHANGED <<overflow, back, task, popVars>>
     ELSE /\ Got(w, overflow[w][Len(overflow[w])], "overflow")
          /\ overflow' = [overflow EXCEPT ![w] = SubSeq(@, 1, Len(@) - 1)]
  /\ UNCHANGED <<queues, buf, _offered_termination, stealVars, next, found>>

\* pop_local up to its fence.
pop_local(w) ==
  /\ pc[w] = "local"
  /\ IF dirty_size(ownBottom(w), ownAge(w).top) = 0
     THEN Goto(w, "drained") /\ UNCHANGED <<buf, localBot>>
     ELSE /\ localBot' = [localBot EXCEPT ![w] = decrement_index(ownBottom(w))]
          /\ buf' = [buf EXCEPT ![w] = Append(@, Bottom(localBot'[w]))]
          /\ Goto(w, "fence")
  /\ UNCHANGED <<queues, overflow, _offered_termination, back, task, oldAge,
                 stealVars, next, found>>

\* After the fence: the task is the owner's if the top is still below it.
Reread(w) ==
  /\ pc[w] = "fence" /\ Fenced(w)
  /\ IF size(localBot[w], _age[w].top) > 0
     THEN Got(w, _elems[w][localBot[w]], "local")
     ELSE Goto(w, "slow") /\ UNCHANGED <<back, task, popVars>>
  /\ UNCHANGED <<queues, buf, overflow, _offered_termination, stealVars, next,
                 found>>

LoseKeep(w, new) == Goto(w, "drained") /\ Forget(w) /\ UNCHANGED <<buf, back, task>>

\* The end of pop_local_slow when a thief has the task.
Lose(w, new) ==
  /\ buf' = [buf EXCEPT ![w] = Append(@, AgeStore(new))]
  /\ Goto(w, "drained") /\ Forget(w)
  /\ UNCHANGED <<back, task>>

\* pop_local_slow is called with the age read once more.
ReadAge(w) ==
  /\ pc[w] = "slow"
  /\ IF localBot[w] = _age[w].top
     THEN /\ oldAge' = [oldAge EXCEPT ![w] = _age[w]]
          /\ Goto(w, "cas") /\ UNCHANGED <<buf, back, task, localBot>>
     ELSE Lose(w, NewAge(localBot[w], _age[w].tag))
  /\ UNCHANGED <<queues, overflow, _offered_termination, stealVars, next, found>>

pop_local_slow(w) ==
  /\ pc[w] = "cas" /\ Fenced(w)
  /\ LET new == NewAge(localBot[w], oldAge[w].tag) IN
       IF _age[w] = oldAge[w]
       THEN /\ _age' = [_age EXCEPT ![w] = new]
            /\ Got(w, _elems[w][localBot[w]], "local") /\ UNCHANGED buf
       ELSE Lose(w, new) /\ UNCHANGED _age
  /\ UNCHANGED <<_bottom, _elems, overflow, _offered_termination, stealVars,
                 next, found>>

\* The end of the do loop of drain_stacks_depth(true).
Drained(w) ==
  /\ pc[w] = "drained"
  /\ Goto(w, IF size(ownBottom(w), ownAge(w).top) # 0 \/ overflow[w] # <<>>
             THEN "overflow" ELSE "steal")
  /\ UNCHANGED <<queues, buf, overflow, _offered_termination, back, task,
                 popVars, stealVars, next, found>>

-----------------------------------------------------------------------------
(* The thieves' end. *)

\* steal and steal_best_of_2: another queue, its choice left open; and
\* pop_global's first read.  With one queue every attempt fails.
steal(w) ==
  /\ pc[w] = "steal"
  /\ \/ /\ tries[w] < 2 * Cardinality(Workers)
        /\ \E v \in Workers \ {w} :
             /\ victim' = [victim EXCEPT ![w] = v]
             /\ oldAge' = [oldAge EXCEPT ![w] = _age[v]]
        /\ Goto(w, "readBottom") /\ UNCHANGED tries
     \/ /\ Workers # {w} => tries[w] = 2 * Cardinality(Workers)
        /\ tries' = [tries EXCEPT ![w] = 0]
        /\ Goto(w, "offer") /\ UNCHANGED <<victim, oldAge>>
  /\ UNCHANGED <<queues, buf, overflow, _offered_termination, back, task,
                 localBot, next, found>>

\* One more attempt failed.
Failed(w) ==
  /\ tries' = [tries EXCEPT ![w] = @ + 1]
  /\ victim' = [victim EXCEPT ![w] = w]
  /\ task' = [task EXCEPT ![w] = None]
  /\ Goto(w, "steal") /\ Forget(w)
  /\ UNCHANGED back

ReadBottom(w) ==
  /\ pc[w] = "readBottom"
  /\ IF size(_bottom[victim[w]], oldAge[w].top) = 0
     THEN Failed(w)
     ELSE Goto(w, "readElem") /\ UNCHANGED <<back, task, popVars, stealVars>>
  /\ UNCHANGED <<queues, buf, overflow, _offered_termination, next, found>>

ReadElem(w) ==
  /\ pc[w] = "readElem"
  /\ task' = [task EXCEPT ![w] = _elems[victim[w]][oldAge[w].top]]
  /\ Goto(w, "casTop")
  /\ UNCHANGED <<queues, buf, overflow, _offered_termination, back, popVars,
                 stealVars, next, found>>

pop_global(w) ==
  /\ pc[w] = "casTop" /\ Fenced(w)
  /\ IF _age[victim[w]] = oldAge[w]
     THEN /\ _age' = [_age EXCEPT ![victim[w]] = Increment(@)]
          /\ Got(w, task[w], "overflow")
          /\ tries' = [tries EXCEPT ![w] = 0]
          /\ victim' = [victim EXCEPT ![w] = w]
     ELSE Failed(w) /\ UNCHANGED _age
  /\ UNCHANGED <<_bottom, _elems, buf, overflow, _offered_termination, next,
                 found>>

-----------------------------------------------------------------------------
(* ParallelTaskTerminator::offer_termination. *)

\* Atomic::inc.
offer_termination(w) ==
  /\ pc[w] = "offer" /\ Fenced(w)
  /\ _offered_termination' = _offered_termination + 1
  /\ Goto(w, "check")
  /\ UNCHANGED <<queues, buf, overflow, back, task, popVars, stealVars, next,
                 found>>

\* The head of the loop; spinning, yielding and sleeping only take time.
Check(w) ==
  /\ pc[w] = "check"
  /\ IF _offered_termination = Cardinality(Workers)
     THEN Goto(w, "done") /\ UNCHANGED next
     ELSE Goto(w, "peek") /\ next' = [next EXCEPT ![w] = Workers]
  /\ UNCHANGED <<queues, buf, overflow, _offered_termination, back, task,
                 popVars, stealVars, found>>

PeekBottomOnce(w) ==
  /\ pc[w] = "peek"
  /\ IF next[w] = {}
     THEN Goto(w, "withdraw") /\ UNCHANGED <<victim, localBot>>
     ELSE LET q == CHOOSE q \in next[w] : TRUE
          IN /\ victim' = [victim EXCEPT ![w] = q]
             /\ localBot' = [localBot EXCEPT ![w] = _bottom[q]]
             /\ Goto(w, "peekTop")
  /\ UNCHANGED <<queues, buf, overflow, _offered_termination, back, task,
                 oldAge, tries, next, found>>

\* peek() of one more queue: its bottom, then its top.
PeekBottom(w) ==
  /\ pc[w] = "peek"
  /\ IF next[w] = {}
     THEN Goto(w, "check") /\ UNCHANGED <<victim, localBot>>
     ELSE LET q == CHOOSE q \in next[w] : TRUE
          IN /\ victim' = [victim EXCEPT ![w] = q]
             /\ localBot' = [localBot EXCEPT ![w] = _bottom[q]]
             /\ Goto(w, "peekTop")
  /\ UNCHANGED <<queues, buf, overflow, _offered_termination, back, task,
                 oldAge, tries, next, found>>

PeekTop(w) ==
  /\ pc[w] = "peekTop"
  /\ IF localBot[w] # _age[victim[w]].top
     THEN Goto(w, "withdraw") /\ next' = [next EXCEPT ![w] = {}]
     ELSE Goto(w, "peek") /\ next' = [next EXCEPT ![w] = @ \ {victim[w]}]
  /\ victim' = [victim EXCEPT ![w] = w]
  /\ Forget(w)
  /\ UNCHANGED <<queues, buf, overflow, _offered_termination, back, task,
                 tries, found>>

\* Atomic::dec, and back to the loop of StealTask::do_it.
Withdraw(w) ==
  /\ pc[w] = "withdraw" /\ Fenced(w)
  /\ _offered_termination' = _offered_termination - 1
  /\ Goto(w, "steal")
  /\ UNCHANGED <<queues, buf, overflow, back, task, popVars, stealVars, next,
                 found>>

Step(w) ==
  \/ Push(w) \/ Processed(w) \/ pop_overflow(w) \/ pop_local(w) \/ Reread(w)
  \/ ReadAge(w) \/ pop_local_slow(w) \/ Drained(w)
  \/ steal(w) \/ ReadBottom(w) \/ ReadElem(w) \/ pop_global(w)
  \/ offer_termination(w) \/ Check(w) \/ PeekBottom(w) \/ PeekTop(w) \/ Withdraw(w)

Next == \E w \in Workers : Step(w) \/ Drain(w)

Spec == Init /\ [][Next]_vars

\* Every worker runs, and every store reaches memory in the end.
FairSpec == Spec /\ \A w \in Workers : WF_vars(Step(w)) /\ WF_vars(Drain(w))

-----------------------------------------------------------------------------
(* Properties. *)

PopPcs == {"fence", "slow", "cas"}
OfferPcs == {"check", "peek", "peekTop", "withdraw", "done"}

\* The asserts of the code: indexes stay in range; outside pop_local the owner
\* never finds its own queue with a bottom just below its top ("Shouldn't be
\* possible"), however thieves interfered with the pops before; after
\* drain_stacks_depth both stacks are empty; and _offered_termination is the
\* number of workers that have offered and neither withdrawn nor stopped.
Asserts ==
  /\ _bottom \in [Workers -> Index] /\ _age \in [Workers -> Ages]
  /\ _offered_termination = Cardinality({w \in Workers : pc[w] \in OfferPcs})
  /\ \A w \in Workers :
       /\ pc[w] \notin PopPcs => dirty_size(ownBottom(w), ownAge(w).top) # N - 1
       /\ pc[w] \in {"steal", "readBottom", "readElem", "casTop", "offer"} \cup OfferPcs =>
            ownBottom(w) = ownAge(w).top /\ overflow[w] = <<>>

\* The tasks in w's queue: in pop_local, up to the one it is after.
Contents(w) ==
  LET bot == IF pc[w] \in PopPcs THEN increment_index(localBot[w]) ELSE ownBottom(w)
      top == ownAge(w).top
  IN [i \in 1..dirty_size(bot, top) |-> ownElem(w, (top + i - 1) % N)]

Pool == INSTANCE WorkPool
  WITH deque <- [w \in Workers |-> Contents(w)],
       pile <- overflow,
       current <- [w \in Workers |-> IF pc[w] = "work" THEN task[w] ELSE None],
       stopped <- {w \in Workers : pc[w] = "done"}

\* The queues, their overflow stacks and the terminator are a pool of work:
\* a task popped or stolen is the one at that end of the queue and leaves it
\* in that moment, so none is taken twice or lost, whatever thieves and owner
\* do to the last task, to an index that wrapped around or to an age that was
\* read long ago; and offer_termination() is true only when no task is left.
ImplementsWorkPool == Pool!Spec

\* Every worker is told to stop in the end: no queue looks as if it had work
\* for ever, and no offer is withdrawn for ever.
Terminates == <>(\A w \in Workers : pc[w] = "done")
=============================================================================
