----------------------------- MODULE VMOperations -----------------------------
(***************************************************************************)
(* VMThread and VMOperationQueue of runtime/vmThread.cpp: threads submit   *)
(* operations with VMThread::execute(), the VM thread takes them from the  *)
(* two priority queues, runs them, at a safepoint where they ask for it,   *)
(* and releases the submitters; the thread that destroys the VM makes the  *)
(* VM thread exit.                                                         *)
(*                                                                         *)
(* The locks are monitors as MonitorSpec describes them, which NativeMonitor *)
(* implements; a safepoint is what the module Safepoint establishes: from  *)
(* its begin on no Java thread leaves a safe place, and it is reached when *)
(* all are in one.                                                         *)
(***************************************************************************)
EXTENDS Integers, Sequences, Lists

CONSTANTS JavaThreads, OtherThreads,  \* who submits: Java threads; GC and other VM threads
          VM, Destroyer,              \* the VM thread; the caller of wait_for_vm_thread_exit()
          NULL,
          Modes,                      \* thread -> modes of the operations it submits
          Nests,                      \* modes of operations that run nested ones
          TraceLongCompiles,          \* the flag
          MaxCounter,                 \* 10 in remove_next()
          MaxOther                    \* bound on the operations of OtherThreads

Threads  == JavaThreads \cup OtherThreads
Everyone == Threads \cup {VM, Destroyer}

AllModes == {"safepoint", "no_safepoint", "concurrent", "async_safepoint"}

Operations == [caller : Threads, mode : AllModes, nested : BOOLEAN]

ASSUME VMOperationsAssumption ==
  /\ JavaThreads \cap OtherThreads = {} /\ VM \notin Threads /\ Destroyer \notin Threads \cup {VM}
  /\ NULL \notin Everyone \cup Operations
  /\ Modes \in [Threads -> SUBSET AllModes] /\ Nests \subseteq AllModes
  /\ MaxCounter \in Nat /\ MaxOther \in Nat

ASSUME TraceAssumption == TraceLongCompiles \in BOOLEAN

VARIABLES
  queue, counter, drain_list,      \* _queue (priority -> operations), _queue_counter, _drain_list
  cur, safepoint_ops, outer,       \* _cur_vm_operation; locals safepoint_ops (or next), prev_vm_operation
  timedout,                        \* local of loop()
  should_terminate, terminated,
  sync,                            \* the safepoint: "no", "begun" or "reached"
  pc,                              \* who -> where it is
  mine,                            \* thread -> the operation of its execute()
  debt,                            \* thread -> its ticket minus its completed count
  live,                            \* operations that are allocated
  others,                          \* operations OtherThreads have submitted
  qHolder, qWaiting, qReturning,   \* VMOperationQueue_lock
  rHolder, rWaiting, rReturning,   \* VMOperationRequest_lock
  tHolder, tWaiting, tReturning    \* _terminate_lock

qLock == <<qHolder, qWaiting, qReturning>>
rLock == <<rHolder, rWaiting, rReturning>>
tLock == <<tHolder, tWaiting, tReturning>>
locks == <<qLock, rLock, tLock>>
queues == <<queue, counter>>
vmLocals == <<cur, safepoint_ops, outer, timedout>>
ending == <<should_terminate, terminated>>
clients == <<mine, debt, others>>
vars == <<queues, drain_list, vmLocals, ending, sync, pc, clients, live, locks>>

Q == INSTANCE MonitorSpec WITH Threads <- Everyone,
       holder <- qHolder, waiting <- qWaiting, returning <- qReturning
R == INSTANCE MonitorSpec WITH Threads <- Everyone,
       holder <- rHolder, waiting <- rWaiting, returning <- rReturning
T == INSTANCE MonitorSpec WITH Threads <- Everyone,
       holder <- tHolder, waiting <- tWaiting, returning <- tReturning

Goto(who, l) == pc' = [pc EXCEPT ![who] = l]

-----------------------------------------------------------------------------
(* The modes of an operation.                                              *)

evaluate_at_safepoint(op) == op.mode \in {"safepoint", "async_safepoint"}

evaluate_concurrently(op) == op.mode \in {"concurrent", "async_safepoint"}

\* The VM thread deletes these; the others are on the stack of their caller.
is_cheap_allocated(op) == evaluate_concurrently(op)

Priority(op) == IF evaluate_at_safepoint(op) THEN "Safepoint" ELSE "Medium"

Init ==
  /\ queue = [p \in {"Safepoint", "Medium"} |-> <<>>] /\ counter = 0 /\ drain_list = <<>>
  /\ cur = NULL /\ safepoint_ops = <<>> /\ outer = NULL /\ timedout = FALSE
  /\ should_terminate = FALSE /\ terminated = FALSE
  /\ sync = "no"
  /\ pc = [who \in Everyone |-> IF who = VM THEN "lock" ELSE "out"]
  /\ mine = [t \in Threads |-> NULL] /\ debt = [t \in Threads |-> 0]
  /\ live = {} /\ others = 0
  /\ Q!Init /\ R!Init /\ T!Init

-----------------------------------------------------------------------------
(* VMThread::execute() by a thread that is not the VM thread.              *)

\* A Java thread at a safepoint goes on only when it is over.
MayRun(t) == t \in JavaThreads => sync = "no"

\* The prologue agreed: take a ticket, if the operation blocks.
Submit(t) ==
  /\ pc[t] = "out" /\ MayRun(t)
  /\ \E m \in Modes[t] :
       LET op == [caller |-> t, mode |-> m, nested |-> FALSE] IN
         /\ op \notin live /\ live' = live \cup {op}
         /\ mine' = [mine EXCEPT ![t] = op]
         /\ debt' = IF evaluate_concurrently(op) THEN debt ELSE [debt EXCEPT ![t] = @ + 1]
         /\ others' = IF t \in OtherThreads THEN others + 1 ELSE others
  /\ others' <= MaxOther
  /\ Goto(t, "lockQueue")
  /\ UNCHANGED <<queues, drain_list, vmLocals, ending, sync, locks>>

\* No safepoint check here: a Java thread that waits for this lock is not safe.
LockQueue(t) ==
  /\ pc[t] = "lockQueue" /\ Q!Enter(t) /\ Goto(t, "add")
  /\ UNCHANGED <<queues, drain_list, vmLocals, ending, sync, clients, live, rLock, tLock>>

Add(t) ==
  /\ pc[t] = "add"
  /\ queue' = [queue EXCEPT ![Priority(mine[t])] = Append(@, mine[t])]
  /\ IF qWaiting = {} THEN UNCHANGED qLock ELSE Q!Notify(t, VM)
  /\ Goto(t, "unlockQueue")
  /\ UNCHANGED <<counter, drain_list, vmLocals, ending, sync, clients, live, rLock, tLock>>

UnlockQueue(t) ==
  /\ pc[t] = "unlockQueue" /\ Q!Exit(t)
  /\ \/ evaluate_concurrently(mine[t]) /\ Goto(t, "out") /\ mine' = [mine EXCEPT ![t] = NULL]
     \/ ~evaluate_concurrently(mine[t]) /\ Goto(t, "request") /\ UNCHANGED mine
  /\ UNCHANGED <<queues, drain_list, vmLocals, ending, sync, debt, others, live, rLock, tLock>>

\* Lock VMOperationRequest_lock, or come back from a wait on it.  A Java
\* thread that had to block for it stops for a safepoint with the lock.
LockRequest(t) ==
  /\ pc[t] = "request" /\ R!Enter(t)
  /\ \/ (t \in JavaThreads => sync # "reached") /\ Goto(t, "check")
     \/ ~MayRun(t) /\ Goto(t, "stopped")
  /\ UNCHANGED <<queues, drain_list, vmLocals, ending, sync, clients, live, qLock, tLock>>

Released(t) ==
  /\ pc[t] = "stopped" /\ sync = "no" /\ Goto(t, "check")
  /\ UNCHANGED <<queues, drain_list, vmLocals, ending, sync, clients, live, locks>>

\* while (completed count < ticket) wait
Check(t) ==
  /\ pc[t] = "check"
  /\ \/ debt[t] > 0 /\ R!Wait(t) /\ Goto(t, "request")
     \/ debt[t] <= 0 /\ R!Exit(t) /\ Goto(t, "epilogue")
  /\ UNCHANGED <<queues, drain_list, vmLocals, ending, sync, clients, live, qLock, tLock>>

\* The epilogue, and the operation goes with the caller's frame.
Epilogue(t) ==
  /\ pc[t] = "epilogue"
  /\ live' = live \ {mine[t]} /\ mine' = [mine EXCEPT ![t] = NULL]
  /\ Goto(t, "out")
  /\ UNCHANGED <<queues, drain_list, vmLocals, ending, sync, debt, others, locks>>

Client(t) ==
  \/ LockQueue(t) \/ Add(t) \/ UnlockQueue(t) \/ LockRequest(t) \/ Released(t)
  \/ Check(t) \/ Epilogue(t)

-----------------------------------------------------------------------------
(* VMThread::wait_for_vm_thread_exit().                                    *)

Terminate ==
  /\ \/ pc[Destroyer] = "out" /\ Q!Enter(Destroyer) /\ Goto(Destroyer, "terminate")
        /\ UNCHANGED should_terminate
     \/ /\ pc[Destroyer] = "terminate" /\ should_terminate' = TRUE
        /\ IF qWaiting = {} THEN UNCHANGED qLock ELSE Q!Notify(Destroyer, VM)
        /\ Goto(Destroyer, "terminateUnlock")
     \/ pc[Destroyer] = "terminateUnlock" /\ Q!Exit(Destroyer) /\ Goto(Destroyer, "lockTerminate")
        /\ UNCHANGED should_terminate
  /\ UNCHANGED <<queues, drain_list, vmLocals, terminated, sync, clients, live, rLock, tLock>>

AwaitExit ==
  /\ \/ pc[Destroyer] = "lockTerminate" /\ T!Enter(Destroyer) /\ Goto(Destroyer, "await")
     \/ /\ pc[Destroyer] = "await" /\ ~terminated
        /\ T!Wait(Destroyer) /\ Goto(Destroyer, "lockTerminate")
     \/ pc[Destroyer] = "await" /\ terminated /\ T!Exit(Destroyer) /\ Goto(Destroyer, "destroyed")
  /\ UNCHANGED <<queues, drain_list, vmLocals, ending, sync, clients, live, qLock, rLock>>

-----------------------------------------------------------------------------
(* VMThread::loop().                                                       *)

\* SafepointSynchronize::begin() and end(), and where they are called.
AfterBegin == [runBegin |-> "eval", forceBegin |-> "forceEnd", nestBegin |-> "nestedSafe",
               intervalBegin |-> "intervalEnd", exitBegin |-> "exitLock"]

AfterEnd == [runEnd |-> "lockNotify", forceEnd |-> "relock", nestedSafe |-> "nestReturn",
             intervalEnd |-> "lock"]

Begin ==
  /\ pc[VM] \in DOMAIN AfterBegin /\ sync = "no" /\ sync' = "begun"
  /\ UNCHANGED <<queues, drain_list, vmLocals, ending, pc, clients, live, locks>>

Reach ==
  /\ sync = "begun" /\ \A t \in JavaThreads : pc[t] \in {"out", "request", "stopped"}
  /\ sync' = "reached" /\ Goto(VM, AfterBegin[pc[VM]])
  /\ UNCHANGED <<queues, drain_list, vmLocals, ending, clients, live, locks>>

End ==
  /\ pc[VM] \in DOMAIN AfterEnd
  /\ sync' = "no" /\ Goto(VM, AfterEnd[pc[VM]])
  /\ UNCHANGED <<queues, drain_list, vmLocals, ending, clients, live, locks>>

\* queue_remove_front and queue_drain.
HeadOf(p) == IF queue[p] = <<>> THEN NULL ELSE Head(queue[p])

Without(p) == IF queue[p] = <<>> THEN queue ELSE [queue EXCEPT ![p] = Tail(@)]

\* Mutant: the safepoint queue always goes first.
FromSafepoint == IF queue["Safepoint"] = <<>> THEN "Medium" ELSE "Safepoint"

\* remove_next: the queue it takes from; every MaxCounter + 1 calls the
\* Medium queue goes first.
From ==
  LET high == IF counter < MaxCounter THEN "Safepoint" ELSE "Medium"
      low  == IF counter < MaxCounter THEN "Medium" ELSE "Safepoint"
  IN  IF queue[high] = <<>> THEN low ELSE high

Count == counter' = IF counter < MaxCounter THEN counter + 1 ELSE 0

LockLoop ==
  /\ pc[VM] \in {"lock", "relock"} /\ Q!Enter(VM)
  /\ Goto(VM, IF pc[VM] = "lock" THEN "take" ELSE "retake")
  /\ UNCHANGED <<queues, drain_list, vmLocals, ending, sync, clients, live, rLock, tLock>>

\* The head of the inner while with the operation op just taken, and the
\* test after it.  What is done under the lock is one step.
Loop(op) ==
  \/ should_terminate /\ Q!Exit(VM) /\ Goto(VM, "exitBegin")
  \/ ~should_terminate /\ op # NULL /\ Q!Exit(VM) /\ Goto(VM, "run")
  \/ ~should_terminate /\ op = NULL /\ Q!Wait(VM) /\ Goto(VM, "waiting")

Take ==
  /\ pc[VM] = "take"
  /\ cur' = HeadOf(From) /\ queue' = Without(From) /\ Count
  /\ Loop(HeadOf(From))
  /\ UNCHANGED <<drain_list, safepoint_ops, outer, timedout, ending, sync, clients, live, rLock, tLock>>

Timeout ==
  /\ pc[VM] = "waiting" /\ Q!TimeOut(VM) /\ timedout' = TRUE
  /\ UNCHANGED <<queues, drain_list, cur, safepoint_ops, outer, ending, sync, pc, clients, live, rLock, tLock>>

Woken ==
  /\ pc[VM] = "waiting" /\ Q!Enter(VM) /\ Goto(VM, "woken")
  /\ UNCHANGED <<queues, drain_list, vmLocals, ending, sync, clients, live, rLock, tLock>>

\* Mutant: the queue stays locked during the forced safepoint.
ForceLocked ==
  /\ pc[VM] = "woken" /\ timedout' = FALSE
  /\ \/ timedout /\ Goto(VM, "forceBegin") /\ UNCHANGED qLock
     \/ Goto(VM, "retake") /\ UNCHANGED qLock
  /\ UNCHANGED <<queues, drain_list, cur, safepoint_ops, outer, ending, sync, clients, live, rLock, tLock>>

\* After a timeout there may be cleanup that needs a safepoint.
ForceSafepoint ==
  /\ pc[VM] = "woken" /\ timedout' = FALSE
  /\ \/ timedout /\ Q!Exit(VM) /\ Goto(VM, "forceBegin")
     \/ Goto(VM, "retake") /\ UNCHANGED qLock
  /\ UNCHANGED <<queues, drain_list, cur, safepoint_ops, outer, ending, sync, clients, live, rLock, tLock>>

Retake ==
  /\ pc[VM] = "retake" /\ Count
  /\ cur' = HeadOf(From)
  /\ IF From = "Safepoint"
     THEN /\ queue' = [queue EXCEPT !["Safepoint"] = <<>>]
          /\ safepoint_ops' = IF queue["Safepoint"] = <<>> THEN <<>> ELSE Tail(queue["Safepoint"])
     ELSE queue' = Without(From) /\ UNCHANGED safepoint_ops
  /\ Loop(HeadOf(From))
  /\ UNCHANGED <<drain_list, outer, timedout, ending, sync, clients, live, rLock, tLock>>

\* Mutant: the drained operations are not made known to oops_do().
RunUnlisted ==
  /\ pc[VM] = "run"
  /\ \/ evaluate_at_safepoint(cur) /\ sync' = "begun" /\ Goto(VM, "runBegin")
     \/ ~evaluate_at_safepoint(cur) /\ Goto(VM, "eval") /\ UNCHANGED sync
  /\ UNCHANGED <<queues, drain_list, vmLocals, ending, clients, live, locks>>

Run ==
  /\ pc[VM] = "run"
  /\ \/ /\ evaluate_at_safepoint(cur)
        /\ drain_list' = safepoint_ops /\ sync' = "begun" /\ Goto(VM, "runBegin")
     \/ ~evaluate_at_safepoint(cur) /\ Goto(VM, "eval") /\ UNCHANGED <<drain_list, sync>>
  /\ UNCHANGED <<queues, vmLocals, ending, clients, live, locks>>

-----------------------------------------------------------------------------
(* evaluate_operation(), and execute() by the VM thread.                   *)

\* Mutant: a nested operation begins a safepoint although there is one.
NestBegins ==
  /\ pc[VM] = "eval" /\ cur.mode \in Nests
  /\ \E m \in AllModes :
       LET op == [caller |-> cur.caller, mode |-> m, nested |-> TRUE] IN
         /\ cur' = op /\ live' = live \cup {op}
         /\ Goto(VM, IF evaluate_at_safepoint(op) THEN "nestBegin" ELSE "nested")
  /\ outer' = cur
  /\ UNCHANGED <<queues, drain_list, safepoint_ops, timedout, ending, sync, clients, locks>>

\* The operation runs another one, which inherits its caller.
\* (One nested operation for each operation is the bound.)
Nest ==
  /\ pc[VM] = "eval" /\ cur.mode \in Nests
  /\ \E m \in AllModes :
       LET op == [caller |-> cur.caller, mode |-> m, nested |-> TRUE] IN
         /\ cur' = op /\ live' = live \cup {op}
         /\ Goto(VM, IF evaluate_at_safepoint(op) /\ sync # "reached" THEN "nestBegin" ELSE "nested")
  /\ outer' = cur
  /\ UNCHANGED <<queues, drain_list, safepoint_ops, timedout, ending, sync, clients, locks>>

\* The nested operation has run, and the safepoint begun for it has ended.
NestReturn ==
  /\ pc[VM] \in {"nested", "nestReturn"}
  /\ live' = live \ {cur} /\ cur' = outer /\ outer' = NULL /\ Goto(VM, "evaluated")
  /\ UNCHANGED <<queues, drain_list, safepoint_ops, timedout, ending, sync, clients, locks>>

\* Mutant: asynchronous operations count too.
CompleteAll ==
  /\ pc[VM] \in {"eval", "evaluated"}
  /\ debt' = [debt EXCEPT ![cur.caller] = @ - 1]
  /\ Goto(VM, "delete")
  /\ UNCHANGED <<queues, drain_list, vmLocals, ending, sync, mine, others, live, locks>>

\* The operation has run: tell its caller, unless it does not wait.
Complete ==
  /\ pc[VM] \in {"eval", "evaluated"}
  /\ debt' = IF evaluate_concurrently(cur) THEN debt ELSE [debt EXCEPT ![cur.caller] = @ - 1]
  /\ Goto(VM, "delete")
  /\ UNCHANGED <<queues, drain_list, vmLocals, ending, sync, mine, others, live, locks>>

\* Where loop() goes on; with TraceLongCompiles an operation may have taken
\* long enough to be reported.
AfterDelete ==
  \/ evaluate_at_safepoint(cur) /\ Goto(VM, "batch") /\ UNCHANGED cur
  \/ ~evaluate_at_safepoint(cur) /\ TraceLongCompiles /\ Goto(VM, "trace") /\ UNCHANGED cur
  \/ ~evaluate_at_safepoint(cur) /\ Goto(VM, "lockNotify") /\ cur' = NULL

\* Mutant: the VM thread deletes operations of blocking callers too.
DeleteAlways ==
  /\ pc[VM] = "delete" /\ live' = live \ {cur} /\ AfterDelete
  /\ UNCHANGED <<queues, drain_list, safepoint_ops, outer, timedout, ending, sync, clients, locks>>

Delete ==
  /\ pc[VM] = "delete"
  /\ live' = IF is_cheap_allocated(cur) THEN live \ {cur} ELSE live
  /\ AfterDelete
  /\ UNCHANGED <<queues, drain_list, safepoint_ops, outer, timedout, ending, sync, clients, locks>>

\* The report reads the name of the operation.
Trace ==
  /\ pc[VM] = "trace" /\ cur' = NULL /\ Goto(VM, "lockNotify")
  /\ UNCHANGED <<queues, drain_list, safepoint_ops, outer, timedout, ending, sync, clients, live, locks>>

\* The next of the drained operations; when there is none, a look at the
\* queue without its lock.
Batch ==
  /\ pc[VM] = "batch"
  /\ \/ /\ safepoint_ops # <<>>
        /\ cur' = Head(safepoint_ops)
        /\ safepoint_ops' = Tail(safepoint_ops) /\ drain_list' = Tail(safepoint_ops)
        /\ Goto(VM, "eval")
     \/ /\ safepoint_ops = <<>> /\ queue["Safepoint"] # <<>>
        /\ cur' = NULL /\ Goto(VM, "lockDrain") /\ UNCHANGED <<safepoint_ops, drain_list>>
     \/ /\ safepoint_ops = <<>> /\ queue["Safepoint"] = <<>>
        /\ cur' = NULL /\ drain_list' = <<>> /\ Goto(VM, "runEnd") /\ UNCHANGED safepoint_ops
  /\ UNCHANGED <<queues, outer, timedout, ending, sync, clients, live, locks>>

\* Mutant: the queue is not cleared.
DrainKeeps ==
  /\ \/ /\ pc[VM] = "lockDrain" /\ Q!Enter(VM) /\ Goto(VM, "drain")
        /\ UNCHANGED <<queue, cur, safepoint_ops, drain_list>>
     \/ /\ pc[VM] = "drain" /\ Q!Exit(VM) /\ Goto(VM, "eval")
        /\ UNCHANGED queue
        /\ cur' = Head(queue["Safepoint"])
        /\ safepoint_ops' = Tail(queue["Safepoint"]) /\ drain_list' = Tail(queue["Safepoint"])
  /\ UNCHANGED <<counter, outer, timedout, ending, sync, clients, live, rLock, tLock>>

Drain ==
  /\ \/ /\ pc[VM] = "lockDrain" /\ Q!Enter(VM) /\ Goto(VM, "drain")
        /\ UNCHANGED <<queue, cur, safepoint_ops, drain_list>>
     \/ /\ pc[VM] = "drain" /\ Q!Exit(VM) /\ Goto(VM, "eval")
        /\ queue' = [queue EXCEPT !["Safepoint"] = <<>>]
        /\ cur' = Head(queue["Safepoint"])
        /\ safepoint_ops' = Tail(queue["Safepoint"]) /\ drain_list' = Tail(queue["Safepoint"])
  /\ UNCHANGED <<counter, outer, timedout, ending, sync, clients, live, rLock, tLock>>

LockNotify ==
  /\ pc[VM] = "lockNotify" /\ R!Enter(VM) /\ Goto(VM, "notify")
  /\ UNCHANGED <<queues, drain_list, vmLocals, ending, sync, clients, live, qLock, tLock>>

\* Mutant: notify() in place of notify_all().
NotifyOne ==
  /\ \/ /\ pc[VM] = "notify" /\ Goto(VM, "notified")
        /\ IF rWaiting = {} THEN UNCHANGED rLock ELSE \E t \in rWaiting : R!Notify(VM, t)
     \/ pc[VM] = "notified" /\ R!Exit(VM) /\ Goto(VM, "lock")
  /\ UNCHANGED <<queues, drain_list, vmLocals, ending, sync, clients, live, qLock, tLock>>

\* notify_all(): one waiter after the other.  A safepoint follows if there
\* has been none for too long.
NotifyAll ==
  /\ pc[VM] = "notify"
  /\ \/ \E t \in rWaiting : R!Notify(VM, t) /\ UNCHANGED pc
     \/ rWaiting = {} /\ R!Exit(VM) /\ Goto(VM, "lock")
     \/ rWaiting = {} /\ R!Exit(VM) /\ Goto(VM, "intervalBegin")
  /\ UNCHANGED <<queues, drain_list, vmLocals, ending, sync, clients, live, qLock, tLock>>

\* The end of run(), at a safepoint that nobody ends.  What it does before it
\* takes the lock (verify, log, wait a bounded time for the threads in native
\* code) changes none of this state.
Exit ==
  /\ \/ pc[VM] = "exitLock" /\ T!Enter(VM) /\ Goto(VM, "exitNotify") /\ UNCHANGED terminated
     \/ /\ pc[VM] = "exitNotify" /\ terminated' = TRUE
        /\ IF tWaiting = {} THEN UNCHANGED tLock ELSE T!Notify(VM, Destroyer)
        /\ Goto(VM, "exitUnlock")
     \/ pc[VM] = "exitUnlock" /\ T!Exit(VM) /\ Goto(VM, "gone") /\ UNCHANGED terminated
  /\ UNCHANGED <<queues, drain_list, vmLocals, should_terminate, sync, clients, live, qLock, rLock>>

VMStep ==
  \/ Begin \/ Reach \/ End \/ LockLoop \/ Take \/ Timeout \/ Woken \/ ForceSafepoint \/ Retake
  \/ Run \/ Nest  \/ NestReturn \/ Complete \/ Delete \/ Trace \/ Batch \/ Drain
  \/ LockNotify \/ NotifyAll \/ Exit

Next ==
  \/ \E t \in Threads : Submit(t) \/ Client(t)
  \/ Terminate \/ AwaitExit
  \/ VMStep

Spec == Init /\ [][Next]_vars

-----------------------------------------------------------------------------
(* Properties.                                                             *)

Pcs == {"out", "lockQueue", "add", "unlockQueue", "request", "stopped", "check", "epilogue"}

\* The type invariant.
TypeOK ==
  /\ queue \in [{"Safepoint", "Medium"} -> Seq(Operations)] /\ counter \in 0 .. MaxCounter
  /\ drain_list \in Seq(Operations) /\ safepoint_ops \in Seq(Operations)
  /\ cur \in Operations \cup {NULL} /\ outer \in Operations \cup {NULL}
  /\ timedout \in BOOLEAN /\ should_terminate \in BOOLEAN /\ terminated \in BOOLEAN
  /\ sync \in {"no", "begun", "reached"}
  /\ \A t \in Threads : pc[t] \in Pcs
  /\ mine \in [Threads -> Operations \cup {NULL}] /\ debt \in [Threads -> {0, 1}]
  /\ live \subseteq Operations /\ others \in 0 .. MaxOther

\* The VM thread is inside evaluate() of an operation.
Evaluating == pc[VM] \in {"eval", "evaluated", "nestBegin", "nested", "nestedSafe", "nestReturn"}

Queued == In(queue["Safepoint"]) \cup In(queue["Medium"])

\* Operations the VM thread has still to run.
Waiting ==
  Queued \cup In(safepoint_ops) \cup
  {op \in {cur} : pc[VM] \in {"run", "runBegin", "exitBegin", "exitLock", "exitNotify", "exitUnlock", "gone"}}

\* What the VM thread and the submitters touch is allocated: an operation on
\* a caller's stack outlives its evaluation, one on the C heap is deleted
\* once, and what execute() runs nested does not get in between.  The report
\* of TraceLongCompiles is the one access that is not meant here: see
\* TracedAllocated.
NoDangling ==
  /\ Waiting \cup In(drain_list) \subseteq live \cup {NULL}
  /\ Evaluating \/ (pc[VM] = "delete" /\ is_cheap_allocated(cur)) => cur \in live
  /\ outer # NULL => outer \in live
  /\ \A t \in Threads : mine[t] # NULL /\ ~evaluate_concurrently(mine[t]) => mine[t] \in live

\* "_cur_vm_operation should not be accessed after the completed count has been
\* incremented; the waiting thread may have already freed this memory": when
\* loop() reads the operation's name for the report, it is still allocated.
TracedAllocated == pc[VM] = "trace" => cur \in live

\* While an operation runs - it may be a collection - oops_do() finds every
\* operation that has still to run on a queue or on the drain list.
AllScanned == Evaluating => Waiting \ {NULL} \subseteq Queued \cup In(drain_list)

\* An operation that needs a safepoint runs at one, nested or not, and a
\* safepoint is not begun or ended twice.
SafepointModes ==
  /\ pc[VM] \in {"eval", "evaluated", "nested", "nestedSafe"} /\ evaluate_at_safepoint(cur) => sync = "reached"
  /\ pc[VM] \in DOMAIN AfterBegin => sync # "reached"
  /\ pc[VM] \in DOMAIN AfterEnd => sync = "reached"

-----------------------------------------------------------------------------
(* What execute() promises, and progress.                                  *)

Submitted == UNION {{[caller |-> t, mode |-> m, nested |-> FALSE] : m \in Modes[t]} : t \in Threads}

BeingAdded == {mine[t] : t \in {u \in Threads : pc[u] \in {"lockQueue", "add"}}}

running == IF ~Evaluating THEN {} ELSE IF outer = NULL THEN {cur} ELSE {outer}

submitted == (Waiting \cup BeingAdded) \ {NULL}

done == live \ (submitted \cup running \cup {op \in live : op.nested})

P == INSTANCE VMOperationsSpec WITH Operations <- Submitted

\* Every operation runs once, alone, and is released when it is over, however
\* tickets, drained batches and nested operations interleave.
ImplementsOperations == P!Spec

\* Every thread runs, and a wait on a lock with a timeout times out.
FairSpec ==
  /\ Spec
  /\ WF_vars(VMStep) /\ WF_vars(AwaitExit)
  /\ WF_vars(pc[Destroyer] # "out" /\ Terminate)
  /\ \A t \in Threads : WF_vars(Client(t))

\* No starvation: the queued operation of a blocked caller runs although
\* operations of the other priority keep coming, unless the VM exits.
OperationsRun ==
  \A t \in Threads : mine[t] \in Queued ~> mine[t] \notin Waiting \/ should_terminate

\* No lost wakeup: again and again there is nobody who sleeps although the
\* operation it submitted is over.
SubmittersWoken == []<>(\A t \in rWaiting : debt[t] > 0)

\* wait_for_vm_thread_exit() returns.
VMExits == should_terminate ~> pc[Destroyer] = "destroyed"
===============================================================================
