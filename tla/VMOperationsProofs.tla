------------------------- MODULE VMOperationsProofs -------------------------
(***************************************************************************)
(* Proofs about VMOperations, for any number of submitting threads, any    *)
(* modes and any bounds: what is touched is allocated, safepoints are      *)
(* begun and ended where they should be, and every operation runs once.    *)
(***************************************************************************)
EXTENDS VMOperations, ListFacts

USE VMOperationsAssumption
USE ZenonT(60)

-----------------------------------------------------------------------------
(* Where the VM thread is, and what its locals then hold.                  *)

\* loop() has an operation to run, or runs it; execute() runs a nested one;
\* the VM thread is on its way out.
CurPcs  == {"run", "runBegin", "eval", "evaluated"}
NestPcs == {"nestBegin", "nested", "nestedSafe", "nestReturn"}
ExitPcs == {"exitBegin", "exitLock", "exitNotify", "exitUnlock", "gone"}
LoopPcs == {"lock", "take", "waiting", "woken", "forceBegin", "forceEnd", "relock", "retake",
            "trace", "lockNotify", "notify", "intervalBegin", "intervalEnd"}
BatchPcs == {"batch", "lockDrain", "drain", "runEnd"}
VMPcs == CurPcs \cup NestPcs \cup ExitPcs \cup LoopPcs \cup BatchPcs \cup {"delete"}
DestroyerPcs == {"out", "terminate", "terminateUnlock", "lockTerminate", "await", "destroyed"}
AllPcs == Pcs \cup VMPcs \cup DestroyerPcs

\* The operation that loop() has taken and not yet completed.
HasTop == pc[VM] \in CurPcs \cup NestPcs \/ (pc[VM] \in ExitPcs /\ cur # NULL)
Top    == IF pc[VM] \in NestPcs THEN outer ELSE cur

\* sync, seen from the place of the VM thread.
SyncAt ==
  /\ sync = "begun" => pc[VM] \in {"runBegin", "forceBegin", "nestBegin", "intervalBegin", "exitBegin"}
  /\ pc[VM] \in {"runBegin", "forceBegin", "nestBegin", "intervalBegin", "exitBegin"} => sync # "reached"
  /\ pc[VM] \in {"runEnd", "forceEnd", "nestedSafe", "intervalEnd"} \cup BatchPcs => sync = "reached"
  /\ pc[VM] \in {"lock", "take", "waiting", "woken", "relock", "retake", "trace", "lockNotify", "notify", "run", "nestReturn"} => sync = "no"
  /\ pc[VM] \in {"eval", "evaluated", "delete"} => (sync = "reached" <=> evaluate_at_safepoint(cur))
  /\ pc[VM] = "nested" => /\ sync = "reached" <=> evaluate_at_safepoint(outer)
                          /\ evaluate_at_safepoint(cur) => sync = "reached"
  /\ pc[VM] \in NestPcs \ {"nested"} => ~evaluate_at_safepoint(outer)
  /\ pc[VM] = "runBegin" => evaluate_at_safepoint(cur)

\* The locals of the VM thread.
LocalsAt ==
  /\ pc[VM] \in VMPcs
  /\ pc[VM] \in CurPcs \cup {"delete", "batch"} => cur \in Operations
  /\ pc[VM] \in NestPcs => cur \in Operations /\ cur.nested /\ cur \in live /\ outer \in Operations
  /\ pc[VM] \notin NestPcs => outer = NULL
  /\ drain_list = safepoint_ops \/ drain_list = <<>>
  /\ pc[VM] \notin {"run"} \cup ExitPcs => drain_list = safepoint_ops
  /\ safepoint_ops # <<>> =>
       \/ pc[VM] \in {"batch"} \cup ExitPcs
       \/ pc[VM] \in CurPcs \cup {"delete"} /\ evaluate_at_safepoint(cur)
       \/ pc[VM] \in NestPcs /\ evaluate_at_safepoint(outer)
  /\ pc[VM] \in {"lockDrain", "drain"} => queue["Safepoint"] # <<>>
  /\ pc[VM] = "trace" => TraceLongCompiles

-----------------------------------------------------------------------------
(* Where the operations are.                                               *)

Pending(op) ==
  \/ op \in In(queue["Safepoint"]) \/ op \in In(queue["Medium"]) \/ op \in In(safepoint_ops)
  \/ HasTop /\ op = Top

Deleting(op) == pc[VM] = "delete" /\ op = cur /\ evaluate_concurrently(cur)

\* An operation is in one place, once.
Places ==
  /\ Injective(queue["Safepoint"]) /\ Injective(queue["Medium"]) /\ Injective(safepoint_ops)
  /\ In(queue["Safepoint"]) \cap In(safepoint_ops) = {}
  /\ \A op \in In(queue["Safepoint"]) \cup In(safepoint_ops) : evaluate_at_safepoint(op)
  /\ \A op \in In(queue["Medium"]) : ~evaluate_at_safepoint(op)
  /\ HasTop => Top \notin In(queue["Safepoint"]) \cup In(queue["Medium"]) \cup In(safepoint_ops)

\* What is pending is allocated, and its submitter waits for it; what the VM
\* thread will delete is allocated and not pending.
OpAt(op) ==
  /\ Pending(op) => op \in live /\ ~op.nested /\ (~evaluate_concurrently(op) => mine[op.caller] = op)
  /\ Deleting(op) => op \in live /\ ~op.nested /\ ~Pending(op)
  /\ op \in live => op \in Submitted \/ op.nested

\* A submitter in execute(): its ticket says whether its operation has still
\* to complete.
ClientAt(t) ==
  /\ pc[t] = "out" <=> mine[t] = NULL
  /\ mine[t] # NULL => mine[t] \in Submitted /\ mine[t].caller = t /\ ~mine[t].nested
  /\ pc[t] \in {"request", "stopped", "check", "epilogue"} => ~evaluate_concurrently(mine[t])
  /\ pc[t] \in {"lockQueue", "add"} => mine[t] \in live /\ ~Pending(mine[t]) /\ ~Deleting(mine[t])
  /\ mine[t] # NULL /\ ~evaluate_concurrently(mine[t]) => mine[t] \in live
  /\ debt[t] = 1 <=> /\ mine[t] # NULL /\ ~evaluate_concurrently(mine[t])
                     /\ pc[t] \in {"lockQueue", "add"} \/ Pending(mine[t])
  /\ pc[t] = "epilogue" => debt[t] = 0

OpsInv ==
  /\ TypeOK /\ pc \in [Everyone -> AllPcs] /\ SyncAt /\ LocalsAt /\ Places
  /\ \A op \in Operations : OpAt(op)
  /\ \A t \in Threads : ClientAt(t)

-----------------------------------------------------------------------------
(* Operations.                                                             *)

\* An operation is known by its caller, its mode and whether it is nested.
LEMMA OpFacts ==
  ASSUME NEW t \in Threads, NEW m \in AllModes, NEW b \in BOOLEAN,
         NEW op, op = [caller |-> t, mode |-> m, nested |-> b]
  PROVE  op \in Operations /\ op.caller = t /\ op.mode = m /\ op.nested = b
BY SMTT(30) DEF Operations

\* What Submit makes is in Submitted, and everything there is an operation
\* that is not nested.
LEMMA SubmittedFacts ==
  /\ \A t \in Threads : \A m \in Modes[t] : [caller |-> t, mode |-> m, nested |-> FALSE] \in Submitted
  /\ \A op \in Submitted : op \in Operations /\ ~op.nested
<1>1. \A t \in Threads : Modes[t] \subseteq AllModes
  OBVIOUS
<1>2. \A op \in Submitted : \E t \in Threads : \E m \in Modes[t] : op = [caller |-> t, mode |-> m, nested |-> FALSE]
  BY SMTT(30) DEF Submitted
<1>3. ASSUME NEW op \in Submitted PROVE op \in Operations /\ ~op.nested
  <2>0. PICK t \in Threads : \E m \in Modes[t] : op = [caller |-> t, mode |-> m, nested |-> FALSE]
    BY <1>2, <1>3
  <2>1. PICK m \in Modes[t] : op = [caller |-> t, mode |-> m, nested |-> FALSE]
    BY <2>0
  <2>2. m \in AllModes
    BY <1>1
  <2>3. op \in Operations /\ op.nested = FALSE
    BY <2>1, <2>2, OpFacts
  <2> QED BY <2>3
<1>4. \A t \in Threads : \A m \in Modes[t] : [caller |-> t, mode |-> m, nested |-> FALSE] \in Submitted
  <2> SUFFICES ASSUME NEW t \in Threads, NEW m \in Modes[t]
               PROVE  [caller |-> t, mode |-> m, nested |-> FALSE] \in Submitted
    OBVIOUS
  <2> DEFINE S(u) == {[caller |-> u, mode |-> k, nested |-> FALSE] : k \in Modes[u]}
  <2>1. [caller |-> t, mode |-> m, nested |-> FALSE] \in S(t)
    OBVIOUS
  <2>2. S(t) \in {S(u) : u \in Threads}
    OBVIOUS
  <2> QED BY <2>1, <2>2 DEF Submitted
<1> QED BY <1>3, <1>4

\* Where safepoints begin and end.
BeginPcs == {"runBegin", "forceBegin", "nestBegin", "intervalBegin", "exitBegin"}
EndPcs   == {"runEnd", "forceEnd", "nestedSafe", "intervalEnd"}

LEMMA Tables ==
  /\ DOMAIN AfterBegin = BeginPcs /\ DOMAIN AfterEnd = EndPcs
  /\ AfterBegin["runBegin"] = "eval" /\ AfterBegin["forceBegin"] = "forceEnd"
  /\ AfterBegin["nestBegin"] = "nestedSafe" /\ AfterBegin["intervalBegin"] = "intervalEnd"
  /\ AfterBegin["exitBegin"] = "exitLock"
  /\ AfterEnd["runEnd"] = "lockNotify" /\ AfterEnd["forceEnd"] = "relock"
  /\ AfterEnd["nestedSafe"] = "nestReturn" /\ AfterEnd["intervalEnd"] = "lock"
BY SMTT(30) DEF AfterBegin, AfterEnd, BeginPcs, EndPcs

-----------------------------------------------------------------------------
(* Steps of the VM thread that move no operation.                          *)

data == <<queue, safepoint_ops, drain_list, cur, outer, live, mine, debt>>

\* The step moves no operation that is not nested, and keeps the control.
Unmoved ==
  /\ SyncAt' /\ LocalsAt'
  /\ UNCHANGED <<queue, safepoint_ops, mine, debt>>
  /\ HasTop' <=> HasTop
  /\ HasTop => Top' = Top
  /\ pc[VM] = "delete" <=> pc'[VM] = "delete"
  /\ pc[VM] = "delete" => cur' = cur
  /\ \A op \in Operations : ~op.nested => (op \in live' <=> op \in live)

LEMMA UnmovedSteps ==
  ASSUME SyncAt, LocalsAt, pc \in [Everyone -> AllPcs], live \subseteq Operations, VM \in Everyone,
         \/ Begin \/ Reach \/ End \/ LockLoop \/ Timeout \/ Woken \/ ForceSafepoint \/ LockNotify \/ NotifyAll
         \/ Exit \/ Run \/ Nest \/ NestReturn \/ Trace
  PROVE  Unmoved
<1> USE DEF Goto, data, SyncAt, LocalsAt, HasTop, Top, CurPcs, NestPcs, ExitPcs, LoopPcs, BatchPcs, VMPcs, BeginPcs, EndPcs
<1>1. CASE Begin
  <2>1. /\ pc[VM] \in BeginPcs /\ sync = "no" /\ sync' = "begun" /\ UNCHANGED <<pc, data>>
    BY <1>1, Tables DEF Begin, vmLocals, queues, clients
  <2> QED BY <2>1, Tables, SMTT(60) DEF Unmoved
<1>2. CASE Reach
  <2>1. /\ sync = "begun" /\ sync' = "reached" /\ UNCHANGED data
        /\ pc' = [pc EXCEPT ![VM] = AfterBegin[pc[VM]]]
    BY <1>2 DEF Reach, vmLocals, queues, clients
  <2> QED BY <2>1, Tables, SMTT(60) DEF Unmoved
<1>3. CASE End
  <2>1. /\ pc[VM] \in EndPcs /\ sync' = "no" /\ UNCHANGED data
        /\ pc' = [pc EXCEPT ![VM] = AfterEnd[pc[VM]]]
    BY <1>3, Tables DEF End, vmLocals, queues, clients
  <2> QED BY <2>1, Tables, SMTT(60) DEF Unmoved
<1>4. CASE LockLoop
  <2>1. /\ \/ pc[VM] = "lock" /\ Goto(VM, "take")
           \/ pc[VM] = "relock" /\ Goto(VM, "retake")
        /\ UNCHANGED <<data, sync>>
    BY <1>4 DEF LockLoop, vmLocals, queues, clients
  <2> QED BY <2>1, SMTT(60) DEF Unmoved
<1>5. CASE Timeout
  <2>1. UNCHANGED <<pc, data, sync>>
    BY <1>5 DEF Timeout, queues, clients
  <2> QED BY <2>1, SMTT(60) DEF Unmoved
<1>6. CASE Woken
  <2>1. /\ pc[VM] = "waiting" /\ Goto(VM, "woken") /\ UNCHANGED <<data, sync>>
    BY <1>6 DEF Woken, vmLocals, queues, clients
  <2> QED BY <2>1, SMTT(60) DEF Unmoved
<1>7. CASE ForceSafepoint
  <2>1. /\ pc[VM] = "woken" /\ (Goto(VM, "forceBegin") \/ Goto(VM, "retake"))
        /\ UNCHANGED <<data, sync>>
    BY <1>7 DEF ForceSafepoint, queues, clients
  <2> QED BY <2>1, SMTT(60) DEF Unmoved
<1>8. CASE LockNotify
  <2>1. /\ pc[VM] = "lockNotify" /\ Goto(VM, "notify") /\ UNCHANGED <<data, sync>>
    BY <1>8 DEF LockNotify, vmLocals, queues, clients
  <2> QED BY <2>1, SMTT(60) DEF Unmoved
<1>9. CASE NotifyAll
  <2>1. /\ pc[VM] = "notify" /\ (UNCHANGED pc \/ Goto(VM, "lock") \/ Goto(VM, "intervalBegin"))
        /\ UNCHANGED <<data, sync>>
    BY <1>9 DEF NotifyAll, vmLocals, queues, clients
  <2> QED BY <2>1, SMTT(60) DEF Unmoved
<1>10. CASE Exit
  <2>1. /\ \/ pc[VM] = "exitLock" /\ Goto(VM, "exitNotify")
           \/ pc[VM] = "exitNotify" /\ Goto(VM, "exitUnlock")
           \/ pc[VM] = "exitUnlock" /\ Goto(VM, "gone")
        /\ UNCHANGED <<data, sync>>
    BY <1>10 DEF Exit, vmLocals, queues, clients
  <2> QED BY <2>1, SMTT(60) DEF Unmoved
<1>11. CASE Run
  <2>1. /\ pc[VM] = "run" /\ UNCHANGED <<queue, safepoint_ops, cur, outer, live, mine, debt>>
        /\ \/ evaluate_at_safepoint(cur) /\ drain_list' = safepoint_ops /\ sync' = "begun" /\ Goto(VM, "runBegin")
           \/ ~evaluate_at_safepoint(cur) /\ UNCHANGED <<drain_list, sync>> /\ Goto(VM, "eval")
    BY <1>11 DEF Run, vmLocals, queues, clients
  <2> QED BY <2>1, SMTT(60) DEF Unmoved
<1>12. CASE Nest
  <2>1. /\ pc[VM] = "eval" /\ outer' = cur /\ UNCHANGED <<queue, safepoint_ops, drain_list, mine, debt, sync>>
        /\ cur' \in Operations /\ cur'.nested /\ live' = live \cup {cur'}
        /\ \/ evaluate_at_safepoint(cur') /\ sync # "reached" /\ Goto(VM, "nestBegin")
           \/ (evaluate_at_safepoint(cur') => sync = "reached") /\ Goto(VM, "nested")
    <3>1. PICK m \in AllModes :
            /\ cur' = [caller |-> cur.caller, mode |-> m, nested |-> TRUE]
            /\ live' = live \cup {[caller |-> cur.caller, mode |-> m, nested |-> TRUE]}
            /\ Goto(VM, IF /\ evaluate_at_safepoint([caller |-> cur.caller, mode |-> m, nested |-> TRUE])
                           /\ sync # "reached" THEN "nestBegin" ELSE "nested")
      BY <1>12 DEF Nest
    <3>2. cur.caller \in Threads
      BY <1>12, SMTT(30) DEF Nest, Operations
    <3>3. cur' \in Operations /\ cur'.nested = TRUE
      BY <3>1, <3>2, SMTT(30) DEF Operations
    <3>4. pc[VM] = "eval" /\ outer' = cur /\ UNCHANGED <<queue, safepoint_ops, drain_list, mine, debt, sync>>
      BY <1>12 DEF Nest, queues, clients
    <3>5. /\ live' = live \cup {cur'}
          /\ Goto(VM, IF evaluate_at_safepoint(cur') /\ sync # "reached" THEN "nestBegin" ELSE "nested")
      BY <3>1
    <3> QED BY <3>3, <3>4, <3>5
  <2> QED BY <2>1, SMTT(60) DEF Unmoved
<1>13. CASE NestReturn
  <2>1. /\ pc[VM] \in {"nested", "nestReturn"} /\ Goto(VM, "evaluated") /\ cur' = outer /\ outer' = NULL
        /\ live' = live \ {cur} /\ UNCHANGED <<queue, safepoint_ops, drain_list, mine, debt, sync>>
    BY <1>13 DEF NestReturn, queues, clients
  <2> QED BY <2>1, SMTT(60) DEF Unmoved
<1>14. CASE Trace
  <2>1. /\ pc[VM] = "trace" /\ Goto(VM, "lockNotify") /\ cur' = NULL
        /\ UNCHANGED <<queue, safepoint_ops, drain_list, outer, live, mine, debt, sync>>
    BY <1>14 DEF Trace, queues, clients
  <2> QED BY <2>1, SMTT(60) DEF Unmoved
<1> QED BY <1>1, <1>2, <1>3, <1>4, <1>5, <1>6, <1>7, <1>8, <1>9, <1>10, <1>11, <1>12, <1>13, <1>14

-----------------------------------------------------------------------------
(* Steps of the VM thread that take operations from a list.                *)

LEMMA EmptyFacts == In(<<>>) = {} /\ Injective(<<>>)
BY SMTT(30) DEF In, Injective

\* The types of the lists, and of what is at their head.
LEMMA QueueTypes ==
  ASSUME TypeOK, NEW p \in {"Safepoint", "Medium"}
  PROVE  /\ queue[p] \in Seq(Operations) /\ DOMAIN queue = {"Safepoint", "Medium"}
         /\ queue[p] # <<>> => Head(queue[p]) \in Operations /\ Tail(queue[p]) \in Seq(Operations)
         /\ safepoint_ops \in Seq(Operations)
         /\ safepoint_ops # <<>> => Head(safepoint_ops) \in Operations /\ Tail(safepoint_ops) \in Seq(Operations)
<1>1. queue[p] \in Seq(Operations) /\ safepoint_ops \in Seq(Operations) /\ DOMAIN queue = {"Safepoint", "Medium"}
  BY DEF TypeOK
<1>2. queue[p] # <<>> => Head(queue[p]) \in Operations /\ Tail(queue[p]) \in Seq(Operations)
  BY <1>1, ListType
<1>3. safepoint_ops # <<>> => Head(safepoint_ops) \in Operations /\ Tail(safepoint_ops) \in Seq(Operations)
  BY <1>1, ListType
<1> QED BY <1>1, <1>2, <1>3

\* The operations stay where they are or move from one place to another.
Moved ==
  /\ SyncAt' /\ LocalsAt' /\ Places'
  /\ UNCHANGED <<mine, debt, live>>
  /\ \A op \in Operations : Pending(op)' <=> Pending(op)
  /\ pc[VM] # "delete" /\ pc'[VM] # "delete"

\* remove_next() takes one operation from the queue p, if there is one.
TakesOne(p) ==
  /\ pc[VM] \in {"take", "retake"} /\ cur' = HeadOf(p) /\ queue' = Without(p)
  /\ UNCHANGED <<safepoint_ops, drain_list, outer, live, mine, debt, sync>>
  /\ \/ Goto(VM, "exitBegin")
     \/ HeadOf(p) # NULL /\ Goto(VM, "run")
     \/ HeadOf(p) = NULL /\ Goto(VM, "waiting")

LEMMA OneMoves ==
  ASSUME OpsInv, NEW p \in {"Safepoint", "Medium"}, TakesOne(p)
  PROVE  Moved
<1>0. /\ TypeOK /\ SyncAt /\ LocalsAt /\ Places /\ pc \in [Everyone -> AllPcs] /\ VM \in Everyone
      /\ pc[VM] \in {"take", "retake"}
  BY DEF OpsInv, Everyone, TakesOne
<1>1. safepoint_ops = <<>> /\ drain_list = <<>> /\ ~HasTop /\ outer = NULL
  BY <1>0, SMTT(30) DEF LocalsAt, HasTop, CurPcs, NestPcs, ExitPcs
<1>3. /\ cur' = HeadOf(p) /\ queue' = Without(p)
      /\ UNCHANGED <<safepoint_ops, drain_list, outer, live, mine, debt, sync>>
      /\ \/ Goto(VM, "exitBegin")
         \/ HeadOf(p) # NULL /\ Goto(VM, "run")
         \/ HeadOf(p) = NULL /\ Goto(VM, "waiting")
  BY DEF TakesOne
<1>4. CASE queue[p] = <<>>
  <2>1. cur' = NULL /\ queue' = queue /\ (Goto(VM, "exitBegin") \/ Goto(VM, "waiting"))
    BY <1>3, <1>4 DEF HeadOf, Without
  <2>2. ~HasTop' /\ pc'[VM] \in {"exitBegin", "waiting"}
    BY <1>0, <2>1, SMTT(30) DEF Goto, HasTop, CurPcs, NestPcs, ExitPcs
  <2>3. SyncAt'
    BY <1>0, <1>3, <2>2, SMTT(30) DEF SyncAt, BatchPcs, NestPcs
  <2>4. LocalsAt'
    BY <1>1, <1>3, <2>1, <2>2, SMTT(30) DEF LocalsAt, VMPcs, CurPcs, NestPcs, ExitPcs, LoopPcs, BatchPcs
  <2>5. Places' /\ \A op \in Operations : Pending(op)' <=> Pending(op)
    BY <1>0, <1>1, <1>3, <2>1, <2>2 DEF Places, Pending
  <2> QED BY <1>0, <1>3, <2>2, <2>3, <2>4, <2>5 DEF Moved
<1>5. CASE queue[p] # <<>>
  <2>1. PICK h \in Operations : h = Head(queue[p])
    BY <1>0, <1>5, QueueTypes
  <2>2. /\ cur' = h /\ queue' = [queue EXCEPT ![p] = Tail(queue[p])]
        /\ Goto(VM, "exitBegin") \/ Goto(VM, "run")
    BY <1>3, <1>5, <2>1 DEF HeadOf, Without
  <2>3. pc'[VM] \in {"exitBegin", "run"}
    BY <1>0, <2>2 DEF Goto
  <2>4. HasTop' /\ Top' = h
    BY <1>0, <2>1, <2>2, <2>3 DEF HasTop, Top, CurPcs, NestPcs, ExitPcs
  <2>5. /\ In(Tail(queue[p])) = In(queue[p]) \ {h} /\ Injective(Tail(queue[p])) /\ h \in In(queue[p])
    <3>1. queue[p] \in Seq(Operations) /\ Injective(queue[p])
      BY <1>0, QueueTypes DEF Places
    <3> QED BY <1>5, <2>1, <3>1, TailFacts
  <2>6. /\ queue'[p] = Tail(queue[p])
        /\ \A r \in {"Safepoint", "Medium"} : r # p => queue'[r] = queue[r]
    BY <1>0, <2>2, QueueTypes
  <2>7. SyncAt'
    BY <1>0, <1>3, <2>3, SMTT(30) DEF SyncAt, BatchPcs, NestPcs
  <2>8. LocalsAt'
    BY <1>1, <1>3, <2>2, <2>3, SMTT(30) DEF LocalsAt, VMPcs, CurPcs, NestPcs, ExitPcs, LoopPcs, BatchPcs
  <2>9. In(safepoint_ops') = {} /\ Injective(safepoint_ops') /\ In(safepoint_ops) = {}
    BY <1>1, <1>3, EmptyFacts
  <2>10. CASE p = "Safepoint"
    <3>1. Places'
      BY <1>0, <2>4, <2>5, <2>6, <2>9, <2>10 DEF Places
    <3>2. \A op \in Operations : Pending(op)' <=> Pending(op)
      BY <1>1, <2>4, <2>5, <2>6, <2>9, <2>10 DEF Pending
    <3> QED BY <1>0, <1>3, <2>3, <2>7, <2>8, <3>1, <3>2 DEF Moved
  <2>11. CASE p = "Medium"
    <3>1. Places'
      BY <1>0, <2>4, <2>5, <2>6, <2>9, <2>11 DEF Places
    <3>2. \A op \in Operations : Pending(op)' <=> Pending(op)
      BY <1>1, <2>4, <2>5, <2>6, <2>9, <2>11 DEF Pending
    <3> QED BY <1>0, <1>3, <2>3, <2>7, <2>8, <3>1, <3>2 DEF Moved
  <2> QED BY <2>10, <2>11
<1> QED BY <1>4, <1>5

\* remove_next() of the second attempt, with the whole safepoint queue.
LEMMA RetakeMoves ==
  ASSUME OpsInv, Take \/ Retake
  PROVE  Moved
<1>0. /\ TypeOK /\ SyncAt /\ LocalsAt /\ Places /\ pc \in [Everyone -> AllPcs] /\ VM \in Everyone
      /\ From \in {"Safepoint", "Medium"}
  BY DEF OpsInv, Everyone, From
<1>1. CASE Take \/ (Retake /\ From = "Medium")
  <2>1. TakesOne(From)
    BY <1>1 DEF Take, Retake, Loop, clients, TakesOne
  <2> QED BY <1>0, <2>1, OneMoves
<1>2. CASE Retake /\ From = "Safepoint" /\ queue["Safepoint"] = <<>>
  <2>1. queue' = queue /\ safepoint_ops' = safepoint_ops
    <3>1. queue' = [queue EXCEPT !["Safepoint"] = <<>>] /\ safepoint_ops' = <<>> /\ pc[VM] = "retake"
      BY <1>2 DEF Retake
    <3>2. safepoint_ops = <<>>
      BY <1>0, <3>1, SMTT(30) DEF LocalsAt, CurPcs, NestPcs, ExitPcs
    <3>3. queue = [queue EXCEPT !["Safepoint"] = <<>>]
      BY <1>0, <1>2, SMTT(30) DEF TypeOK
    <3> QED BY <3>1, <3>2, <3>3
  <2>2. TakesOne("Safepoint")
    BY <1>2, <2>1 DEF Retake, Loop, clients, TakesOne, Without
  <2> QED BY <2>2, OneMoves
<1>3. CASE Retake /\ From = "Safepoint" /\ queue["Safepoint"] # <<>>
  <2>1. /\ pc[VM] = "retake" /\ queue' = [queue EXCEPT !["Safepoint"] = <<>>]
        /\ safepoint_ops' = Tail(queue["Safepoint"]) /\ cur' = Head(queue["Safepoint"])
        /\ UNCHANGED <<drain_list, outer, live, mine, debt, sync>>
    BY <1>3 DEF Retake, clients, HeadOf
  <2>2. safepoint_ops = <<>> /\ drain_list = <<>> /\ ~HasTop /\ outer = NULL
    BY <1>0, <2>1, SMTT(30) DEF LocalsAt, HasTop, CurPcs, NestPcs, ExitPcs
  <2>3. PICK h \in Operations : h = Head(queue["Safepoint"])
    BY <1>0, <1>3, QueueTypes
  <2>4. Goto(VM, "exitBegin") \/ Goto(VM, "run")
    BY <1>3, <2>3 DEF Retake, Loop, HeadOf
  <2>5. pc'[VM] \in {"exitBegin", "run"}
    BY <1>0, <2>4 DEF Goto
  <2>6. HasTop' /\ Top' = h /\ cur' = h
    BY <1>0, <2>1, <2>3, <2>5 DEF HasTop, Top, CurPcs, NestPcs, ExitPcs
  <2>7. /\ In(safepoint_ops') = In(queue["Safepoint"]) \ {h} /\ Injective(safepoint_ops') /\ h \in In(queue["Safepoint"])
    <3>1. queue["Safepoint"] \in Seq(Operations) /\ Injective(queue["Safepoint"])
      BY <1>0, QueueTypes DEF Places
    <3>2. /\ In(Tail(queue["Safepoint"])) = In(queue["Safepoint"]) \ {h} /\ Injective(Tail(queue["Safepoint"]))
          /\ h \in In(queue["Safepoint"])
      BY <1>3, <2>3, <3>1, TailFacts
    <3> QED BY <2>1, <3>2
  <2>8. queue'["Safepoint"] = <<>> /\ queue'["Medium"] = queue["Medium"]
    BY <1>0, <2>1, QueueTypes
  <2>9. SyncAt'
    BY <1>0, <2>1, <2>5, SMTT(30) DEF SyncAt, BatchPcs, NestPcs
  <2>10. evaluate_at_safepoint(h)
    BY <1>0, <2>7 DEF Places
  <2>11. LocalsAt'
    BY <2>1, <2>2, <2>5, <2>6, <2>10, SMTT(30) DEF LocalsAt, VMPcs, CurPcs, NestPcs, ExitPcs, LoopPcs, BatchPcs
  <2>12. In(safepoint_ops) = {} /\ In(queue'["Safepoint"]) = {} /\ Injective(queue'["Safepoint"])
    BY <2>2, <2>8, EmptyFacts
  <2>13. Places'
    BY <1>0, <2>6, <2>7, <2>8, <2>12 DEF Places
  <2>14. \A op \in Operations : Pending(op)' <=> Pending(op)
    BY <2>2, <2>6, <2>7, <2>8, <2>12 DEF Pending
  <2> QED BY <2>1, <2>5, <2>9, <2>11, <2>13, <2>14 DEF Moved
<1> QED BY <1>0, <1>1, <1>2, <1>3

\* The next of the drained operations.
LEMMA BatchMoves ==
  ASSUME OpsInv, Batch
  PROVE  Moved
<1>0. /\ TypeOK /\ SyncAt /\ LocalsAt /\ Places /\ pc \in [Everyone -> AllPcs] /\ VM \in Everyone
      /\ pc[VM] = "batch"
  BY DEF OpsInv, Everyone, Batch
<1>1. drain_list = safepoint_ops /\ ~HasTop /\ outer = NULL /\ sync = "reached"
  BY <1>0, SMTT(30) DEF LocalsAt, SyncAt, HasTop, CurPcs, NestPcs, ExitPcs, BatchPcs
<1>2. UNCHANGED <<queue, outer, sync, live, mine, debt>>
  BY DEF Batch, queues, clients
<1>3. CASE safepoint_ops = <<>>
  <2>1. /\ cur' = NULL /\ UNCHANGED safepoint_ops /\ (drain_list' = drain_list \/ drain_list' = <<>>)
        /\ \/ queue["Safepoint"] # <<>> /\ Goto(VM, "lockDrain")
           \/ Goto(VM, "runEnd")
    BY <1>3 DEF Batch
  <2>2. \/ pc'[VM] = "lockDrain" /\ queue["Safepoint"] # <<>>
        \/ pc'[VM] = "runEnd"
    BY <1>0, <2>1 DEF Goto
  <2>3. ~HasTop'
    BY <2>2, SMTT(30) DEF HasTop, CurPcs, NestPcs, ExitPcs
  <2>4. SyncAt'
    BY <1>1, <1>2, <2>2, SMTT(30) DEF SyncAt, BatchPcs, NestPcs
  <2>5. LocalsAt'
    BY <1>1, <1>2, <1>3, <2>1, <2>2, SMTT(30) DEF LocalsAt, VMPcs, CurPcs, NestPcs, ExitPcs, LoopPcs, BatchPcs
  <2>6. Places' /\ \A op \in Operations : Pending(op)' <=> Pending(op)
    BY <1>0, <1>1, <1>2, <2>1, <2>3 DEF Places, Pending
  <2> QED BY <1>0, <1>2, <2>2, <2>4, <2>5, <2>6 DEF Moved
<1>4. CASE safepoint_ops # <<>>
  <2>1. /\ cur' = Head(safepoint_ops) /\ safepoint_ops' = Tail(safepoint_ops)
        /\ drain_list' = Tail(safepoint_ops) /\ Goto(VM, "eval")
    BY <1>4 DEF Batch
  <2>2. PICK h \in Operations : h = Head(safepoint_ops)
    BY <1>0, <1>4, QueueTypes
  <2>3. pc'[VM] = "eval" /\ cur' = h
    BY <1>0, <2>1, <2>2 DEF Goto
  <2>4. HasTop' /\ Top' = h
    BY <2>3 DEF HasTop, Top, CurPcs, NestPcs
  <2>5. In(safepoint_ops') = In(safepoint_ops) \ {h} /\ Injective(safepoint_ops') /\ h \in In(safepoint_ops)
    <3>1. safepoint_ops \in Seq(Operations) /\ Injective(safepoint_ops)
      BY <1>0, QueueTypes DEF Places
    <3>2. In(Tail(safepoint_ops)) = In(safepoint_ops) \ {h} /\ Injective(Tail(safepoint_ops)) /\ h \in In(safepoint_ops)
      BY <1>4, <2>2, <3>1, TailFacts
    <3> QED BY <2>1, <3>2
  <2>6. evaluate_at_safepoint(h)
    BY <1>0, <2>5 DEF Places
  <2>7. SyncAt'
    BY <1>1, <1>2, <2>3, <2>6, SMTT(30) DEF SyncAt, BatchPcs, NestPcs
  <2>8. LocalsAt'
    BY <1>1, <1>2, <2>1, <2>3, <2>6, SMTT(30) DEF LocalsAt, VMPcs, CurPcs, NestPcs, ExitPcs, LoopPcs, BatchPcs
  <2>9. Places'
    BY <1>0, <1>2, <2>4, <2>5, <2>6 DEF Places
  <2>10. \A op \in Operations : Pending(op)' <=> Pending(op)
    BY <1>1, <1>2, <2>4, <2>5 DEF Pending
  <2> QED BY <1>0, <1>2, <2>3, <2>7, <2>8, <2>9, <2>10 DEF Moved
<1> QED BY <1>3, <1>4

\* Another round with what was queued meanwhile.
LEMMA DrainMoves ==
  ASSUME OpsInv, Drain
  PROVE  Moved
<1>0. /\ TypeOK /\ SyncAt /\ LocalsAt /\ Places /\ pc \in [Everyone -> AllPcs] /\ VM \in Everyone
      /\ pc[VM] \in {"lockDrain", "drain"}
  BY DEF OpsInv, Everyone, Drain
<1>1. /\ safepoint_ops = <<>> /\ drain_list = <<>> /\ ~HasTop /\ outer = NULL /\ sync = "reached"
      /\ queue["Safepoint"] # <<>>
  BY <1>0, SMTT(30) DEF LocalsAt, SyncAt, HasTop, CurPcs, NestPcs, ExitPcs, BatchPcs
<1>2. UNCHANGED <<outer, sync, live, mine, debt>>
  BY DEF Drain, clients
<1>3. CASE pc[VM] = "lockDrain"
  <2>1. UNCHANGED <<queue, cur, safepoint_ops, drain_list>> /\ Goto(VM, "drain")
    BY <1>3 DEF Drain
  <2>2. pc'[VM] = "drain"
    BY <1>0, <2>1 DEF Goto
  <2>3. ~HasTop'
    BY <2>2, SMTT(30) DEF HasTop, CurPcs, NestPcs, ExitPcs
  <2>4. SyncAt' /\ LocalsAt'
    BY <1>1, <1>2, <2>1, <2>2, SMTT(30) DEF SyncAt, LocalsAt, VMPcs, CurPcs, NestPcs, ExitPcs, LoopPcs, BatchPcs
  <2>5. Places' /\ \A op \in Operations : Pending(op)' <=> Pending(op)
    BY <1>0, <1>1, <1>2, <2>1, <2>3 DEF Places, Pending
  <2> QED BY <1>2, <1>3, <2>2, <2>4, <2>5 DEF Moved
<1>4. CASE pc[VM] = "drain"
  <2>1. /\ queue' = [queue EXCEPT !["Safepoint"] = <<>>] /\ cur' = Head(queue["Safepoint"])
        /\ safepoint_ops' = Tail(queue["Safepoint"]) /\ drain_list' = Tail(queue["Safepoint"]) /\ Goto(VM, "eval")
    BY <1>4 DEF Drain
  <2>2. PICK h \in Operations : h = Head(queue["Safepoint"])
    BY <1>0, <1>1, QueueTypes
  <2>3. pc'[VM] = "eval" /\ cur' = h
    BY <1>0, <2>1, <2>2 DEF Goto
  <2>4. HasTop' /\ Top' = h
    BY <2>3 DEF HasTop, Top, CurPcs, NestPcs
  <2>5. /\ In(safepoint_ops') = In(queue["Safepoint"]) \ {h} /\ Injective(safepoint_ops') /\ h \in In(queue["Safepoint"])
    <3>1. queue["Safepoint"] \in Seq(Operations) /\ Injective(queue["Safepoint"])
      BY <1>0, QueueTypes DEF Places
    <3>2. /\ In(Tail(queue["Safepoint"])) = In(queue["Safepoint"]) \ {h} /\ Injective(Tail(queue["Safepoint"]))
          /\ h \in In(queue["Safepoint"])
      BY <1>1, <2>2, <3>1, TailFacts
    <3> QED BY <2>1, <3>2
  <2>6. queue'["Safepoint"] = <<>> /\ queue'["Medium"] = queue["Medium"]
    BY <1>0, <2>1, QueueTypes
  <2>7. evaluate_at_safepoint(h)
    BY <1>0, <2>5 DEF Places
  <2>8. SyncAt' /\ LocalsAt'
    BY <1>1, <1>2, <2>1, <2>3, <2>7, SMTT(30) DEF SyncAt, LocalsAt, VMPcs, CurPcs, NestPcs, ExitPcs, LoopPcs, BatchPcs
  <2>9. In(safepoint_ops) = {} /\ In(queue'["Safepoint"]) = {} /\ Injective(queue'["Safepoint"])
    BY <1>1, <2>6, EmptyFacts
  <2>10. Places'
    BY <1>0, <2>4, <2>5, <2>6, <2>9 DEF Places
  <2>11. \A op \in Operations : Pending(op)' <=> Pending(op)
    BY <1>1, <2>4, <2>5, <2>6, <2>9 DEF Pending
  <2> QED BY <1>2, <1>4, <2>3, <2>8, <2>10, <2>11 DEF Moved
<1> QED BY <1>0, <1>3, <1>4

-----------------------------------------------------------------------------
(* What the other threads and the operations see of it.                    *)

\* While the operations stay pending, the clients' tickets stay right.
LEMMA KeptOps ==
  ASSUME OpsInv,
         \A t \in Threads : pc'[t] = pc[t], UNCHANGED <<mine, debt>>,
         \A op \in Operations : (Pending(op)' <=> Pending(op)) /\ (Deleting(op)' <=> Deleting(op)),
         \A op \in Operations : ~op.nested => (op \in live' <=> op \in live)
  PROVE  (\A op \in Operations : OpAt(op)') /\ (\A t \in Threads : ClientAt(t)')
<1>1. ASSUME NEW op \in Operations PROVE OpAt(op)'
  <2>1. OpAt(op)
    BY DEF OpsInv
  <2> QED BY <2>1 DEF OpAt
<1>2. ASSUME NEW t \in Threads PROVE ClientAt(t)'
  <2>1. ClientAt(t)
    BY DEF OpsInv
  <2>2. CASE mine[t] = NULL
    BY <2>1, <2>2 DEF ClientAt
  <2>3. CASE mine[t] # NULL
    <3>1. mine[t] \in Operations /\ ~mine[t].nested
      BY <2>1, <2>3, SubmittedFacts DEF ClientAt
    <3>2. PICK m \in Operations : m = mine[t] /\ m = mine'[t]
      BY <3>1
    <3>3. (Pending(m)' <=> Pending(m)) /\ (Deleting(m)' <=> Deleting(m)) /\ (m \in live' <=> m \in live)
      BY <3>1, <3>2
    <3> QED BY <2>1, <2>3, <3>2, <3>3 DEF ClientAt
  <2> QED BY <2>2, <2>3
<1> QED BY <1>1, <1>2

LEMMA UnmovedOps ==
  ASSUME OpsInv, Unmoved, \A t \in Threads : pc'[t] = pc[t]
  PROVE  Places' /\ (\A op \in Operations : OpAt(op)') /\ (\A t \in Threads : ClientAt(t)')
<1>1. \A op \in Operations : (Pending(op)' <=> Pending(op)) /\ (Deleting(op)' <=> Deleting(op))
  BY DEF Unmoved, Pending, Deleting
<1>2. Places'
  BY DEF OpsInv, Unmoved, Places
<1> QED BY <1>1, <1>2, KeptOps DEF Unmoved

LEMMA MovedOps ==
  ASSUME OpsInv, Moved, \A t \in Threads : pc'[t] = pc[t]
  PROVE  Places' /\ (\A op \in Operations : OpAt(op)') /\ (\A t \in Threads : ClientAt(t)')
<1>1. \A op \in Operations : (Pending(op)' <=> Pending(op)) /\ (Deleting(op)' <=> Deleting(op))
  BY DEF Moved, Deleting
<1> QED BY <1>1, KeptOps DEF Moved

\* evaluate_operation() completes the operation: it is not pending any more,
\* and its submitter may go.
LEMMA CompleteOps ==
  ASSUME OpsInv, Complete
  PROVE  /\ SyncAt' /\ LocalsAt' /\ Places' /\ debt' \in [Threads -> {0, 1}]
         /\ Pending(cur) /\ cur \in Operations /\ \A op \in Operations : Pending(op)' <=> Pending(op) /\ op # cur
         /\ (\A op \in Operations : OpAt(op)') /\ (\A t \in Threads : ClientAt(t)')
<1>0. /\ TypeOK /\ SyncAt /\ LocalsAt /\ Places /\ pc \in [Everyone -> AllPcs] /\ VM \in Everyone
      /\ \A t \in Threads : t \in Everyone /\ t # VM
  BY DEF OpsInv, Everyone
<1>1. /\ pc[VM] \in {"eval", "evaluated"} /\ Goto(VM, "delete")
      /\ UNCHANGED <<queue, safepoint_ops, drain_list, cur, outer, sync, live, mine>>
      /\ debt' = IF evaluate_concurrently(cur) THEN debt ELSE [debt EXCEPT ![cur.caller] = @ - 1]
  BY DEF Complete, queues, vmLocals
<1>2. pc'[VM] = "delete" /\ \A t \in Threads : pc'[t] = pc[t]
  BY <1>0, <1>1 DEF Goto
<1>3. SyncAt' /\ LocalsAt'
  BY <1>0, <1>1, <1>2, SMTT(30) DEF SyncAt, LocalsAt, VMPcs, CurPcs, NestPcs, ExitPcs, LoopPcs, BatchPcs
<1>4. HasTop /\ Top = cur /\ ~HasTop' /\ cur \in Operations
  BY <1>0, <1>1, <1>2, SMTT(30) DEF HasTop, Top, CurPcs, NestPcs, ExitPcs, LocalsAt
<1>5. Places'
  BY <1>0, <1>1, <1>4 DEF Places
<1>6. \A op \in Operations : Pending(op)' <=> Pending(op) /\ op # cur
  BY <1>0, <1>1, <1>4 DEF Pending, Places
<1>7. \A op \in Operations : Deleting(op)' <=> op = cur /\ evaluate_concurrently(cur)
  BY <1>1, <1>2 DEF Deleting
<1>8. Pending(cur) /\ OpAt(cur)
  BY <1>4 DEF Pending, OpsInv
<1>9. ASSUME NEW op \in Operations PROVE OpAt(op)'
  <2>1. OpAt(op)
    BY DEF OpsInv
  <2> QED BY <1>1, <1>6, <1>7, <1>8, <2>1 DEF OpAt
<1>10. ASSUME NEW t \in Threads, mine[t] = cur, ~evaluate_concurrently(cur)
       PROVE  ClientAt(t)' /\ debt'[t] \in {0, 1} /\ t = cur.caller
  <2>1. ClientAt(t) /\ cur # NULL
    BY <1>4 DEF OpsInv
  <2>2. debt[t] = 1 /\ t = cur.caller /\ pc[t] \notin {"lockQueue", "add"}
    BY <1>8, <1>10, <2>1 DEF ClientAt
  <2>3. debt'[t] = 0 /\ debt'[t] # 1
    <3>1. debt \in [Threads -> {0, 1}]
      BY <1>0 DEF TypeOK
    <3>2. debt' = [debt EXCEPT ![t] = debt[t] - 1]
      BY <1>1, <1>10, <2>2
    <3> QED BY <2>2, <3>1, <3>2, SMTT(30)
  <2>4. ~Pending(mine[t])'
    BY <1>1, <1>4, <1>6, <1>10
  <2> QED BY <1>1, <1>2, <1>10, <2>1, <2>2, <2>3, <2>4 DEF ClientAt
<1>11. ASSUME NEW t \in Threads, mine[t] # cur \/ evaluate_concurrently(cur)
       PROVE  ClientAt(t)' /\ debt'[t] = debt[t]
  <2>1. ClientAt(t)
    BY DEF OpsInv
  <2>2. debt'[t] = debt[t]
    <3>1. CASE evaluate_concurrently(cur)
      BY <1>1, <3>1
    <3>2. CASE ~evaluate_concurrently(cur)
      <4>1. mine[cur.caller] = cur
        BY <1>8, <3>2 DEF OpAt
      <4>2. t # cur.caller
        BY <1>11, <3>2, <4>1
      <4> QED BY <1>0, <1>1, <3>2, <4>2 DEF TypeOK
    <3> QED BY <3>1, <3>2
  <2>3. CASE mine[t] = NULL
    BY <1>1, <1>2, <2>1, <2>2, <2>3 DEF ClientAt
  <2>4. CASE mine[t] # NULL
    <3>1. PICK m \in Operations : m = mine[t] /\ m = mine'[t]
      BY <1>1, <2>1, <2>4, SubmittedFacts DEF ClientAt
    <3>2. ~evaluate_concurrently(m) => m # cur
      BY <1>11, <3>1
    <3>3. ~evaluate_concurrently(m) => (Pending(m)' <=> Pending(m))
      BY <1>6, <3>2
    <3>4. ~Pending(m) => m # cur /\ ~Pending(m)' /\ ~Deleting(m)'
      BY <1>6, <1>7, <1>8
    <3> QED BY <1>1, <1>2, <2>1, <2>2, <2>4, <3>1, <3>3, <3>4 DEF ClientAt
  <2> QED BY <2>2, <2>3, <2>4
<1>12. debt' \in [Threads -> {0, 1}]
  <2>1. \A t \in Threads : debt'[t] \in {0, 1}
    BY <1>0, <1>10, <1>11 DEF TypeOK
  <2>2. DOMAIN debt' = Threads /\ debt' = [t \in Threads |-> debt'[t]]
    BY <1>0, <1>1 DEF TypeOK
  <2> QED BY <2>1, <2>2
<1> QED BY <1>3, <1>4, <1>5, <1>6, <1>8, <1>9, <1>10, <1>11, <1>12

\* The operations of the C heap are deleted once nothing refers to them.
LEMMA DeleteOps ==
  ASSUME OpsInv, Delete
  PROVE  /\ SyncAt' /\ LocalsAt' /\ Places'
         /\ cur \in Operations /\ \A op \in Operations : Pending(op)' <=> Pending(op)
         /\ (\A op \in Operations : OpAt(op)') /\ (\A t \in Threads : ClientAt(t)')
<1>0. /\ TypeOK /\ SyncAt /\ LocalsAt /\ Places /\ pc \in [Everyone -> AllPcs] /\ VM \in Everyone
      /\ \A t \in Threads : t \in Everyone /\ t # VM
  BY DEF OpsInv, Everyone
<1>1. /\ pc[VM] = "delete" /\ UNCHANGED <<queue, safepoint_ops, drain_list, outer, sync, mine, debt>>
      /\ live' = IF evaluate_concurrently(cur) THEN live \ {cur} ELSE live
      /\ \/ evaluate_at_safepoint(cur) /\ Goto(VM, "batch") /\ UNCHANGED cur
         \/ ~evaluate_at_safepoint(cur) /\ TraceLongCompiles /\ Goto(VM, "trace") /\ UNCHANGED cur
         \/ ~evaluate_at_safepoint(cur) /\ Goto(VM, "lockNotify") /\ cur' = NULL
  BY DEF Delete, AfterDelete, is_cheap_allocated, queues, clients
<1>2. /\ \A t \in Threads : pc'[t] = pc[t]
      /\ \/ evaluate_at_safepoint(cur) /\ pc'[VM] = "batch" /\ UNCHANGED cur
         \/ ~evaluate_at_safepoint(cur) /\ TraceLongCompiles /\ pc'[VM] = "trace" /\ UNCHANGED cur
         \/ ~evaluate_at_safepoint(cur) /\ pc'[VM] = "lockNotify" /\ cur' = NULL
  BY <1>0, <1>1 DEF Goto
<1>3. SyncAt' /\ LocalsAt'
  BY <1>0, <1>1, <1>2, SMTT(30) DEF TypeOK, SyncAt, LocalsAt, VMPcs, CurPcs, NestPcs, ExitPcs, LoopPcs, BatchPcs
<1>4. ~HasTop /\ ~HasTop' /\ cur \in Operations
  BY <1>0, <1>1, <1>2, SMTT(30) DEF HasTop, CurPcs, NestPcs, ExitPcs, LocalsAt
<1>5. Places'
  BY <1>0, <1>1, <1>4 DEF Places
<1>6. \A op \in Operations : (Pending(op)' <=> Pending(op)) /\ ~Deleting(op)'
  BY <1>1, <1>2, <1>4 DEF Pending, Deleting
<1>7. evaluate_concurrently(cur) => Deleting(cur) /\ ~Pending(cur)
  BY <1>1, <1>4 DEF OpsInv, OpAt, Deleting
<1>8. ASSUME NEW op \in Operations PROVE OpAt(op)'
  <2>1. OpAt(op)
    BY DEF OpsInv
  <2> QED BY <1>1, <1>6, <1>7, <2>1 DEF OpAt
<1>9. ASSUME NEW t \in Threads PROVE ClientAt(t)'
  <2>1. ClientAt(t)
    BY DEF OpsInv
  <2>2. CASE mine[t] = NULL
    BY <1>1, <1>2, <2>1, <2>2 DEF ClientAt
  <2>3. CASE mine[t] # NULL
    <3>1. PICK m \in Operations : m = mine[t] /\ m = mine'[t]
      BY <1>1, <2>1, <2>3, SubmittedFacts DEF ClientAt
    <3>2. m \in live /\ (~Deleting(m) \/ ~evaluate_concurrently(m)) => m \in live'
      BY <1>1, <1>7
    <3> QED BY <1>1, <1>2, <1>6, <2>1, <2>3, <3>1, <3>2 DEF ClientAt
  <2> QED BY <2>2, <2>3
<1> QED BY <1>3, <1>4, <1>5, <1>6, <1>8, <1>9

-----------------------------------------------------------------------------
(* Steps of the submitters and of the thread that destroys the VM.         *)

\* They leave the VM thread and its locals alone.
LEMMA VMKept ==
  ASSUME SyncAt, LocalsAt, pc'[VM] = pc[VM], UNCHANGED <<safepoint_ops, drain_list, cur, outer, sync>>,
         cur \in live /\ cur.nested => cur \in live',
         queue["Safepoint"] # <<>> => queue'["Safepoint"] # <<>>
  PROVE  /\ SyncAt' /\ LocalsAt' /\ (HasTop' <=> HasTop) /\ Top' = Top
         /\ \A op \in Operations : Deleting(op)' <=> Deleting(op)
<1>1. SyncAt'
  BY DEF SyncAt
<1>2. LocalsAt'
  BY SMTT(30) DEF LocalsAt, NestPcs
<1>3. (HasTop' <=> HasTop) /\ Top' = Top
  BY DEF HasTop, Top
<1>4. \A op \in Operations : Deleting(op)' <=> Deleting(op)
  BY DEF Deleting
<1> QED BY <1>1, <1>2, <1>3, <1>4

\* If the queues stay as they are too, so do the places of the operations.
LEMMA QueuesKept ==
  ASSUME Places, UNCHANGED <<queue, safepoint_ops>>, HasTop' <=> HasTop, Top' = Top
  PROVE  Places' /\ \A op \in Operations : Pending(op)' <=> Pending(op)
BY DEF Places, Pending

\* A thread is not concerned by what others do with their operations.
LEMMA ClientKept ==
  ASSUME NEW u \in Threads, ClientAt(u), pc'[u] = pc[u], mine'[u] = mine[u], debt'[u] = debt[u],
         \A op \in Operations : op = mine[u] =>
           (Pending(op)' <=> Pending(op)) /\ (Deleting(op)' <=> Deleting(op)) /\ (op \in live => op \in live')
  PROVE  ClientAt(u)'
<1>1. CASE mine[u] = NULL
  BY <1>1 DEF ClientAt
<1>2. CASE mine[u] # NULL
  <2>1. PICK m \in Operations : m = mine[u] /\ m = mine'[u]
    BY <1>2, SubmittedFacts DEF ClientAt
  <2>2. (Pending(m)' <=> Pending(m)) /\ (Deleting(m)' <=> Deleting(m)) /\ (m \in live => m \in live')
    BY <2>1
  <2> QED BY <1>2, <2>1, <2>2 DEF ClientAt
<1> QED BY <1>1, <1>2

\* What every step of a submitter gives.
Kept ==
  /\ SyncAt' /\ LocalsAt' /\ Places'
  /\ (\A op \in Operations : OpAt(op)') /\ (\A t \in Threads : ClientAt(t)')

\* Steps that only move a thread: it waits for a lock, or has come from there.
LEMMA WalkOps ==
  ASSUME OpsInv, NEW who \in Everyone, who # VM, NEW l, Goto(who, l),
         UNCHANGED <<queue, safepoint_ops, drain_list, cur, outer, sync, live, mine, debt>>,
         who \in Threads =>
           \/ pc[who] = "lockQueue" /\ l = "add"
           \/ pc[who] \in {"request", "stopped", "check"} /\ l \in {"request", "stopped", "check"}
           \/ pc[who] = "check" /\ l = "epilogue" /\ debt[who] = 0
  PROVE  Kept
<1>0. /\ SyncAt /\ LocalsAt /\ Places /\ pc \in [Everyone -> AllPcs] /\ VM \in Everyone
      /\ \A t \in Threads : t \in Everyone /\ ClientAt(t)
  BY DEF OpsInv, Everyone
<1>1. pc'[VM] = pc[VM] /\ pc'[who] = l /\ \A t \in Threads : t # who => pc'[t] = pc[t]
  BY <1>0 DEF Goto
<1>2. /\ SyncAt' /\ LocalsAt' /\ (HasTop' <=> HasTop) /\ Top' = Top
      /\ \A op \in Operations : Deleting(op)' <=> Deleting(op)
  BY <1>0, <1>1, VMKept
<1>3. Places' /\ \A op \in Operations : Pending(op)' <=> Pending(op)
  BY <1>0, <1>2, QueuesKept
<1>4. ASSUME NEW op \in Operations PROVE OpAt(op)'
  <2>1. OpAt(op)
    BY DEF OpsInv
  <2> QED BY <1>2, <1>3, <2>1 DEF OpAt
<1>5. ASSUME NEW t \in Threads PROVE ClientAt(t)'
  <2>1. CASE t # who
    BY <1>0, <1>1, <1>2, <1>3, <2>1, ClientKept
  <2>2. CASE t = who
    <3>1. mine[t] # NULL /\ ClientAt(t)
      BY <1>0, <2>2 DEF ClientAt
    <3>2. PICK m \in Operations : m = mine[t] /\ m = mine'[t]
      BY <3>1, SubmittedFacts DEF ClientAt
    <3>3. (Pending(m)' <=> Pending(m)) /\ (Deleting(m)' <=> Deleting(m))
      BY <1>2, <1>3
    <3>4. \/ pc[t] = "lockQueue" /\ pc'[t] = "add"
          \/ pc[t] \in {"request", "stopped", "check"} /\ pc'[t] \in {"request", "stopped", "check"}
          \/ pc[t] = "check" /\ pc'[t] = "epilogue" /\ debt[t] = 0
      BY <1>1, <2>2
    <3> QED BY <3>1, <3>2, <3>3, <3>4, SMTT(30) DEF ClientAt
  <2> QED BY <2>1, <2>2
<1> QED BY <1>2, <1>3, <1>4, <1>5 DEF Kept

\* A submitter makes its operation and takes a ticket.
LEMMA SubmitOps ==
  ASSUME OpsInv, NEW t \in Threads, Submit(t)
  PROVE  /\ Kept /\ debt' \in [Threads -> {0, 1}]
         /\ \E op \in Submitted : op \notin live /\ live' = live \cup {op} /\ mine' = [mine EXCEPT ![t] = op]
<1>0. /\ TypeOK /\ SyncAt /\ LocalsAt /\ Places /\ pc \in [Everyone -> AllPcs] /\ VM \in Everyone /\ t # VM
      /\ \A u \in Threads : u \in Everyone /\ ClientAt(u)
  BY DEF OpsInv, Everyone
<1>1. PICK m \in Modes[t] :
        LET op == [caller |-> t, mode |-> m, nested |-> FALSE] IN
          /\ op \notin live /\ live' = live \cup {op}
          /\ mine' = [mine EXCEPT ![t] = op]
          /\ debt' = IF evaluate_concurrently(op) THEN debt ELSE [debt EXCEPT ![t] = @ + 1]
  BY DEF Submit
<1>2. PICK op : op = [caller |-> t, mode |-> m, nested |-> FALSE]
  OBVIOUS
<1>3. op \in Submitted /\ op \in Operations /\ op.caller = t /\ ~op.nested
  <2>1. m \in AllModes
    OBVIOUS
  <2>2. op \in Operations /\ op.caller = t /\ op.nested = FALSE
    BY <1>2, <2>1, OpFacts
  <2> QED BY <1>2, <2>2, SubmittedFacts
<1>4. /\ op \notin live /\ live' = live \cup {op} /\ mine' = [mine EXCEPT ![t] = op]
      /\ debt' = IF evaluate_concurrently(op) THEN debt ELSE [debt EXCEPT ![t] = debt[t] + 1]
  BY <1>1, <1>2
<1>5. pc[t] = "out" /\ Goto(t, "lockQueue") /\ UNCHANGED <<queue, safepoint_ops, drain_list, cur, outer, sync>>
  BY DEF Submit, queues, vmLocals
<1>6. pc'[VM] = pc[VM] /\ pc'[t] = "lockQueue" /\ \A u \in Threads : u # t => pc'[u] = pc[u]
  BY <1>0, <1>5 DEF Goto
<1>7. /\ SyncAt' /\ LocalsAt' /\ (HasTop' <=> HasTop) /\ Top' = Top
      /\ \A o \in Operations : Deleting(o)' <=> Deleting(o)
  BY <1>0, <1>4, <1>5, <1>6, VMKept
<1>8. Places' /\ \A o \in Operations : Pending(o)' <=> Pending(o)
  BY <1>0, <1>5, <1>7, QueuesKept
<1>9. mine[t] = NULL /\ debt[t] # 1
  BY <1>0, <1>5 DEF ClientAt
<1>10. mine'[t] = op /\ \A u \in Threads : u # t => mine'[u] = mine[u] /\ debt'[u] = debt[u]
  BY <1>0, <1>4 DEF TypeOK
<1>11. /\ debt' \in [Threads -> {0, 1}]
       /\ debt'[t] = 1 <=> ~evaluate_concurrently(op)
  <2>1. debt \in [Threads -> {0, 1}]
    BY <1>0 DEF TypeOK
  <2>2. CASE evaluate_concurrently(op)
    BY <1>4, <1>9, <2>1, <2>2
  <2>3. CASE ~evaluate_concurrently(op)
    <3>1. debt' = [debt EXCEPT ![t] = debt[t] + 1]
      BY <1>4, <2>3
    <3>2. debt'[t] = 1 /\ debt' \in [Threads -> {0, 1}]
      BY <1>9, <2>1, <3>1, SMTT(30)
    <3> QED BY <2>3, <3>2
  <2> QED BY <2>2, <2>3
<1>12. OpAt(op) /\ ~Pending(op) /\ ~Deleting(op)
  BY <1>3, <1>4 DEF OpsInv, OpAt
<1>13. ASSUME NEW o \in Operations PROVE OpAt(o)'
  <2>1. OpAt(o)
    BY DEF OpsInv
  <2>2. Pending(o) /\ ~evaluate_concurrently(o) => mine'[o.caller] = o
    <3>1. o.caller \in Threads
      BY SMTT(30) DEF Operations
    <3>2. Pending(o) /\ ~evaluate_concurrently(o) => mine[o.caller] = o
      BY <2>1 DEF OpAt
    <3> QED BY <1>9, <1>10, <3>1, <3>2
  <2> QED BY <1>3, <1>4, <1>7, <1>8, <2>1, <2>2 DEF OpAt
<1>14. ASSUME NEW u \in Threads PROVE ClientAt(u)'
  <2>1. CASE u # t
    <3>1. \A o \in Operations : o \in live => o \in live'
      BY <1>4
    <3> QED BY <1>0, <1>6, <1>7, <1>8, <1>10, <2>1, <3>1, ClientKept
  <2>2. CASE u = t
    <3>1. ~Pending(op)' /\ ~Deleting(op)' /\ op \in live' /\ op # NULL
      BY <1>3, <1>4, <1>7, <1>8, <1>12
    <3> QED BY <1>3, <1>6, <1>10, <1>11, <2>2, <3>1 DEF ClientAt
  <2> QED BY <2>1, <2>2
<1> QED BY <1>3, <1>4, <1>7, <1>8, <1>11, <1>13, <1>14 DEF Kept

\* VMOperationQueue::add(): the operation of t is on the queue of its
\* priority from now on.
LEMMA AddOps ==
  ASSUME OpsInv, NEW t \in Threads, Add(t)
  PROVE  /\ Kept /\ queue' \in [{"Safepoint", "Medium"} -> Seq(Operations)]
         /\ \A op \in Operations : Pending(op)' <=> Pending(op) \/ op = mine[t]
<1>0. /\ TypeOK /\ SyncAt /\ LocalsAt /\ Places /\ pc \in [Everyone -> AllPcs] /\ VM \in Everyone /\ t # VM
      /\ \A u \in Threads : u \in Everyone /\ ClientAt(u)
  BY DEF OpsInv, Everyone
<1>1. /\ pc[t] = "add" /\ Goto(t, "unlockQueue")
      /\ UNCHANGED <<safepoint_ops, drain_list, cur, outer, sync, mine, debt, live>>
      /\ queue' = [queue EXCEPT ![Priority(mine[t])] = Append(queue[Priority(mine[t])], mine[t])]
  BY DEF Add, vmLocals, clients
<1>2. ClientAt(t) /\ mine[t] # NULL
  BY <1>0, <1>1 DEF ClientAt
<1>3. PICK m \in Operations : m = mine[t] /\ m = mine'[t] /\ m \in Submitted
  BY <1>1, <1>2, SubmittedFacts DEF ClientAt
<1>4. /\ m \in live /\ m.caller = t /\ ~m.nested /\ ~Pending(m) /\ ~Deleting(m) /\ m # NULL
      /\ ~evaluate_concurrently(m) <=> debt[t] = 1
  BY <1>1, <1>2, <1>3 DEF ClientAt
<1>5. PICK p \in {"Safepoint", "Medium"} : p = Priority(m) /\ (p = "Safepoint" <=> evaluate_at_safepoint(m))
  BY DEF Priority
<1>6. queue' = [queue EXCEPT ![p] = Append(queue[p], m)] /\ queue[p] \in Seq(Operations) /\ Injective(queue[p])
      /\ DOMAIN queue = {"Safepoint", "Medium"} /\ m \notin In(queue[p])
  BY <1>0, <1>1, <1>3, <1>4, <1>5, QueueTypes DEF Places, Pending
<1>7. In(Append(queue[p], m)) = In(queue[p]) \cup {m} /\ Injective(Append(queue[p], m))
  BY <1>6, AppendFacts, SMTT(30)
<1>8. Append(queue[p], m) \in Seq(Operations) /\ Append(queue[p], m) # <<>>
  BY <1>6, SMTT(30)
<1>9. /\ queue'[p] = Append(queue[p], m) /\ \A r \in {"Safepoint", "Medium"} : r # p => queue'[r] = queue[r]
      /\ In(queue'[p]) = In(queue[p]) \cup {m} /\ Injective(queue'[p])
  BY <1>6, <1>7
<1>10. queue' \in [{"Safepoint", "Medium"} -> Seq(Operations)]
  BY <1>0, <1>6, <1>8 DEF TypeOK
<1>11. pc'[VM] = pc[VM] /\ pc'[t] = "unlockQueue" /\ \A u \in Threads : u # t => pc'[u] = pc[u]
  BY <1>0, <1>1 DEF Goto
<1>12. queue["Safepoint"] # <<>> => queue'["Safepoint"] # <<>>
  BY <1>8, <1>9
<1>13. /\ SyncAt' /\ LocalsAt' /\ (HasTop' <=> HasTop) /\ Top' = Top
       /\ \A op \in Operations : Deleting(op)' <=> Deleting(op)
  BY <1>0, <1>1, <1>11, <1>12, VMKept
<1>14. \A op \in Operations : Pending(op)' <=> Pending(op) \/ op = m
  <2>1. CASE p = "Safepoint"
    BY <1>1, <1>9, <1>13, <2>1, "Medium" # "Safepoint" DEF Pending
  <2>2. CASE p = "Medium"
    BY <1>1, <1>9, <1>13, <2>2, "Medium" # "Safepoint" DEF Pending
  <2> QED BY <2>1, <2>2
<1>15. Places'
  <2>0. m \notin In(safepoint_ops) /\ (HasTop => Top # m)
    BY <1>4 DEF Pending
  <2>1. CASE p = "Safepoint"
    <3>1. /\ In(queue'["Safepoint"]) = In(queue["Safepoint"]) \cup {m} /\ Injective(queue'["Safepoint"])
          /\ queue'["Medium"] = queue["Medium"] /\ evaluate_at_safepoint(m)
      BY <1>5, <1>9, <2>1, "Medium" # "Safepoint"
    <3>2. In(queue'["Safepoint"]) \cap In(safepoint_ops') = {}
      BY <1>0, <1>1, <2>0, <3>1 DEF Places
    <3>3. HasTop' => Top' \notin In(queue'["Safepoint"]) \cup In(queue'["Medium"]) \cup In(safepoint_ops')
      BY <1>0, <1>1, <1>13, <2>0, <3>1 DEF Places
    <3> QED BY <1>0, <1>1, <3>1, <3>2, <3>3 DEF Places
  <2>2. CASE p = "Medium"
    <3>1. /\ In(queue'["Medium"]) = In(queue["Medium"]) \cup {m} /\ Injective(queue'["Medium"])
          /\ queue'["Safepoint"] = queue["Safepoint"] /\ ~evaluate_at_safepoint(m)
      BY <1>5, <1>9, <2>2, "Medium" # "Safepoint"
    <3> QED BY <1>0, <1>1, <1>13, <2>0, <3>1 DEF Places
  <2> QED BY <2>1, <2>2
<1>17. ASSUME NEW op \in Operations PROVE OpAt(op)'
  <2>1. OpAt(op)
    BY DEF OpsInv
  <2> QED BY <1>1, <1>3, <1>4, <1>13, <1>14, <2>1 DEF OpAt
<1>18. ASSUME NEW u \in Threads PROVE ClientAt(u)'
  <2>1. CASE u # t
    <3>0. mine[u] # NULL => mine[u].caller = u
      BY <1>0 DEF ClientAt
    <3>1. \A op \in Operations : op = mine[u] => op # m
      BY <1>4, <2>1, <3>0
    <3> QED BY <1>0, <1>1, <1>11, <1>13, <1>14, <2>1, <3>1, ClientKept
  <2>2. CASE u = t
    <3>1. Pending(m)'
      BY <1>14
    <3>2. /\ debt'[t] = 1 <=> ~evaluate_concurrently(m) /\ Pending(m)'
          /\ pc'[t] = "unlockQueue" /\ m \in live'
      BY <1>1, <1>4, <1>11, <3>1
    <3> QED BY <1>3, <1>4, <2>2, <3>1, <3>2 DEF ClientAt
  <2> QED BY <2>1, <2>2
<1> QED BY <1>3, <1>10, <1>13, <1>14, <1>15, <1>17, <1>18 DEF Kept

\* The submitter of an asynchronous operation goes its way.
LEMMA UnlockOps ==
  ASSUME OpsInv, NEW t \in Threads, UnlockQueue(t)
  PROVE  Kept
<1>0. /\ TypeOK /\ SyncAt /\ LocalsAt /\ Places /\ pc \in [Everyone -> AllPcs] /\ VM \in Everyone /\ t # VM
      /\ \A u \in Threads : u \in Everyone /\ ClientAt(u)
  BY DEF OpsInv, Everyone
<1>1. /\ pc[t] = "unlockQueue" /\ UNCHANGED <<queue, safepoint_ops, drain_list, cur, outer, sync, debt, live>>
      /\ \/ evaluate_concurrently(mine[t]) /\ Goto(t, "out") /\ mine' = [mine EXCEPT ![t] = NULL]
         \/ ~evaluate_concurrently(mine[t]) /\ Goto(t, "request") /\ UNCHANGED mine
  BY DEF UnlockQueue, vmLocals, queues
<1>2. PICK m \in Operations : m = mine[t] /\ m.caller = t /\ m # NULL
  BY <1>0, <1>1, SubmittedFacts DEF ClientAt
<1>3. /\ pc'[VM] = pc[VM]
      /\ \A u \in Threads : u # t => pc'[u] = pc[u] /\ mine'[u] = mine[u]
      /\ \/ evaluate_concurrently(m) /\ pc'[t] = "out" /\ mine'[t] = NULL
         \/ ~evaluate_concurrently(m) /\ pc'[t] = "request" /\ mine'[t] = m
  BY <1>0, <1>1, <1>2 DEF Goto, TypeOK
<1>4. /\ SyncAt' /\ LocalsAt' /\ (HasTop' <=> HasTop) /\ Top' = Top
      /\ \A op \in Operations : Deleting(op)' <=> Deleting(op)
  BY <1>0, <1>1, <1>3, VMKept
<1>5. Places' /\ \A op \in Operations : Pending(op)' <=> Pending(op)
  BY <1>0, <1>1, <1>4, QueuesKept
<1>6. ASSUME NEW op \in Operations PROVE OpAt(op)'
  <2>1. OpAt(op) /\ op.caller \in Threads
    BY SMTT(30) DEF OpsInv, Operations
  <2>2. ~evaluate_concurrently(op) /\ mine[op.caller] = op => mine'[op.caller] = op
    BY <1>2, <1>3, <2>1
  <2> QED BY <1>1, <1>4, <1>5, <2>1, <2>2 DEF OpAt
<1>7. ASSUME NEW u \in Threads PROVE ClientAt(u)'
  <2>1. CASE u # t
    BY <1>0, <1>1, <1>3, <1>4, <1>5, <2>1, ClientKept
  <2>2. CASE u = t
    <3>1. ClientAt(t) /\ debt'[t] = debt[t] /\ (m \in live' <=> m \in live) /\ (Pending(m)' <=> Pending(m))
      BY <1>0, <1>1, <1>5
    <3> QED BY <1>1, <1>2, <1>3, <2>2, <3>1 DEF ClientAt
  <2> QED BY <2>1, <2>2
<1> QED BY <1>4, <1>5, <1>6, <1>7 DEF Kept

\* The caller's frame goes, with the operation that has completed.
LEMMA EpilogueOps ==
  ASSUME OpsInv, NEW t \in Threads, Epilogue(t)
  PROVE  /\ Kept /\ mine[t] \in Submitted /\ mine[t] \in live
         /\ ~Pending(mine[t]) /\ ~evaluate_concurrently(mine[t])
<1>0. /\ TypeOK /\ SyncAt /\ LocalsAt /\ Places /\ pc \in [Everyone -> AllPcs] /\ VM \in Everyone /\ t # VM
      /\ \A u \in Threads : u \in Everyone /\ ClientAt(u)
  BY DEF OpsInv, Everyone
<1>1. /\ pc[t] = "epilogue" /\ UNCHANGED <<queue, safepoint_ops, drain_list, cur, outer, sync, debt>>
      /\ live' = live \ {mine[t]} /\ mine' = [mine EXCEPT ![t] = NULL] /\ Goto(t, "out")
  BY DEF Epilogue, vmLocals, queues
<1>2. PICK m \in Operations : m = mine[t] /\ m.caller = t /\ m # NULL /\ m \in Submitted /\ ~m.nested
  BY <1>0, <1>1, SubmittedFacts DEF ClientAt
<1>3. /\ pc'[VM] = pc[VM] /\ pc'[t] = "out" /\ mine'[t] = NULL
      /\ \A u \in Threads : u # t => pc'[u] = pc[u] /\ mine'[u] = mine[u]
  BY <1>0, <1>1 DEF Goto, TypeOK
<1>4. ~evaluate_concurrently(m) /\ debt[t] # 1 /\ ~Pending(m) /\ m \in live
  <2>1. ClientAt(t) /\ debt[t] = 0
    BY <1>0, <1>1 DEF ClientAt
  <2>2. debt[t] # 1
    BY <2>1, SMTT(30)
  <2> QED BY <1>1, <1>2, <2>1, <2>2 DEF ClientAt
<1>5. /\ SyncAt' /\ LocalsAt' /\ (HasTop' <=> HasTop) /\ Top' = Top
      /\ \A op \in Operations : Deleting(op)' <=> Deleting(op)
  <2>1. cur \in live /\ cur.nested => cur \in live'
    BY <1>1, <1>2
  <2> QED BY <1>0, <1>1, <1>3, <2>1, VMKept
<1>6. Places' /\ \A op \in Operations : Pending(op)' <=> Pending(op)
  BY <1>0, <1>1, <1>5, QueuesKept
<1>7. ASSUME NEW op \in Operations PROVE OpAt(op)'
  <2>1. OpAt(op) /\ op.caller \in Threads
    BY SMTT(30) DEF OpsInv, Operations
  <2>2. Pending(op) /\ mine[op.caller] = op => mine'[op.caller] = op
    BY <1>2, <1>3, <1>4, <2>1
  <2>3. (Pending(op) => op # m) /\ (Deleting(op) => op # m)
    BY <1>4 DEF Deleting
  <2> QED BY <1>1, <1>2, <1>5, <1>6, <2>1, <2>2, <2>3 DEF OpAt
<1>8. ASSUME NEW u \in Threads PROVE ClientAt(u)'
  <2>1. CASE u # t
    <3>0. mine[u] # NULL => mine[u].caller = u
      BY <1>0 DEF ClientAt
    <3>1. \A op \in Operations : op = mine[u] => op # m
      BY <1>2, <2>1, <3>0
    <3> QED BY <1>0, <1>1, <1>2, <1>3, <1>5, <1>6, <2>1, <3>1, ClientKept
  <2>2. CASE u = t
    BY <1>1, <1>3, <1>4, <2>2 DEF ClientAt
  <2> QED BY <2>1, <2>2
<1> QED BY <1>2, <1>4, <1>5, <1>6, <1>7, <1>8 DEF Kept

-----------------------------------------------------------------------------
(* The types.                                                              *)

\* The parts of TypeOK: flags and counters; where the submitters are; the
\* locals of the VM thread and the operations.
FlagsOK ==
  /\ counter \in 0 .. MaxCounter /\ others \in 0 .. MaxOther
  /\ timedout \in BOOLEAN /\ should_terminate \in BOOLEAN /\ terminated \in BOOLEAN
  /\ sync \in {"no", "begun", "reached"}

PcsOK == pc \in [Everyone -> AllPcs] /\ \A t \in Threads : pc[t] \in Pcs

ListsOK ==
  /\ queue \in [{"Safepoint", "Medium"} -> Seq(Operations)]
  /\ drain_list \in Seq(Operations) /\ safepoint_ops \in Seq(Operations)
  /\ cur \in Operations \cup {NULL} /\ outer \in Operations \cup {NULL}

OpsOK ==
  /\ mine \in [Threads -> Operations \cup {NULL}] /\ debt \in [Threads -> {0, 1}]
  /\ live \subseteq Operations

LEMMA TypeParts == TypeOK /\ pc \in [Everyone -> AllPcs] <=> FlagsOK /\ PcsOK /\ ListsOK /\ OpsOK
BY DEF TypeOK, FlagsOK, PcsOK, ListsOK, OpsOK

LEMMA FlagsStep ==
  ASSUME FlagsOK, Next
  PROVE  FlagsOK'
<1>1. counter' \in 0 .. MaxCounter
  <2>1. UNCHANGED counter \/ Count
    BY DEF Next, Submit, Client, LockQueue, Add, UnlockQueue, LockRequest, Released, Check, Epilogue,
           Terminate, AwaitExit, VMStep, Begin, Reach, End, LockLoop, Take, Timeout, Woken, ForceSafepoint,
           Retake, Run, Nest, NestReturn, Complete, Delete, Trace, Batch, Drain, LockNotify, NotifyAll, Exit, queues
  <2> QED BY <2>1, SMTT(30) DEF FlagsOK, Count
<1>2. others' \in 0 .. MaxOther
  <2>1. \/ UNCHANGED others
        \/ others' <= MaxOther /\ (others' = others \/ others' = others + 1)
    BY DEF Next, Submit, Client, LockQueue, Add, UnlockQueue, LockRequest, Released, Check, Epilogue,
           Terminate, AwaitExit, VMStep, Begin, Reach, End, LockLoop, Take, Timeout, Woken, ForceSafepoint,
           Retake, Run, Nest, NestReturn, Complete, Delete, Trace, Batch, Drain, LockNotify, NotifyAll, Exit, clients
  <2> QED BY <2>1, SMTT(30) DEF FlagsOK
<1>3. timedout' \in BOOLEAN /\ should_terminate' \in BOOLEAN /\ terminated' \in BOOLEAN
  BY DEF FlagsOK, Next, Submit, Client, LockQueue, Add, UnlockQueue, LockRequest, Released, Check, Epilogue,
         Terminate, AwaitExit, VMStep, Begin, Reach, End, LockLoop, Take, Timeout, Woken, ForceSafepoint,
         Retake, Run, Nest, NestReturn, Complete, Delete, Trace, Batch, Drain, LockNotify, NotifyAll, Exit,
         vmLocals, ending
<1>4. sync' \in {"no", "begun", "reached"}
  BY DEF FlagsOK, Next, Submit, Client, LockQueue, Add, UnlockQueue, LockRequest, Released, Check, Epilogue,
         Terminate, AwaitExit, VMStep, Begin, Reach, End, LockLoop, Take, Timeout, Woken, ForceSafepoint,
         Retake, Run, Nest, NestReturn, Complete, Delete, Trace, Batch, Drain, LockNotify, NotifyAll, Exit
<1> QED BY <1>1, <1>2, <1>3, <1>4 DEF FlagsOK

\* Who moves, and where to.
LEMMA Moves ==
  /\ \A t \in Threads : Submit(t) \/ Client(t) => \E l \in Pcs : Goto(t, l)
  /\ Terminate \/ AwaitExit => \E l \in AllPcs : Goto(Destroyer, l)
  /\ VMStep => UNCHANGED pc \/ \E l : Goto(VM, l)
<1>1. ASSUME NEW t \in Threads, Submit(t) \/ Client(t) PROVE \E l \in Pcs : Goto(t, l)
  BY <1>1 DEF Submit, Client, LockQueue, Add, UnlockQueue, LockRequest, Released, Check, Epilogue, Pcs
<1>2. ASSUME Terminate \/ AwaitExit PROVE \E l \in AllPcs : Goto(Destroyer, l)
  BY <1>2 DEF Terminate, AwaitExit, DestroyerPcs, AllPcs
<1>3. ASSUME VMStep PROVE UNCHANGED pc \/ \E l : Goto(VM, l)
  <2>1. CASE Begin \/ Reach \/ End \/ LockLoop \/ Timeout \/ Woken \/ ForceSafepoint
    BY <2>1 DEF Begin, Reach, End, LockLoop, Timeout, Woken, ForceSafepoint
  <2>2. CASE Take \/ Retake
    <3>1. Loop(HeadOf(From))
      BY <2>2 DEF Take, Retake
    <3> QED BY <3>1 DEF Loop
  <2>3. CASE Run \/ NestReturn \/ Complete \/ Delete \/ Trace
    BY <2>3 DEF Run, NestReturn, Complete, Delete, AfterDelete, Trace
  <2>4. CASE Nest
    BY <2>4 DEF Nest
  <2>5. CASE Batch \/ Drain \/ LockNotify
    BY <2>5 DEF Batch, Drain, LockNotify
  <2>6. CASE NotifyAll \/ Exit
    BY <2>6 DEF NotifyAll, Exit
  <2> QED BY <1>3, <2>1, <2>2, <2>3, <2>4, <2>5, <2>6 DEF VMStep
<1> QED BY <1>1, <1>2, <1>3

LEMMA PcsStep ==
  ASSUME PcsOK, Next, LocalsAt'
  PROVE  PcsOK' /\ (VMStep => \A t \in Threads : pc'[t] = pc[t])
<1>0. /\ VM \in Everyone /\ Destroyer \in Everyone /\ VM \notin Threads /\ Destroyer \notin Threads
      /\ \A t \in Threads : t \in Everyone
  BY DEF Everyone
<1>1. ASSUME VMStep PROVE PcsOK' /\ \A t \in Threads : pc'[t] = pc[t]
  <2>1. UNCHANGED pc \/ \E l : Goto(VM, l)
    BY <1>1, Moves
  <2>2. pc'[VM] \in AllPcs
    BY DEF LocalsAt, AllPcs
  <2>3. CASE UNCHANGED pc
    BY <2>3 DEF PcsOK
  <2>4. CASE \E l : Goto(VM, l)
    <3>1. PICK l : pc' = [pc EXCEPT ![VM] = l]
      BY <2>4 DEF Goto
    <3>2. l \in AllPcs
      BY <1>0, <2>2, <3>1 DEF PcsOK
    <3> QED BY <1>0, <3>1, <3>2 DEF PcsOK
  <2> QED BY <2>1, <2>3, <2>4
<1>2. ASSUME NEW t \in Threads, Submit(t) \/ Client(t) PROVE PcsOK'
  <2>1. PICK l \in Pcs : pc' = [pc EXCEPT ![t] = l]
    BY <1>2, Moves DEF Goto
  <2>2. l \in AllPcs
    BY DEF AllPcs
  <2> QED BY <1>0, <2>1, <2>2 DEF PcsOK
<1>3. ASSUME Terminate \/ AwaitExit PROVE PcsOK'
  <2>1. PICK l \in AllPcs : pc' = [pc EXCEPT ![Destroyer] = l]
    BY <1>3, Moves DEF Goto
  <2> QED BY <1>0, <2>1 DEF PcsOK
<1> QED BY <1>1, <1>2, <1>3 DEF Next

LEMMA ListsStep ==
  ASSUME OpsInv, Next
  PROVE  ListsOK'
<1>0. TypeOK /\ LocalsAt /\ ListsOK
  BY TypeParts DEF OpsInv
<1>1. ASSUME NEW t \in Threads, Submit(t) \/ Client(t) PROVE ListsOK'
  <2>1. CASE Add(t)
    BY <1>0, <2>1, AddOps DEF ListsOK, Add, vmLocals
  <2>2. CASE ~Add(t)
    BY <1>0, <1>1, <2>2 DEF ListsOK, Submit, Client, LockQueue, UnlockQueue, LockRequest, Released, Check, Epilogue,
                       queues, vmLocals
  <2> QED BY <2>1, <2>2
<1>2. CASE Terminate \/ AwaitExit
  BY <1>0, <1>2 DEF ListsOK, Terminate, AwaitExit, queues, vmLocals
<1>3. CASE Begin \/ Reach \/ End \/ LockLoop \/ Timeout \/ Woken \/ ForceSafepoint \/ LockNotify \/ NotifyAll \/ Exit
  BY <1>0, <1>3 DEF ListsOK, Begin, Reach, End, LockLoop, Timeout, Woken, ForceSafepoint, LockNotify, NotifyAll, Exit,
                    queues, vmLocals
<1>4. CASE Run \/ NestReturn \/ Complete \/ Delete \/ Trace
  BY <1>0, <1>4 DEF ListsOK, Run, NestReturn, Complete, Delete, AfterDelete, Trace, queues, vmLocals
<1>5. CASE Nest
  <2>1. UNCHANGED <<queue, drain_list, safepoint_ops>> /\ outer' = cur
    BY <1>5 DEF Nest, queues
  <2>2. cur' \in Operations
    <3>1. cur.caller \in Threads
      BY <1>0, <1>5, SMTT(30) DEF Nest, LocalsAt, CurPcs, Operations
    <3>2. PICK m \in AllModes : cur' = [caller |-> cur.caller, mode |-> m, nested |-> TRUE]
      BY <1>5 DEF Nest
    <3> QED BY <3>1, <3>2, SMTT(30) DEF Operations
  <2> QED BY <1>0, <2>1, <2>2 DEF ListsOK
<1>6. ASSUME NEW p \in {"Safepoint", "Medium"} PROVE Without(p) \in [{"Safepoint", "Medium"} -> Seq(Operations)]
                                                  /\ HeadOf(p) \in Operations \cup {NULL}
  <2>1. /\ queue[p] # <<>> => Head(queue[p]) \in Operations /\ Tail(queue[p]) \in Seq(Operations)
        /\ queue \in [{"Safepoint", "Medium"} -> Seq(Operations)]
    BY <1>0, QueueTypes DEF ListsOK
  <2> QED BY <2>1 DEF Without, HeadOf
<1>7. From \in {"Safepoint", "Medium"}
  BY DEF From
<1>8. <<>> \in Seq(Operations)
  BY SMTT(30)
<1>9. CASE Take
  BY <1>0, <1>6, <1>7, <1>9 DEF ListsOK, Take
<1>10. CASE Retake
  <2>1. cur' = HeadOf(From) /\ UNCHANGED <<drain_list, outer>>
    BY <1>10 DEF Retake
  <2>2. CASE From = "Safepoint"
    <3>1. /\ queue' = [queue EXCEPT !["Safepoint"] = <<>>]
          /\ safepoint_ops' = IF queue["Safepoint"] = <<>> THEN <<>> ELSE Tail(queue["Safepoint"])
      BY <1>10, <2>2 DEF Retake
    <3>2. queue["Safepoint"] # <<>> => Tail(queue["Safepoint"]) \in Seq(Operations)
      BY <1>0, QueueTypes
    <3> QED BY <1>0, <1>6, <1>7, <1>8, <2>1, <3>1, <3>2 DEF ListsOK
  <2>3. CASE From # "Safepoint"
    BY <1>0, <1>6, <1>7, <1>10, <2>1, <2>3 DEF ListsOK, Retake
  <2> QED BY <2>2, <2>3
<1>11. CASE Batch
  <2>1. safepoint_ops # <<>> => Head(safepoint_ops) \in Operations /\ Tail(safepoint_ops) \in Seq(Operations)
    BY <1>0, QueueTypes
  <2> QED BY <1>0, <1>8, <1>11, <2>1 DEF ListsOK, Batch, queues
<1>12. CASE Drain
  <2>1. queue["Safepoint"] # <<>> => Head(queue["Safepoint"]) \in Operations /\ Tail(queue["Safepoint"]) \in Seq(Operations)
    BY <1>0, QueueTypes
  <2>2. pc[VM] \in {"lockDrain", "drain"} /\ queue["Safepoint"] # <<>>
    BY <1>0, <1>12 DEF LocalsAt, Drain
  <2> QED BY <1>0, <1>8, <1>12, <2>1, <2>2 DEF ListsOK, Drain
<1> QED BY <1>1, <1>2, <1>3, <1>4, <1>5, <1>9, <1>10, <1>11, <1>12 DEF Next, VMStep

LEMMA OpsStep ==
  ASSUME OpsInv, Next
  PROVE  OpsOK'
<1>0. TypeOK /\ LocalsAt /\ OpsOK
  BY TypeParts DEF OpsInv
<1>1. ASSUME NEW t \in Threads, Submit(t) PROVE OpsOK'
  <2>1. PICK op \in Submitted : live' = live \cup {op} /\ mine' = [mine EXCEPT ![t] = op]
    BY <1>1, SubmitOps
  <2>2. op \in Operations
    BY SubmittedFacts
  <2> QED BY <1>0, <1>1, <2>1, <2>2, SubmitOps DEF OpsOK
<1>2. ASSUME NEW t \in Threads, Client(t) PROVE OpsOK'
  BY <1>0, <1>2 DEF OpsOK, Client, LockQueue, Add, UnlockQueue, LockRequest, Released, Check, Epilogue, clients
<1>3. CASE Terminate \/ AwaitExit
  BY <1>0, <1>3 DEF OpsOK, Terminate, AwaitExit, clients
<1>4. CASE Complete
  BY <1>0, <1>4, CompleteOps DEF OpsOK, Complete
<1>5. CASE Nest
  <2>1. UNCHANGED <<mine, debt>> /\ live' = live \cup {cur'}
    BY <1>5 DEF Nest, clients
  <2>2. cur.caller \in Threads
    BY <1>0, <1>5, SMTT(30) DEF Nest, LocalsAt, CurPcs, Operations
  <2>3. PICK m \in AllModes : cur' = [caller |-> cur.caller, mode |-> m, nested |-> TRUE]
    BY <1>5 DEF Nest
  <2>4. cur' \in Operations
    BY <2>2, <2>3, SMTT(30) DEF Operations
  <2> QED BY <1>0, <2>1, <2>4 DEF OpsOK
<1>6. CASE NestReturn \/ Delete
  BY <1>0, <1>6 DEF OpsOK, NestReturn, Delete, clients
<1>7. CASE \/ Begin \/ Reach \/ End \/ LockLoop \/ Take \/ Timeout \/ Woken \/ ForceSafepoint \/ Retake
           \/ Run \/ Trace \/ Batch \/ Drain \/ LockNotify \/ NotifyAll \/ Exit
  BY <1>0, <1>7 DEF OpsOK, Begin, Reach, End, LockLoop, Take, Timeout, Woken, ForceSafepoint, Retake,
                    Run, Trace, Batch, Drain, LockNotify, NotifyAll, Exit, clients
<1> QED BY <1>1, <1>2, <1>3, <1>4, <1>5, <1>6, <1>7 DEF Next, VMStep

-----------------------------------------------------------------------------
(* The inductive invariant, and the safety properties.                     *)

LEMMA OpsInit ==
  ASSUME Init
  PROVE  OpsInv
<1>0. VM \in Everyone /\ \A t \in Threads : t \in Everyone /\ t # VM
  BY DEF Everyone
<1>1. /\ queue["Safepoint"] = <<>> /\ queue["Medium"] = <<>> /\ drain_list = <<>> /\ safepoint_ops = <<>>
      /\ cur = NULL /\ outer = NULL /\ sync = "no" /\ live = {}
      /\ pc[VM] = "lock" /\ \A t \in Threads : pc[t] = "out" /\ mine[t] = NULL /\ debt[t] = 0
  BY <1>0 DEF Init
<1>2. ~HasTop
  BY <1>1, SMTT(30) DEF HasTop, CurPcs, NestPcs, ExitPcs
<1>3. SyncAt /\ LocalsAt
  BY <1>1, SMTT(30) DEF SyncAt, LocalsAt, VMPcs, CurPcs, NestPcs, ExitPcs, LoopPcs, BatchPcs
<1>4. Places
  BY <1>1, <1>2, EmptyFacts DEF Places
<1>5. \A op \in Operations : OpAt(op) /\ ~Pending(op) /\ ~Deleting(op)
  BY <1>1, <1>2, EmptyFacts DEF OpAt, Pending, Deleting
<1>6. \A t \in Threads : ClientAt(t)
  <2>1. 0 # 1
    BY SMTT(30)
  <2> QED BY <1>1, <2>1 DEF ClientAt
<1>7. FlagsOK
  <2>1. /\ counter = 0 /\ others = 0 /\ timedout = FALSE /\ should_terminate = FALSE /\ terminated = FALSE
    BY DEF Init
  <2>2. 0 \in 0 .. MaxCounter /\ 0 \in 0 .. MaxOther
    BY SMTT(30)
  <2> QED BY <1>1, <2>1, <2>2 DEF FlagsOK
<1>8. PcsOK
  <2>1. pc = [who \in Everyone |-> IF who = VM THEN "lock" ELSE "out"]
    BY DEF Init
  <2>2. "lock" \in AllPcs /\ "out" \in AllPcs /\ "out" \in Pcs
    BY DEF Pcs, AllPcs, VMPcs, LoopPcs
  <2> QED BY <1>1, <2>1, <2>2 DEF PcsOK
<1>9. ListsOK /\ OpsOK
  <2>1. <<>> \in Seq(Operations)
    BY SMTT(30)
  <2> QED BY <2>1 DEF Init, ListsOK, OpsOK
<1> QED BY <1>3, <1>4, <1>5, <1>6, <1>7, <1>8, <1>9, TypeParts DEF OpsInv

\* Which of the lemmas above a step of the VM thread falls under.
LEMMA VMStepKinds ==
  ASSUME OpsInv, VMStep
  PROVE  Unmoved \/ Moved \/ Complete \/ Delete
<1>0. SyncAt /\ LocalsAt /\ pc \in [Everyone -> AllPcs] /\ live \subseteq Operations /\ VM \in Everyone
  BY DEF OpsInv, TypeOK, Everyone
<1>1. CASE \/ Begin \/ Reach \/ End \/ LockLoop \/ Timeout \/ Woken \/ ForceSafepoint \/ LockNotify \/ NotifyAll
           \/ Exit \/ Run \/ Nest \/ NestReturn \/ Trace
  BY <1>0, <1>1, UnmovedSteps
<1>2. CASE Take \/ Retake
  BY <1>2, RetakeMoves
<1>3. CASE Batch
  BY <1>3, BatchMoves
<1>4. CASE Drain
  BY <1>4, DrainMoves
<1> QED BY <1>1, <1>2, <1>3, <1>4 DEF VMStep

LEMMA ClientKinds ==
  ASSUME OpsInv, NEW t \in Threads, Submit(t) \/ Client(t)
  PROVE  Kept
<1>0. /\ TypeOK /\ t \in Everyone /\ t # VM /\ ClientAt(t)
      /\ debt[t] \in {0, 1}
  BY DEF OpsInv, TypeOK, Everyone
<1>1. CASE LockQueue(t)
  BY <1>0, <1>1, WalkOps DEF LockQueue, queues, vmLocals, clients
<1>2. CASE LockRequest(t)
  BY <1>0, <1>2, WalkOps DEF LockRequest, queues, vmLocals, clients
<1>3. CASE Released(t)
  BY <1>0, <1>3, WalkOps DEF Released, queues, vmLocals, clients
<1>4. CASE Check(t)
  <2>1. debt[t] <= 0 => debt[t] = 0
    BY <1>0, SMTT(30)
  <2> QED BY <1>0, <1>4, <2>1, WalkOps DEF Check, queues, vmLocals, clients
<1> QED BY <1>1, <1>2, <1>3, <1>4, SubmitOps, AddOps, UnlockOps, EpilogueOps DEF Client

LEMMA DestroyerKinds ==
  ASSUME OpsInv, Terminate \/ AwaitExit
  PROVE  Kept
<1>0. Destroyer \in Everyone /\ Destroyer # VM /\ Destroyer \notin Threads
  BY DEF Everyone
<1>1. PICK l : Goto(Destroyer, l)
  BY Moves
<1>2. UNCHANGED <<queue, safepoint_ops, drain_list, cur, outer, sync, live, mine, debt>>
  BY DEF Terminate, AwaitExit, queues, vmLocals, clients
<1> QED BY <1>0, <1>1, <1>2, WalkOps

LEMMA OpsInvStep ==
  ASSUME OpsInv, Next
  PROVE  OpsInv'
<1>0. FlagsOK /\ PcsOK /\ ListsOK /\ OpsOK
  BY TypeParts DEF OpsInv
<1>1. Kept
  <2>1. ASSUME VMStep PROVE Kept
    <3>1. SyncAt' /\ LocalsAt'
      BY <2>1, VMStepKinds, CompleteOps, DeleteOps DEF Unmoved, Moved
    <3>2. \A t \in Threads : pc'[t] = pc[t]
      BY <1>0, <2>1, <3>1, PcsStep
    <3> QED BY <2>1, <3>1, <3>2, VMStepKinds, UnmovedOps, MovedOps, CompleteOps, DeleteOps DEF Kept
  <2> QED BY <2>1, ClientKinds, DestroyerKinds DEF Next
<1>2. FlagsOK' /\ PcsOK' /\ ListsOK' /\ OpsOK'
  BY <1>0, <1>1, FlagsStep, PcsStep, ListsStep, OpsStep DEF Kept
<1>3. TypeOK' /\ (pc \in [Everyone -> AllPcs])'
  BY <1>2 DEF TypeOK, FlagsOK, PcsOK, ListsOK, OpsOK
<1> QED BY <1>1, <1>3 DEF OpsInv, Kept

LEMMA OpsInvHolds == Spec => []OpsInv
<1>1. OpsInv /\ UNCHANGED vars => OpsInv'
  <2>1. UNCHANGED vars => UNCHANGED <<queue, counter, drain_list, cur, safepoint_ops, outer, timedout,
                            should_terminate, terminated, sync, pc, mine, debt, live, others>>
    BY DEF vars, queues, vmLocals, ending, clients
  <2> SUFFICES ASSUME OpsInv, UNCHANGED vars PROVE OpsInv'
    OBVIOUS
  <2>2. TypeOK' /\ (pc \in [Everyone -> AllPcs])'
    BY <2>1 DEF OpsInv, TypeOK
  <2>3. SyncAt' /\ LocalsAt' /\ (HasTop' <=> HasTop) /\ Top' = Top /\ \A op \in Operations : Deleting(op)' <=> Deleting(op)
    BY <2>1, VMKept DEF OpsInv
  <2>4. Places' /\ \A op \in Operations : Pending(op)' <=> Pending(op)
    BY <2>1, <2>3, QueuesKept DEF OpsInv
  <2>5. (\A op \in Operations : OpAt(op)') /\ (\A t \in Threads : ClientAt(t)')
    BY <2>1, <2>3, <2>4, KeptOps
  <2> QED BY <2>2, <2>3, <2>4, <2>5 DEF OpsInv
<1>2. OpsInv /\ [Next]_vars => OpsInv'
  BY <1>1, OpsInvStep
<1> QED BY <1>2, OpsInit, PTL DEF Spec

\* VMThread::loop() and execute() keep to their types; tickets and completed
\* counts never differ by more than one.
THEOREM TypeCorrect == Spec => []TypeOK
<1>1. OpsInv => TypeOK
  BY DEF OpsInv
<1> QED BY <1>1, OpsInvHolds, PTL

\* Without TraceLongCompiles, whatever loop(), evaluate_operation() and
\* execute() touch is allocated, although each operation is deleted or
\* released as soon as it has run; with it, whatever they touch except the
\* operation whose name loop() prints, which vmThread.cpp:532 reads too late.
THEOREM NothingDangles ==
  /\ Spec => []NoDangling
  /\ ~TraceLongCompiles => (Spec => [](NoDangling /\ TracedAllocated))
<1>1. ASSUME OpsInv PROVE NoDangling
  <2>0. /\ TypeOK /\ LocalsAt /\ (\A op \in Operations : OpAt(op)) /\ (\A t \in Threads : ClientAt(t))
        /\ queue["Safepoint"] \in Seq(Operations) /\ queue["Medium"] \in Seq(Operations)
        /\ safepoint_ops \in Seq(Operations)
    BY <1>1, QueueTypes DEF OpsInv
  <2>1. /\ In(queue["Safepoint"]) \subseteq Operations /\ In(queue["Medium"]) \subseteq Operations
        /\ In(safepoint_ops) \subseteq Operations
    BY <2>0, SMTT(30) DEF In
  <2>2. In(drain_list) \subseteq In(safepoint_ops)
    BY <2>0, EmptyFacts DEF LocalsAt
  <2>3. \A op \in Operations : Pending(op) => op \in live
    BY <2>0 DEF OpAt
  <2>4. pc[VM] \in {"run", "runBegin"} \cup ExitPcs => cur = NULL \/ (cur \in Operations /\ Pending(cur))
    BY <2>0, SMTT(30) DEF TypeOK, Pending, HasTop, Top, CurPcs, NestPcs, ExitPcs
  <2>5. Waiting \subseteq live \cup {NULL}
    BY <2>1, <2>3, <2>4 DEF Waiting, Queued, Pending, ExitPcs
  <2>6. In(drain_list) \subseteq live
    BY <2>1, <2>2, <2>3 DEF Pending
  <2>7. Evaluating => cur \in live
    <3>1. CASE pc[VM] \in {"eval", "evaluated"}
      <4>1. cur \in Operations /\ HasTop /\ Top = cur
        BY <2>0, <3>1, SMTT(30) DEF LocalsAt, HasTop, Top, CurPcs, NestPcs
      <4> QED BY <2>3, <4>1 DEF Pending
    <3>2. CASE pc[VM] \in NestPcs
      BY <2>0, <3>2 DEF LocalsAt
    <3> QED BY <3>1, <3>2 DEF Evaluating, NestPcs
  <2>8. pc[VM] = "delete" /\ is_cheap_allocated(cur) => cur \in live
    <3>1. pc[VM] = "delete" => cur \in Operations
      BY <2>0 DEF LocalsAt
    <3> QED BY <2>0, <3>1 DEF OpAt, Deleting, is_cheap_allocated
  <2>9. outer # NULL => outer \in live
    <3>1. outer # NULL => pc[VM] \in NestPcs /\ outer \in Operations
      BY <2>0 DEF LocalsAt
    <3> QED BY <2>3, <3>1 DEF Pending, HasTop, Top
  <2>10. \A t \in Threads : mine[t] # NULL /\ ~evaluate_concurrently(mine[t]) => mine[t] \in live
    BY <2>0 DEF ClientAt
  <2> QED BY <2>5, <2>6, <2>7, <2>8, <2>9, <2>10 DEF NoDangling
<1>2. ASSUME OpsInv, ~TraceLongCompiles PROVE TracedAllocated
  BY <1>2 DEF OpsInv, LocalsAt, TracedAllocated
<1>3. Spec => []NoDangling
  BY <1>1, OpsInvHolds, PTL
<1>4. ASSUME ~TraceLongCompiles PROVE Spec => [](NoDangling /\ TracedAllocated)
  <2>1. OpsInv => NoDangling /\ TracedAllocated
    BY <1>1, <1>2, <1>4
  <2> QED BY <2>1, OpsInvHolds, PTL
<1> QED BY <1>3, <1>4

\* oops_do() misses no operation that has still to run.
THEOREM EverythingScanned == Spec => []AllScanned
<1>1. ASSUME OpsInv PROVE AllScanned
  <2>1. Evaluating => drain_list = safepoint_ops
    BY <1>1, SMTT(30) DEF OpsInv, LocalsAt, Evaluating, ExitPcs
  <2>2. Evaluating => Waiting \subseteq Queued \cup In(safepoint_ops)
    BY SMTT(30) DEF Evaluating, Waiting
  <2> QED BY <2>1, <2>2 DEF AllScanned
<1> QED BY <1>1, OpsInvHolds, PTL

\* Safepoints are begun when there is none, ended when there is one, and
\* operations that need one have it, nested or not.
THEOREM ModesRespected == Spec => []SafepointModes
<1>1. ASSUME OpsInv PROVE SafepointModes
  <2>1. SyncAt
    BY <1>1 DEF OpsInv
  <2>2. /\ pc[VM] \in BeginPcs => sync # "reached"
        /\ pc[VM] \in EndPcs => sync = "reached"
        /\ pc[VM] \in {"eval", "evaluated", "nested", "nestedSafe"} /\ evaluate_at_safepoint(cur) => sync = "reached"
    BY <2>1, SMTT(30) DEF SyncAt, BeginPcs, EndPcs
  <2> QED BY <2>2, Tables DEF SafepointModes
<1> QED BY <1>1, OpsInvHolds, PTL

-----------------------------------------------------------------------------
(* execute() keeps the promise of VMOperationsSpec.                        *)

\* The abstract state, by the places of the operations.
Adding(op) == \E t \in Threads : pc[t] \in {"lockQueue", "add"} /\ mine[t] = op

Runs(op) == Evaluating /\ op = Top

Waits(op) == (Pending(op) /\ ~Runs(op)) \/ Adding(op)

HasRun(op) == op \in live /\ ~op.nested /\ ~Waits(op) /\ ~Runs(op)

Abstract ==
  /\ submitted = {op \in Operations : Waits(op)}
  /\ running = {op \in Operations : Runs(op)}
  /\ done = {op \in Operations : HasRun(op)}

LEMMA AbstractState ==
  ASSUME OpsInv
  PROVE  Abstract
<1>0. /\ TypeOK /\ LocalsAt /\ Places /\ \A t \in Threads : ClientAt(t)
      /\ queue["Safepoint"] \in Seq(Operations) /\ queue["Medium"] \in Seq(Operations)
      /\ safepoint_ops \in Seq(Operations)
  BY QueueTypes DEF OpsInv
<1>1. /\ In(queue["Safepoint"]) \subseteq Operations /\ In(queue["Medium"]) \subseteq Operations
      /\ In(safepoint_ops) \subseteq Operations
  BY <1>0, SMTT(30) DEF In
<1>2. Evaluating => HasTop /\ Top \in Operations /\ (outer = NULL => Top = cur) /\ (outer # NULL => Top = outer)
  <2>1. CASE pc[VM] \in NestPcs
    BY <1>0, <2>1 DEF LocalsAt, HasTop, Top
  <2>2. CASE pc[VM] \in {"eval", "evaluated"}
    BY <1>0, <2>2, SMTT(30) DEF LocalsAt, HasTop, Top, CurPcs, NestPcs
  <2> QED BY <2>1, <2>2 DEF Evaluating, NestPcs
<1>3. running = {op \in Operations : Runs(op)}
  BY <1>2 DEF running, Runs
<1>4. ~Evaluating => (HasTop <=> pc[VM] \in {"run", "runBegin"} \cup ExitPcs /\ cur # NULL) /\ (HasTop => Top = cur)
  BY <1>0, SMTT(30) DEF LocalsAt, Evaluating, HasTop, Top, CurPcs, NestPcs, ExitPcs
<1>5. Evaluating => pc[VM] \notin {"run", "runBegin"} \cup ExitPcs
  BY SMTT(30) DEF Evaluating, ExitPcs
<1>6. \A op : op \in Waiting <=> \/ op \in In(queue["Safepoint"]) \/ op \in In(queue["Medium"]) \/ op \in In(safepoint_ops)
                                 \/ op = cur /\ pc[VM] \in {"run", "runBegin"} \cup ExitPcs
  BY DEF Waiting, Queued, ExitPcs
<1>7. \A op \in Operations : op \in Waiting <=> Pending(op) /\ ~Runs(op)
  <2>1. CASE Evaluating
    BY <1>0, <1>2, <1>5, <1>6, <2>1 DEF Pending, Runs, Places
  <2>2. CASE ~Evaluating
    BY <1>4, <1>6, <2>2 DEF Pending, Runs
  <2> QED BY <2>1, <2>2
<1>8. Waiting \subseteq Operations \cup {NULL}
  BY <1>0, <1>1, <1>6 DEF TypeOK
<1>9. \A op : op \in BeingAdded <=> Adding(op)
  BY DEF BeingAdded, Adding
<1>10. BeingAdded \subseteq Operations
  <2>1. ASSUME NEW t \in Threads, pc[t] \in {"lockQueue", "add"} PROVE mine[t] \in Operations
    <3>1. ClientAt(t) /\ pc[t] # "out"
      BY <1>0, <2>1
    <3>2. mine[t] \in Submitted
      BY <3>1 DEF ClientAt
    <3> QED BY <3>2, SubmittedFacts
  <2> QED BY <1>9, <2>1 DEF Adding
<1>11. submitted = {op \in Operations : Waits(op)}
  BY <1>7, <1>8, <1>9, <1>10 DEF submitted, Waits
<1>12. done = {op \in Operations : HasRun(op)}
  <2>1. live \subseteq Operations
    BY <1>0 DEF TypeOK
  <2> QED BY <1>3, <1>11, <2>1 DEF done, HasRun
<1> QED BY <1>3, <1>11, <1>12 DEF Abstract

\* What waits, runs or has run is allocated, and in one of these states.
LEMMA Exclusive ==
  ASSUME OpsInv, NEW op \in Operations
  PROVE  /\ Waits(op) \/ Runs(op) => op \in live /\ ~op.nested
         /\ Adding(op) => ~Pending(op) /\ ~Deleting(op)
         /\ Runs(op) => Pending(op) /\ ~Waits(op)
         /\ op \in live /\ ~op.nested => op \in Submitted
<1>0. OpAt(op) /\ LocalsAt /\ \A t \in Threads : ClientAt(t)
  BY DEF OpsInv
<1>1. Adding(op) => op \in live /\ ~op.nested /\ ~Pending(op) /\ ~Deleting(op)
  <2> SUFFICES ASSUME NEW t \in Threads, pc[t] \in {"lockQueue", "add"}, mine[t] = op
               PROVE  op \in live /\ ~op.nested /\ ~Pending(op) /\ ~Deleting(op)
    BY DEF Adding
  <2>1. ClientAt(t) /\ mine[t] # NULL
    BY <1>0
  <2> QED BY <2>1 DEF ClientAt
<1>2. Evaluating => HasTop
  BY SMTT(30) DEF Evaluating, HasTop, CurPcs, NestPcs
<1>3. Runs(op) => Pending(op)
  BY <1>2 DEF Runs, Pending
<1> QED BY <1>0, <1>1, <1>3 DEF OpAt, Waits

\* A step the abstract machine does not see.
LEMMA Stutters ==
  ASSUME Abstract, Abstract',
         \A op \in Operations : /\ (Waits(op)' <=> Waits(op)) /\ (Runs(op)' <=> Runs(op))
                                /\ ~op.nested => (op \in live' <=> op \in live)
  PROVE  UNCHANGED <<submitted, running, done>>
BY DEF Abstract, HasRun

\* A step of the VM thread that starts an operation, or none.
LEMMA Starts ==
  ASSUME OpsInv, OpsInv', Abstract, Abstract',
         \A t \in Threads : pc'[t] = pc[t], UNCHANGED mine,
         \A op \in Operations : /\ Pending(op)' <=> Pending(op)
                                /\ ~op.nested => (op \in live' <=> op \in live),
         Evaluating => Evaluating' /\ Top' = Top
  PROVE  P!Next \/ UNCHANGED <<submitted, running, done>>
<1>1. \A op \in Operations : Adding(op)' <=> Adding(op)
  BY DEF Adding
<1>2. CASE Evaluating' <=> Evaluating
  <2>1. \A op \in Operations : Runs(op)' <=> Runs(op)
    BY <1>2 DEF Runs
  <2>2. \A op \in Operations : Waits(op)' <=> Waits(op)
    BY <1>1, <2>1 DEF Waits
  <2> QED BY <2>1, <2>2, Stutters
<1>3. CASE Evaluating' /\ ~Evaluating
  <2>1. PICK o \in Operations : o = Top'
    <3>1. running' # {} /\ running' = {op \in Operations : Runs(op)'}
      BY <1>3 DEF running, Abstract
    <3> QED BY <3>1 DEF Runs
  <2>2. \A op \in Operations : ~Runs(op) /\ (Runs(op)' <=> op = o)
    BY <1>3, <2>1 DEF Runs
  <2>3. Pending(o)' /\ Pending(o) /\ Waits(o)
    <3>1. (Evaluating => HasTop)'
      BY SMTT(30) DEF Evaluating, HasTop, CurPcs, NestPcs
    <3>2. Pending(o)'
      BY <1>3, <2>1, <3>1 DEF Pending
    <3> QED BY <2>2, <3>2 DEF Waits
  <2>4. o \in live /\ ~o.nested /\ o \in Submitted /\ ~Adding(o)
    BY <2>3, Exclusive
  <2>5. \A op \in Operations : Waits(op)' <=> Waits(op) /\ op # o
    BY <1>1, <2>2, <2>4 DEF Waits
  <2>6. submitted' = submitted \ {o} /\ o \in submitted /\ running = {} /\ running' = {o}
    BY <2>2, <2>3, <2>5 DEF Abstract
  <2>7. \A op \in Operations : HasRun(op)' <=> HasRun(op)
    BY <2>2, <2>3, <2>5 DEF HasRun
  <2>8. done' = done
    BY <2>7 DEF Abstract
  <2>9. P!Start(o)
    BY <2>6, <2>8 DEF P!Start
  <2> QED BY <2>4, <2>9 DEF P!Next
<1> QED BY <1>2, <1>3

\* While an operation runs, loop() stays with it until it is completed.
LEMMA StaysEvaluating ==
  ASSUME OpsInv, VMStep, ~Complete, Evaluating
  PROVE  Evaluating'
<1>0. SyncAt /\ pc \in [Everyone -> AllPcs] /\ VM \in Everyone
  BY DEF OpsInv, Everyone
<1> USE DEF Evaluating, Goto
<1>1. CASE Begin \/ Timeout
  BY <1>1 DEF Begin, Timeout
<1>2. CASE Reach
  <2>1. pc[VM] = "nestBegin" /\ pc' = [pc EXCEPT ![VM] = AfterBegin[pc[VM]]]
    BY <1>0, <1>2, SMTT(30) DEF Reach, SyncAt
  <2>2. AfterBegin["nestBegin"] = "nestedSafe"
    BY Tables
  <2> QED BY <1>0, <2>1, <2>2
<1>3. CASE End
  <2>1. pc[VM] \in EndPcs /\ pc' = [pc EXCEPT ![VM] = AfterEnd[pc[VM]]]
    BY <1>3, Tables DEF End
  <2>2. pc[VM] = "nestedSafe"
    BY <2>1, SMTT(30) DEF EndPcs
  <2>3. AfterEnd["nestedSafe"] = "nestReturn"
    BY Tables
  <2> QED BY <1>0, <2>1, <2>2, <2>3
<1>4. CASE Nest
  <2>1. Goto(VM, "nestBegin") \/ Goto(VM, "nested")
    BY <1>4 DEF Nest
  <2> QED BY <1>0, <2>1
<1>5. CASE NestReturn
  BY <1>0, <1>5 DEF NestReturn
<1>6. pc[VM] \in {"eval", "evaluated", "nestBegin", "nested", "nestedSafe", "nestReturn"}
  OBVIOUS
<1>7. ~(LockLoop \/ Take \/ Woken \/ ForceSafepoint \/ Retake \/ Run)
  BY <1>6 DEF LockLoop, Take, Woken, ForceSafepoint, Retake, Run
<1>8. ~(Delete \/ Trace \/ Batch \/ Drain \/ LockNotify \/ NotifyAll \/ Exit)
  BY <1>6 DEF Delete, Trace, Batch, Drain, LockNotify, NotifyAll, Exit
<1> QED BY <1>1, <1>2, <1>3, <1>4, <1>5, <1>7, <1>8 DEF VMStep

LEMMA VMRefines ==
  ASSUME OpsInv, OpsInv', Abstract, Abstract', VMStep
  PROVE  P!Next \/ UNCHANGED <<submitted, running, done>>
<1>0. /\ pc \in [Everyone -> AllPcs] /\ VM \in Everyone /\ LocalsAt /\ LocalsAt' /\ PcsOK
      /\ \A t \in Threads : pc'[t] = pc[t]
  <2>1. PcsOK /\ LocalsAt /\ LocalsAt' /\ Next
    BY TypeParts DEF OpsInv, Next
  <2> QED BY <2>1, PcsStep DEF PcsOK, Everyone
<1>1. CASE Unmoved /\ ~Complete
  <2>1. UNCHANGED mine /\ \A op \in Operations : /\ Pending(op)' <=> Pending(op)
                                                 /\ ~op.nested => (op \in live' <=> op \in live)
    BY <1>1 DEF Unmoved, Pending
  <2>2. Evaluating => HasTop
    BY SMTT(30) DEF Evaluating, HasTop, CurPcs, NestPcs
  <2>3. Evaluating => Evaluating' /\ Top' = Top
    BY <1>1, <2>2, StaysEvaluating DEF Unmoved
  <2> QED BY <1>0, <2>1, <2>3, Starts
<1>2. CASE Take \/ Retake \/ Batch \/ Drain
  <2>1. Moved
    BY <1>2, RetakeMoves, BatchMoves, DrainMoves
  <2>2. ~Evaluating
    BY <1>2 DEF Evaluating, Take, Retake, Batch, Drain
  <2> QED BY <1>0, <2>1, <2>2, Starts DEF Moved
<1>3. CASE Complete
  <2>1. /\ pc[VM] \in {"eval", "evaluated"} /\ pc'[VM] = "delete" /\ UNCHANGED <<live, mine>>
    BY <1>0, <1>3 DEF Complete, Goto
  <2>2. Evaluating /\ Top = cur /\ ~Evaluating'
    BY <2>1, SMTT(30) DEF Evaluating, Top, NestPcs
  <2>3. PICK o \in Operations : o = cur /\ Pending(o) /\ \A op \in Operations : Pending(op)' <=> Pending(op) /\ op # o
    BY <1>3, CompleteOps
  <2>4. \A op \in Operations : (Runs(op) <=> op = o) /\ ~Runs(op)' /\ (Adding(op)' <=> Adding(op))
    BY <1>0, <2>1, <2>2, <2>3 DEF Runs, Adding
  <2>5. o \in live /\ ~o.nested /\ o \in Submitted /\ ~Waits(o)
    BY <2>4, Exclusive
  <2>6. \A op \in Operations : Waits(op)' <=> Waits(op)
    BY <2>3, <2>4 DEF Waits
  <2>7. \A op \in Operations : HasRun(op)' <=> HasRun(op) \/ op = o
    BY <2>1, <2>4, <2>5, <2>6 DEF HasRun
  <2>8. P!Finish(o)
    BY <2>4, <2>6, <2>7 DEF P!Finish, Abstract
  <2> QED BY <2>5, <2>8 DEF P!Next
<1>4. CASE Delete
  <2>1. /\ pc[VM] = "delete" /\ pc'[VM] \in {"batch", "trace", "lockNotify"} /\ UNCHANGED mine
        /\ live' = IF evaluate_concurrently(cur) THEN live \ {cur} ELSE live
    BY <1>0, <1>4 DEF Delete, AfterDelete, Goto, clients, is_cheap_allocated
  <2>2. ~Evaluating /\ ~Evaluating'
    BY <2>1, SMTT(30) DEF Evaluating
  <2>3. PICK o \in Operations : o = cur /\ \A op \in Operations : Pending(op)' <=> Pending(op)
    BY <1>4, DeleteOps
  <2>4. \A op \in Operations : ~Runs(op) /\ ~Runs(op)' /\ (Waits(op)' <=> Waits(op))
    BY <1>0, <2>1, <2>2, <2>3 DEF Runs, Waits, Adding
  <2>5. CASE ~evaluate_concurrently(cur)
    BY <2>1, <2>4, <2>5, Stutters
  <2>6. CASE evaluate_concurrently(cur)
    <3>1. Deleting(o)
      BY <2>1, <2>3, <2>6 DEF Deleting
    <3>2. o \in live /\ ~o.nested /\ ~Pending(o)
      BY <3>1 DEF OpsInv, OpAt
    <3>3. o \in Submitted /\ ~Waits(o)
      BY <3>1, <3>2, Exclusive DEF Waits
    <3>4. HasRun(o) /\ \A op \in Operations : HasRun(op)' <=> HasRun(op) /\ op # o
      BY <2>1, <2>3, <2>4, <2>6, <3>2, <3>3 DEF HasRun
    <3>5. P!Release(o)
      BY <2>4, <3>4 DEF P!Release, Abstract
    <3> QED BY <3>3, <3>5 DEF P!Next
  <2> QED BY <2>5, <2>6
<1>5. CASE \/ Begin \/ Reach \/ End \/ LockLoop \/ Timeout \/ Woken \/ ForceSafepoint \/ LockNotify \/ NotifyAll
           \/ Exit \/ Run \/ Nest \/ NestReturn \/ Trace
  <2>1. Unmoved
    BY <1>0, <1>5, UnmovedSteps DEF OpsInv, TypeOK
  <2> QED BY <1>1, <1>3, <2>1
<1> QED BY <1>2, <1>3, <1>4, <1>5 DEF VMStep

\* A submitter leaves alone what the VM thread runs.
LEMMA ClientRuns ==
  ASSUME UNCHANGED <<cur, outer>>, pc'[VM] = pc[VM]
  PROVE  \A op \in Operations : Runs(op)' <=> Runs(op)
BY DEF Runs, Evaluating, Top

LEMMA WalkRefines ==
  ASSUME OpsInv, Abstract, Abstract', NEW who \in Everyone, who # VM, NEW l, Goto(who, l),
         UNCHANGED <<queue, safepoint_ops, drain_list, cur, outer, sync, live, mine>>,
         who \in Threads => (pc[who] \in {"lockQueue", "add"} <=> l \in {"lockQueue", "add"})
  PROVE  UNCHANGED <<submitted, running, done>>
<1>0. pc \in [Everyone -> AllPcs] /\ VM \in Everyone /\ \A t \in Threads : t \in Everyone
  BY DEF OpsInv, Everyone
<1>1. pc'[VM] = pc[VM] /\ \A t \in Threads : pc'[t] = IF t = who THEN l ELSE pc[t]
  BY <1>0 DEF Goto
<1>2. \A op \in Operations : Runs(op)' <=> Runs(op)
  BY <1>1, ClientRuns
<1>3. \A op \in Operations : Pending(op)' <=> Pending(op)
  BY <1>1 DEF Pending, HasTop, Top
<1>4. \A op \in Operations : Adding(op)' <=> Adding(op)
  BY <1>1 DEF Adding
<1>5. \A op \in Operations : Waits(op)' <=> Waits(op)
  BY <1>2, <1>3, <1>4 DEF Waits
<1> QED BY <1>2, <1>5, Stutters

LEMMA ClientRefines ==
  ASSUME OpsInv, OpsInv', Abstract, Abstract', NEW t \in Threads, Submit(t) \/ Client(t)
  PROVE  P!Next \/ UNCHANGED <<submitted, running, done>>
<1>0. /\ TypeOK /\ pc \in [Everyone -> AllPcs] /\ VM \in Everyone /\ t # VM /\ t \in Everyone
      /\ \A u \in Threads : u \in Everyone /\ ClientAt(u)
      /\ mine \in [Threads -> Operations \cup {NULL}]
  BY DEF OpsInv, Everyone, TypeOK
<1>1. CASE Submit(t)
  <2>1. PICK o \in Submitted : o \notin live /\ live' = live \cup {o} /\ mine' = [mine EXCEPT ![t] = o]
    BY <1>1, SubmitOps
  <2>2. o \in Operations /\ ~o.nested
    BY SubmittedFacts
  <2>3. pc[t] = "out" /\ Goto(t, "lockQueue") /\ UNCHANGED <<queue, safepoint_ops, cur, outer>>
    BY <1>1 DEF Submit, queues, vmLocals
  <2>4. pc'[VM] = pc[VM] /\ pc'[t] = "lockQueue" /\ \A u \in Threads : u # t => pc'[u] = pc[u]
    BY <1>0, <2>3 DEF Goto
  <2>5. \A op \in Operations : (Runs(op)' <=> Runs(op)) /\ (Pending(op)' <=> Pending(op))
    BY <2>3, <2>4, ClientRuns DEF Pending, HasTop, Top
  <2>6. \A op \in Operations : Adding(op)' <=> Adding(op) \/ op = o
    <3>1. mine'[t] = o /\ \A u \in Threads : u # t => mine'[u] = mine[u]
      BY <1>0, <2>1
    <3> QED BY <2>3, <2>4, <3>1 DEF Adding
  <2>7. ~Waits(o) /\ ~Runs(o)
    BY <2>1, <2>2, Exclusive
  <2>8. \A op \in Operations : Waits(op)' <=> Waits(op) \/ op = o
    BY <2>2, <2>5, <2>6, <2>7 DEF Waits
  <2>9. \A op \in Operations : (HasRun(op)' <=> HasRun(op)) /\ ~HasRun(o)
    BY <2>1, <2>5, <2>8 DEF HasRun
  <2>10. /\ o \notin submitted /\ o \notin running /\ o \notin done
         /\ submitted' = submitted \cup {o} /\ running' = running /\ done' = done
    BY <2>2, <2>5, <2>7, <2>8, <2>9 DEF Abstract
  <2>11. P!Submit(o)
    BY <2>10 DEF P!Submit
  <2> QED BY <2>11 DEF P!Next
<1>2. CASE LockQueue(t)
  BY <1>0, <1>2, WalkRefines DEF LockQueue, queues, vmLocals, clients
<1>3. CASE LockRequest(t)
  BY <1>0, <1>3, WalkRefines DEF LockRequest, queues, vmLocals, clients
<1>4. CASE Released(t)
  BY <1>0, <1>4, WalkRefines DEF Released, queues, vmLocals, clients
<1>5. CASE Check(t)
  BY <1>0, <1>5, WalkRefines DEF Check, queues, vmLocals, clients
<1>6. CASE Add(t)
  <2>1. /\ pc[t] = "add" /\ Goto(t, "unlockQueue") /\ UNCHANGED <<cur, outer, mine, live>>
    BY <1>6 DEF Add, vmLocals, clients
  <2>2. pc'[VM] = pc[VM] /\ pc'[t] = "unlockQueue" /\ \A u \in Threads : u # t => pc'[u] = pc[u]
    BY <1>0, <2>1 DEF Goto
  <2>3. PICK o \in Operations : o = mine[t] /\ o.caller = t
    BY <1>0, <2>1, SubmittedFacts DEF ClientAt
  <2>4. Adding(o) /\ ~Pending(o)
    <3>1. Adding(o)
      BY <2>1, <2>3 DEF Adding
    <3> QED BY <3>1, Exclusive
  <2>5. \A u \in Threads : mine[u] = o => u = t
    <3>1. \A u \in Threads : mine[u] # NULL => mine[u].caller = u
      BY <1>0 DEF ClientAt
    <3> QED BY <2>3, <3>1
  <2>6. \A op \in Operations : Adding(op)' <=> Adding(op) /\ op # o
    BY <2>1, <2>2, <2>3, <2>5 DEF Adding
  <2>7. \A op \in Operations : Pending(op)' <=> Pending(op) \/ op = o
    BY <1>6, <2>3, AddOps
  <2>8. \A op \in Operations : Runs(op)' <=> Runs(op)
    BY <2>1, <2>2, ClientRuns
  <2>9. ~Runs(o)
    BY <2>4, Exclusive
  <2>10. \A op \in Operations : Waits(op)' <=> Waits(op)
    BY <2>4, <2>6, <2>7, <2>8, <2>9 DEF Waits
  <2> QED BY <2>1, <2>8, <2>10, Stutters
<1>7. CASE UnlockQueue(t)
  <2>1. /\ pc[t] = "unlockQueue" /\ UNCHANGED <<queue, safepoint_ops, cur, outer, live>>
        /\ \/ Goto(t, "out") /\ mine' = [mine EXCEPT ![t] = NULL]
           \/ Goto(t, "request") /\ UNCHANGED mine
    BY <1>7 DEF UnlockQueue, queues, vmLocals
  <2>2. /\ pc'[VM] = pc[VM] /\ pc'[t] \in {"out", "request"}
        /\ \A u \in Threads : u # t => pc'[u] = pc[u] /\ mine'[u] = mine[u]
    BY <1>0, <2>1 DEF Goto
  <2>3. \A op \in Operations : (Runs(op)' <=> Runs(op)) /\ (Pending(op)' <=> Pending(op))
    BY <2>1, <2>2, ClientRuns DEF Pending, HasTop, Top
  <2>4. \A op \in Operations : Adding(op)' <=> Adding(op)
    BY <2>1, <2>2 DEF Adding
  <2> QED BY <2>1, <2>3, <2>4, Stutters DEF Waits
<1>8. CASE Epilogue(t)
  <2>1. /\ pc[t] = "epilogue" /\ UNCHANGED <<queue, safepoint_ops, cur, outer>>
        /\ Goto(t, "out") /\ mine' = [mine EXCEPT ![t] = NULL] /\ live' = live \ {mine[t]}
    BY <1>8 DEF Epilogue, queues, vmLocals
  <2>2. /\ pc'[VM] = pc[VM] /\ pc'[t] = "out"
        /\ \A u \in Threads : u # t => pc'[u] = pc[u] /\ mine'[u] = mine[u]
    BY <1>0, <2>1 DEF Goto
  <2>3. \A op \in Operations : (Runs(op)' <=> Runs(op)) /\ (Pending(op)' <=> Pending(op))
    BY <2>1, <2>2, ClientRuns DEF Pending, HasTop, Top
  <2>4. \A op \in Operations : Adding(op)' <=> Adding(op)
    BY <2>1, <2>2 DEF Adding
  <2>5. PICK o \in Operations : o = mine[t] /\ o.caller = t /\ ~o.nested /\ o \in Submitted /\ o \in live /\ ~Pending(o)
    <3>1. mine[t] \in Submitted /\ mine[t] \in live /\ ~Pending(mine[t])
      BY <1>8, EpilogueOps
    <3>2. mine[t] # NULL => mine[t].caller = t
      BY <1>0 DEF ClientAt
    <3> QED BY <3>1, <3>2, SubmittedFacts
  <2>6. ~Adding(o) /\ ~Runs(o) /\ ~Waits(o)
    <3>1. \A u \in Threads : mine[u] # NULL => mine[u].caller = u
      BY <1>0 DEF ClientAt
    <3>2. ~Adding(o)
      BY <2>1, <2>5, <3>1 DEF Adding
    <3>3. ~Runs(o)
      BY <2>5, Exclusive
    <3> QED BY <2>5, <3>2, <3>3 DEF Waits
  <2>7. \A op \in Operations : Waits(op)' <=> Waits(op)
    BY <2>3, <2>4 DEF Waits
  <2>8. HasRun(o) /\ \A op \in Operations : HasRun(op)' <=> HasRun(op) /\ op # o
    BY <2>1, <2>3, <2>5, <2>6, <2>7 DEF HasRun
  <2>9. P!Release(o)
    BY <2>3, <2>7, <2>8 DEF P!Release, Abstract
  <2> QED BY <2>5, <2>9 DEF P!Next
<1> QED BY <1>1, <1>2, <1>3, <1>4, <1>5, <1>6, <1>7, <1>8 DEF Client

\* Every operation given to execute() runs once, alone and to its end, and is
\* released only after that: loop(), with its queues, batches, tickets and
\* nested operations, implements VMOperationsSpec.
THEOREM OperationsRefinement == Spec => ImplementsOperations
<1>1. Init => P!Init
  <2> SUFFICES ASSUME Init PROVE P!Init
    OBVIOUS
  <2>1. Abstract /\ OpsInv
    BY OpsInit, AbstractState
  <2>2. live = {} /\ VM \in Everyone /\ pc[VM] = "lock"
    BY DEF Init, Everyone
  <2>3. \A op \in Operations : ~Waits(op) /\ ~Runs(op)
    BY <2>1, <2>2, Exclusive
  <2> QED BY <2>1, <2>2, <2>3 DEF P!Init, Abstract, HasRun
<1>2. ASSUME OpsInv, OpsInv', Abstract, Abstract', [Next]_vars PROVE [P!Next]_<<submitted, running, done>>
  <2>1. CASE Next
    <3>1. CASE Terminate \/ AwaitExit
      <4>0. Destroyer \in Everyone /\ Destroyer # VM /\ Destroyer \notin Threads
        BY DEF Everyone
      <4>1. PICK l : Goto(Destroyer, l)
        BY <3>1, Moves
      <4>2. UNCHANGED <<queue, safepoint_ops, drain_list, cur, outer, sync, live, mine>>
        BY <3>1 DEF Terminate, AwaitExit, queues, vmLocals, clients
      <4> QED BY <1>2, <4>0, <4>1, <4>2, WalkRefines
    <3> QED BY <1>2, <2>1, <3>1, VMRefines, ClientRefines DEF Next
  <2>2. CASE UNCHANGED vars
    <3>1. UNCHANGED <<queue, safepoint_ops, cur, outer, live, mine, pc>>
      BY <2>2 DEF vars, queues, vmLocals, clients
    <3>2. Waiting' = Waiting /\ BeingAdded' = BeingAdded
      BY <3>1 DEF Waiting, Queued, BeingAdded
    <3>3. running' = running /\ submitted' = submitted
      BY <3>1, <3>2 DEF running, submitted, Evaluating
    <3>4. done' = done
      BY <3>1, <3>3 DEF done
    <3> QED BY <3>3, <3>4
  <2> QED BY <1>2, <2>1, <2>2
<1>3. OpsInv => Abstract
  BY AbstractState
<1>4. P!vars = <<submitted, running, done>>
  BY DEF P!vars
<1>5. Spec => [](OpsInv /\ Abstract)
  BY <1>3, OpsInvHolds, PTL
<1> QED BY <1>1, <1>2, <1>5, PTL DEF Spec, ImplementsOperations, P!Spec, P!vars
=============================================================================
