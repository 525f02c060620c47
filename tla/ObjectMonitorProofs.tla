------------------------- MODULE ObjectMonitorProofs -------------------------
(***************************************************************************)
(* Proofs about ObjectMonitor: who acts as the owner is the owner, the     *)
(* lists agree with TState, the asserts of the code hold and a monitor in  *)
(* use is busy to deflation, for any number of threads.                    *)
(***************************************************************************)
EXTENDS ObjectMonitor, ListFacts

\* The prover of every leaf that does not name one.
USE ZenonT(60)

-----------------------------------------------------------------------------
(* Where a thread is.                                                      *)

SuccTests == {"testSucc", "clearSucc"}
OwnRets   == {"entered", "acquired", "unlink", "reunlink", "responsible", "reentered"}
FreeRets  == {"retry", "readNotified", "suspendReenter", "reenterTry"}
Exiting   == ExitPcs \cup {"reexit"}

\* The frames of a thread agree with its place: TrySpin and the tests of
\* _succ have a place to return to, and so has exit().
ControlOK(t) ==
  /\ pc[t] \in SpinPcs => ret[t] \in Spinners
  /\ pc[t] \in SuccTests => ret[t] \in OwnRets \cup FreeRets
  /\ pc[t] \in {"notifyMark", "notifyLink", "setHeir", "drop", "wake"} => wakee[t] \in Threads
  /\ pc[t] \notin Exiting => exitTo[t] = "out"
  /\ pc[t] \in {"exit", "release"} => exitTo[t] # "suspendEnter"

\* _recursions is 0 unless a thread is inside, and while exit() is on behalf
\* of wait(), complete_exit() or a suspension.
RecPcs == {"in", "exit", "addWaiter"} \cup NotifyPcs

RecAt(t) ==
  /\ owner = NULL => recursions = 0
  /\ owner = t /\ pc[t] \notin RecPcs => recursions = 0
  /\ pc[t] = "exit" /\ exitTo[t] # "out" => recursions = 0

\* Only the owner changes _EntryList, so it stays as the owner found it.
DrainedOK == \A t \in Threads : pc[t] = "drained" => EntryList # <<>>

ControlInv ==
  /\ TypeOK /\ OwnerExact /\ DrainedOK
  /\ owner = NULL => recursions = 0
  /\ \A t \in Threads : ControlOK(t) /\ RecAt(t)

FrameTypes ==
  /\ pc \in [Threads -> Pcs]
  /\ caller \in [Threads -> {"call", "wait", "reenter"}]
  /\ exitTo \in [Threads -> {"out", "waitIntr", "suspendEnter", "completed"}]
  /\ ret \in [Threads -> Pcs \cup Spinners]
  /\ wakee \in [Threads -> Threads \cup {NULL}]

\* What a step of t does to the ownership.
OwnKind(t) ==
  \/ owner' = owner /\ (Owning(t)' <=> Owning(t))
  \/ owner = NULL /\ owner' = t /\ Owning(t)'
  \/ Owning(t) /\ owner' = NULL /\ ~Owning(t)'

-----------------------------------------------------------------------------
(* The place of a thread: where the code it was called from is, while it   *)
(* spins, tests _succ or exits.                                            *)

At(t) == IF pc[t] \in SpinPcs \cup SuccTests THEN ret[t]
         ELSE IF pc[t] \in Exiting THEN exitTo[t] ELSE pc[t]

\* Places where EnterI has the thread on a queue, where enter() counts it in
\* _count, and where enter() has not returned.
QueuePlaces   == {"readEntry", "claim", "retry", "choosePark", "park", "parkTimed", "woken",
                  "unlink", "futile", "responsible"}
CountedPlaces == {"tryEnter", "enterI", "enqueue", "acquired", "dropSucc", "suspendEnter"} \cup QueuePlaces
EnterPlaces   == {"early", "inc", "entered"} \cup CountedPlaces

\* Places of wait(): before and after it has looked for itself on the wait
\* set, and in ReenterI.
Wait1         == {"waitIntr", "waitNotified", "waitPark", "waitSusp", "suspendWait", "waitTState", "waitUnlink"}
Wait2         == {"readNotified", "waitEnter"}
ReenterPlaces == ReenterPcs \cup {"reunlink", "reenter"}

\* Places of a thread that is on no list.
RunPlaces == {"out", "in", "completed", "addWaiter", "waitDone"} \cup NotifyPcs \cup (FastPcs \ {"reexit"})
             \cup (EnterPlaces \ QueuePlaces)
Places    == RunPlaces \cup QueuePlaces \cup Wait1 \cup Wait2 \cup ReenterPlaces

\* Between UnlinkAfterAcquire and the store of TS_RUN.
Post == {"responsible", "reentered"}

\* INotify has its thread off the wait set and not yet on another list.
Marking == {"notifyMark", "notifyLink"}

\* TState, _count, _waiters and _Responsible of a thread at place a.
PlaceIs(t, a) ==
  /\ a \in Places
  /\ a \in RunPlaces => TState[t] = "RUN"
  /\ a \in QueuePlaces \cup ReenterPlaces => TState[t] \in {"ENTER", "CXQ"}
  /\ a \in Wait1 => TState[t] # "RUN"
  /\ a \in Wait1 /\ pc[t] \in {"exit", "release"} => TState[t] = "WAIT"
  /\ a \in Wait2 => TState[t] # "WAIT"
  /\ caller[t] # "call" => a \in EnterPlaces
  /\ t \in count <=> a \in CountedPlaces
  /\ t \in waiters <=> a \in Wait1 \cup Wait2 \cup ReenterPlaces \cup {"waitDone"} \/ caller[t] = "wait"
  /\ Responsible = t => a \in QueuePlaces

PlaceAt(t) == PlaceIs(t, At(t))

\* At(t) = a, spelled out.
AtIs(t, a) ==
  /\ pc[t] \in SpinPcs \cup SuccTests => a = ret[t]
  /\ pc[t] \in Exiting => a = exitTo[t]
  /\ pc[t] \notin SpinPcs \cup SuccTests \cup Exiting => a = pc[t]

\* A step of t that changes no list and no TState.
lists == <<cxq, EntryList, WaitSet, WaitSetLock, TState>>

QuietFrom(t, a, b) ==
  /\ UNCHANGED lists
  /\ b \in Post <=> a \in Post
  /\ pc'[t] \in Marking <=> pc[t] \in Marking
  /\ pc[t] \in Marking => wakee'[t] = wakee[t]

Quiet(t) == QuietFrom(t, At(t), At(t)')

ListWriter(t) ==
  \/ Enqueue(t) \/ Unlink(t) \/ DropResponsible(t) \/ Pick(t) \/ AddWaiter(t) \/ WaitUnlink(t)
  \/ Reentered(t) \/ Notify(t) \/ NotifyLink(t)

-----------------------------------------------------------------------------
(* What the steps do to the control.                                       *)

\* A step of t changes only t's own frames.
LEMMA OthersStep ==
  ASSUME FrameTypes, NEW t \in Threads, Call(t) \/ Step(t)
  PROVE  \A u \in Threads \ {t} :
           /\ pc'[u] = pc[u] /\ caller'[u] = caller[u] /\ exitTo'[u] = exitTo[u]
           /\ ret'[u] = ret[u] /\ wakee'[u] = wakee[u]
<1> USE DEF FrameTypes, Goto, frames, locals
<1>1. CASE Call(t)
  BY <1>1 DEF Call, EnterCall, Enter, Entered, TrySpin, Lost, RecursiveEnter, ExitCall, FastExitCall,
         CompleteExit, WaitCall, NotifyCall
<1>2. CASE EnterStep(t)
  <2>1. CASE SpunIn(t) \/ IncCount(t) \/ TryEnter(t) \/ Enqueue(t) \/ ReadEntry(t) \/ Claim(t)
    BY <2>1 DEF SpunIn, Entered, IncCount, TryEnter, TrySpin, Lost, Enqueue, ReadEntry, Claim
  <2>2. CASE Retry(t) \/ ChoosePark(t) \/ Park(t) \/ ParkTimeout(t) \/ Woken(t) \/ TestSucc(t)
    BY <2>2 DEF Retry, ChoosePark, Park, ParkTimeout, Woken, TrySpin, Lost, TestSucc
  <2>3. CASE ClearSucc(t) \/ Unlink(t) \/ DropResponsible(t) \/ Acquired(t) \/ DropSucc(t) \/ SuspendReturn(t)
    BY <2>3 DEF ClearSucc, Unlink, DropResponsible, Acquired, Entered, DropSucc, SuspendReturn
  <2> QED BY <1>2, <2>1, <2>2, <2>3 DEF EnterStep
<1>3. CASE SpinStep(t)
  BY <1>3 DEF SpinStep, SpinStart, SetSucc, Spin, SpinGiveUp, SpinAbort, AbortClear, AbortTry, Lost
<1>4. CASE ExitStep(t)
  <2>1. CASE Exit(t) \/ Release(t) \/ ReadList(t) \/ ReadCxq(t) \/ ReadSucc(t) \/ Reacquire(t)
    BY <2>1 DEF Exit, Release, ReadList, ReadCxq, ReadSucc, Reacquire, Exited
  <2>2. CASE Pick(t) \/ Drained(t) \/ SetHeir(t) \/ Drop(t) \/ Wake(t)
    BY <2>2 DEF Pick, Drained, SetHeir, Drop, Wake, Exited
  <2>3. CASE \/ FastList(t) \/ FastRelease(t) \/ FastSucc(t) \/ FastDrop(t) \/ FastRatify(t)
             \/ FastReacquire(t) \/ Reenter(t)
    BY <2>3 DEF FastList, FastRelease, FastSucc, FastDrop, FastRatify, FastReacquire, Reenter, Enter,
           Entered, TrySpin, Lost
  <2> QED BY <1>4, <2>1, <2>2, <2>3 DEF ExitStep
<1>5. CASE WaitStep(t)
  <2>1. CASE AddWaiter(t) \/ WaitTest(t) \/ WaitTState(t) \/ WaitUnlink(t) \/ ReadNotified(t)
    BY <2>1 DEF AddWaiter, WaitTest, WaitTState, WaitUnlink, ReadNotified
  <2>2. CASE WaitEnter(t) \/ ReenterTry(t) \/ ReenterSusp(t) \/ ReenterWoken(t) \/ Reentered(t)
    BY <2>2 DEF WaitEnter, Enter, Entered, ReenterTry, TrySpin, Lost, ReenterSusp, ReenterWoken, Reentered
  <2>3. CASE WaitDone(t) \/ Notify(t) \/ NotifyMark(t) \/ NotifyLink(t)
    BY <2>3 DEF WaitDone, Notify, NotifyMark, NotifyLink
  <2> QED BY <1>5, <2>1, <2>2, <2>3 DEF WaitStep
<1> QED BY <1>1, <1>2, <1>3, <1>4, <1>5 DEF Step

\* What a step of t keeps of its own frames.
KeepsFrames(t) ==
  /\ FrameTypes /\ ControlOK(t) /\ RecAt(t)
  /\ (Owning(t) <=> owner = t) /\ t # NULL
  /\ WaitSet # <<>> => Head(WaitSet) \in Threads
  /\ EntryList # <<>> => Head(EntryList) \in Threads
  /\ pc[t] = "drained" => EntryList # <<>>
  => /\ FrameTypes' /\ ControlOK(t)' /\ RecAt(t)'
     /\ OwnKind(t)
     /\ recursions' = recursions \/ owner' = t
     /\ pc'[t] = "drained" => pc[t] = "pick"
     /\ pc'[t] = "setHeir" => pc[t] \in {"pick", "drained"}
     /\ Inside(t)' /\ ~Inside(t) => pc'[t] = "in"
     /\ Inside(t) /\ ~Inside(t)' => owner' = NULL

\* What a step of t keeps of the agreement of its place with TState, _count,
\* _waiters and _Responsible.
KeepsPlaces(t) == \A a, b :
  /\ AtIs(t, a) /\ AtIs(t, b)'
  /\ FrameTypes /\ ControlOK(t) /\ PlaceIs(t, a) /\ t # NULL
  /\ TState \in [Threads -> {"RUN", "WAIT", "ENTER", "CXQ"}]
  /\ t \in In(cxq) => TState[t] = "CXQ"
  /\ WaitSet # <<>> => Head(WaitSet) \in Threads /\ TState[Head(WaitSet)] = "WAIT"
  /\ pc[t] = "exit" /\ exitTo[t] # "out" => recursions = 0
  /\ pc[t] = "notifyLink" => TState[wakee[t]] = "ENTER"
  => PlaceIs(t, b)' /\ (QuietFrom(t, a, b) \/ ListWriter(t))

\* The calls.
LEMMA CallKeeps ==
  ASSUME NEW t \in Threads, Call(t)
  PROVE  KeepsFrames(t) /\ KeepsPlaces(t)
<1> USE DEF FrameTypes, ControlOK, SpinPcs, ExitPcs, FastPcs, ReenterPcs, NotifyPcs, Spinners, SuccTests,
            OwnRets, FreeRets, Exiting, AtIs, PlaceIs, QuietFrom, lists, Places, QueuePlaces, CountedPlaces,
            EnterPlaces, Wait1, Wait2, ReenterPlaces, RunPlaces, Post, Marking
<1>1. CASE EnterCall(t)
  <2>1. /\ pc[t] = "out"
        /\ UNCHANGED <<exitTo, wakee>>
        /\ \/ owner = NULL /\ owner' = t /\ recursions' = recursions /\ ret' = ret /\ caller' = [caller EXCEPT ![t] = "call"] /\ Goto(t, "in")
           \/ /\ owner' = owner /\ recursions' = recursions /\ caller' = [caller EXCEPT ![t] = "call"]
              /\ \/ Goto(t, "spin") /\ ret' = [ret EXCEPT ![t] = "early"]
                 \/ Goto(t, "inc") /\ ret' = [ret EXCEPT ![t] = "out"]
        /\ UNCHANGED lists /\ UNCHANGED <<count, waiters, Responsible>>
    BY <1>1 DEF EnterCall, Enter, Entered, TryLock, TrySpin, Lost, owning, queues, waitSet, heirs, busy, Goto, frames
  <2>2. KeepsFrames(t)
    BY <2>1, SMTT(60) DEF KeepsFrames, Pcs, EnterPcs, SuccPcs, WaitPcs, RecAt, RecPcs, OwnKind, Owning, Inside, Goto
  <2>4. KeepsPlaces(t)
    BY <2>1, SMTT(60) DEF KeepsPlaces, Goto
  <2> QED BY <2>2, <2>4
<1>2. CASE RecursiveEnter(t)
  <2>1. /\ pc[t] = "in" /\ owner = t /\ UNCHANGED <<owner, pc, ret, exitTo, caller, wakee>>
        /\ UNCHANGED lists /\ UNCHANGED <<count, waiters, Responsible>>
    BY <1>2 DEF RecursiveEnter, locals, owning, queues, waitSet, heirs, busy, Goto, frames
  <2>2. KeepsFrames(t)
    BY <2>1, SMTT(60) DEF KeepsFrames, Pcs, EnterPcs, SuccPcs, WaitPcs, RecAt, RecPcs, OwnKind, Owning, Inside, Goto
  <2>4. KeepsPlaces(t)
    BY <2>1, SMTT(60) DEF KeepsPlaces, Goto
  <2> QED BY <2>2, <2>4
<1>3. CASE ExitCall(t)
  <2>1. /\ pc[t] = "in" /\ UNCHANGED <<owner, ret, caller, wakee>> /\ recursions' = recursions
        /\ Goto(t, "exit") /\ exitTo' = [exitTo EXCEPT ![t] = "out"]
        /\ UNCHANGED lists /\ UNCHANGED <<count, waiters, Responsible>>
    BY <1>3 DEF ExitCall, owning, locals, queues, waitSet, heirs, busy, Goto, frames
  <2>2. KeepsFrames(t)
    BY <2>1, SMTT(60) DEF KeepsFrames, Pcs, EnterPcs, SuccPcs, WaitPcs, RecAt, RecPcs, OwnKind, Owning, Inside, Goto
  <2>4. KeepsPlaces(t)
    BY <2>1, SMTT(60) DEF KeepsPlaces, Goto
  <2> QED BY <2>2, <2>4
<1>4. CASE FastExitCall(t)
  <2>1. /\ pc[t] = "in" /\ UNCHANGED <<owner, ret, caller, wakee>> /\ recursions' = recursions
        /\ exitTo' = [exitTo EXCEPT ![t] = "out"]
        /\ \/ Goto(t, "exit")
           \/ recursions = 0 /\ Goto(t, "fastList")
           \/ recursions = 0 /\ Goto(t, "fastSucc")
        /\ UNCHANGED lists /\ UNCHANGED <<count, waiters, Responsible>>
    BY <1>4 DEF FastExitCall, owning, locals, queues, waitSet, heirs, busy, Goto, frames
  <2>2. KeepsFrames(t)
    BY <2>1, SMTT(60) DEF KeepsFrames, Pcs, EnterPcs, SuccPcs, WaitPcs, RecAt, RecPcs, OwnKind, Owning, Inside, Goto
  <2>4. KeepsPlaces(t)
    BY <2>1, SMTT(60) DEF KeepsPlaces, Goto
  <2> QED BY <2>2, <2>4
<1>5. CASE CompleteExit(t)
  <2>1. /\ pc[t] = "in" /\ UNCHANGED <<owner, ret, caller, wakee>> /\ recursions' = 0
        /\ Goto(t, "exit") /\ exitTo' = [exitTo EXCEPT ![t] = "completed"]
        /\ UNCHANGED lists /\ UNCHANGED <<count, waiters, Responsible>>
    BY <1>5 DEF CompleteExit, owning, queues, waitSet, heirs, busy, Goto, frames
  <2>2. KeepsFrames(t)
    BY <2>1, SMTT(60) DEF KeepsFrames, Pcs, EnterPcs, SuccPcs, WaitPcs, RecAt, RecPcs, OwnKind, Owning, Inside, Goto
  <2>4. KeepsPlaces(t)
    BY <2>1, SMTT(60) DEF KeepsPlaces, Goto
  <2> QED BY <2>2, <2>4
<1>6. CASE WaitCall(t)
  <2>1. /\ pc[t] = "in" /\ UNCHANGED <<owner, ret, exitTo, caller, wakee>> /\ recursions' = recursions
        /\ pc' = pc \/ Goto(t, "addWaiter")
        /\ UNCHANGED lists /\ UNCHANGED <<count, waiters, Responsible>>
    BY <1>6 DEF WaitCall, owning, locals, queues, waitSet, heirs, busy, Goto, frames
  <2>2. KeepsFrames(t)
    BY <2>1, SMTT(60) DEF KeepsFrames, Pcs, EnterPcs, SuccPcs, WaitPcs, RecAt, RecPcs, OwnKind, Owning, Inside, Goto
  <2>4. KeepsPlaces(t)
    BY <2>1, SMTT(60) DEF KeepsPlaces, Goto
  <2> QED BY <2>2, <2>4
<1>7. CASE NotifyCall(t)
  <2>1. /\ pc[t] = "in" /\ UNCHANGED <<owner, ret, exitTo, caller, wakee>> /\ recursions' = recursions
        /\ Goto(t, "notify")
        /\ UNCHANGED lists /\ UNCHANGED <<count, waiters, Responsible>>
    BY <1>7 DEF NotifyCall, owning, queues, waitSet, heirs, busy, Goto, frames
  <2>2. KeepsFrames(t)
    BY <2>1, SMTT(60) DEF KeepsFrames, Pcs, EnterPcs, SuccPcs, WaitPcs, RecAt, RecPcs, OwnKind, Owning, Inside, Goto
  <2>4. KeepsPlaces(t)
    BY <2>1, SMTT(60) DEF KeepsPlaces, Goto
  <2> QED BY <2>2, <2>4
<1> QED BY <1>1, <1>2, <1>3, <1>4, <1>5, <1>6, <1>7 DEF Call

\* The steps of enter() and EnterI().
LEMMA EnterKeeps ==
  ASSUME NEW t \in Threads, EnterStep(t)
  PROVE  KeepsFrames(t) /\ KeepsPlaces(t)
<1> USE DEF FrameTypes, ControlOK, SpinPcs, ExitPcs, FastPcs, ReenterPcs, NotifyPcs, Spinners, SuccTests,
            OwnRets, FreeRets, Exiting, AtIs, PlaceIs, QuietFrom, lists, Places, QueuePlaces, CountedPlaces,
            EnterPlaces, Wait1, Wait2, ReenterPlaces, RunPlaces, Post, Marking
<1>1. CASE SpunIn(t)
  <2>1. /\ pc[t] = "entered" /\ UNCHANGED <<owner, ret, exitTo, wakee>>
        /\ caller' = [caller EXCEPT ![t] = "call"]
        /\ \/ caller[t] = "wait" /\ recursions' = recursions /\ Goto(t, "waitDone")
           \/ caller[t] # "wait" /\ Goto(t, "in")
        /\ UNCHANGED lists /\ UNCHANGED <<count, waiters, Responsible>>
    BY <1>1 DEF SpunIn, Entered, owning, queues, waitSet, heirs, busy, Goto, frames
  <2>2. KeepsFrames(t)
    BY <2>1, SMTT(60) DEF KeepsFrames, Pcs, EnterPcs, SuccPcs, WaitPcs, RecAt, RecPcs, OwnKind, Owning, Inside, Goto
  <2>4. KeepsPlaces(t)
    BY <2>1, SMTT(60) DEF KeepsPlaces, Goto
  <2> QED BY <2>2, <2>4
<1>2. CASE IncCount(t)
  <2>1. /\ pc[t] = "inc" /\ UNCHANGED <<owner, ret, exitTo, caller, wakee>> /\ recursions' = recursions
        /\ Goto(t, "tryEnter")
        /\ UNCHANGED lists
        /\ count' = count \cup {t}
        /\ UNCHANGED <<waiters, Responsible>>
    BY <1>2 DEF IncCount, owning, locals, queues, waitSet, heirs, busy, Goto, frames
  <2>2. KeepsFrames(t)
    BY <2>1, SMTT(60) DEF KeepsFrames, Pcs, EnterPcs, SuccPcs, WaitPcs, RecAt, RecPcs, OwnKind, Owning, Inside, Goto
  <2>4. KeepsPlaces(t)
    BY <2>1, SMTT(60) DEF KeepsPlaces, Goto
  <2> QED BY <2>2, <2>4
<1>3. CASE TryEnter(t)
  <2>1. /\ pc[t] = "tryEnter" /\ UNCHANGED <<exitTo, caller, wakee>> /\ recursions' = recursions
        /\ \/ owner = NULL /\ owner' = t /\ ret' = ret /\ Goto(t, "acquired")
           \/ /\ owner' = owner
              /\ \/ Goto(t, "spin") /\ ret' = [ret EXCEPT ![t] = "enterI"]
                 \/ Goto(t, "enqueue") /\ ret' = [ret EXCEPT ![t] = "out"]
        /\ UNCHANGED lists /\ UNCHANGED <<count, waiters, Responsible>>
    BY <1>3 DEF TryEnter, TryLock, Taken, TrySpin, Lost, locals, owning, queues, waitSet, heirs, busy, Goto, frames
  <2>2. KeepsFrames(t)
    BY <2>1, SMTT(60) DEF KeepsFrames, Pcs, EnterPcs, SuccPcs, WaitPcs, RecAt, RecPcs, OwnKind, Owning, Inside, Goto
  <2>4. KeepsPlaces(t)
    BY <2>1, SMTT(60) DEF KeepsPlaces, Goto
  <2> QED BY <2>2, <2>4
<1>4. CASE Enqueue(t)
  <2>1. /\ pc[t] = "enqueue" /\ UNCHANGED <<ret, exitTo, caller, wakee>> /\ recursions' = recursions
        /\ \/ owner = NULL /\ owner' = t /\ TState' = TState /\ Goto(t, "acquired")
           \/ owner' = owner /\ TState' = [TState EXCEPT ![t] = "CXQ"] /\ Goto(t, "readEntry")
           \/ owner' = owner /\ TState' = [TState EXCEPT ![t] = "CXQ"] /\ Goto(t, "retry")
        /\ UNCHANGED <<count, waiters, Responsible>>
    BY <1>4 DEF Enqueue, TryLock, locals, owning, queues, waitSet, heirs, busy, Goto, frames
  <2>2. KeepsFrames(t)
    BY <2>1, SMTT(60) DEF KeepsFrames, Pcs, EnterPcs, SuccPcs, WaitPcs, RecAt, RecPcs, OwnKind, Owning, Inside, Goto
  <2>3. ListWriter(t)
    BY <1>4 DEF ListWriter
  <2>4. KeepsPlaces(t)
    BY <2>1, <2>3, SMTT(60) DEF KeepsPlaces, Goto
  <2> QED BY <2>2, <2>4
<1>5. CASE ReadEntry(t)
  <2>1. /\ pc[t] = "readEntry" /\ UNCHANGED <<owner, ret, exitTo, caller, wakee>> /\ recursions' = recursions
        /\ Goto(t, "claim") \/ Goto(t, "retry")
        /\ UNCHANGED lists /\ UNCHANGED <<count, waiters, Responsible>>
    BY <1>5 DEF ReadEntry, owning, locals, queues, waitSet, heirs, busy, Goto, frames
  <2>2. KeepsFrames(t)
    BY <2>1, SMTT(60) DEF KeepsFrames, Pcs, EnterPcs, SuccPcs, WaitPcs, RecAt, RecPcs, OwnKind, Owning, Inside, Goto
  <2>4. KeepsPlaces(t)
    BY <2>1, SMTT(60) DEF KeepsPlaces, Goto
  <2> QED BY <2>2, <2>4
<1>6. CASE Claim(t)
  <2>1. /\ pc[t] = "claim" /\ UNCHANGED <<owner, ret, exitTo, caller, wakee>> /\ recursions' = recursions
        /\ Goto(t, "retry")
        /\ UNCHANGED lists
        /\ Responsible' \in {Responsible, t}
        /\ UNCHANGED <<count, waiters>>
    BY <1>6 DEF Claim, owning, locals, queues, waitSet, heirs, busy, Goto, frames
  <2>2. KeepsFrames(t)
    BY <2>1, SMTT(60) DEF KeepsFrames, Pcs, EnterPcs, SuccPcs, WaitPcs, RecAt, RecPcs, OwnKind, Owning, Inside, Goto
  <2>4. KeepsPlaces(t)
    BY <2>1, SMTT(60) DEF KeepsPlaces, Goto
  <2> QED BY <2>2, <2>4
<1>7. CASE Retry(t)
  <2>1. /\ pc[t] = "retry" /\ UNCHANGED <<ret, exitTo, caller, wakee>> /\ recursions' = recursions
        /\ \/ owner = NULL /\ owner' = t /\ Goto(t, "unlink")
           \/ owner' = owner /\ Goto(t, "choosePark")
        /\ UNCHANGED lists /\ UNCHANGED <<count, waiters, Responsible>>
    BY <1>7 DEF Retry, TryLock, Taken, locals, owning, queues, waitSet, heirs, busy, Goto, frames
  <2>2. KeepsFrames(t)
    BY <2>1, SMTT(60) DEF KeepsFrames, Pcs, EnterPcs, SuccPcs, WaitPcs, RecAt, RecPcs, OwnKind, Owning, Inside, Goto
  <2>4. KeepsPlaces(t)
    BY <2>1, SMTT(60) DEF KeepsPlaces, Goto
  <2> QED BY <2>2, <2>4
<1>8. CASE ChoosePark(t)
  <2>1. /\ pc[t] = "choosePark" /\ UNCHANGED <<owner, ret, exitTo, caller, wakee>> /\ recursions' = recursions
        /\ Goto(t, "parkTimed") \/ Goto(t, "park")
        /\ UNCHANGED lists /\ UNCHANGED <<count, waiters, Responsible>>
    BY <1>8 DEF ChoosePark, owning, locals, queues, waitSet, heirs, busy, Goto, frames
  <2>2. KeepsFrames(t)
    BY <2>1, SMTT(60) DEF KeepsFrames, Pcs, EnterPcs, SuccPcs, WaitPcs, RecAt, RecPcs, OwnKind, Owning, Inside, Goto
  <2>4. KeepsPlaces(t)
    BY <2>1, SMTT(60) DEF KeepsPlaces, Goto
  <2> QED BY <2>2, <2>4
<1>9. CASE Park(t)
  <2>1. /\ UNCHANGED <<owner, ret, exitTo, caller, wakee>> /\ recursions' = recursions
        /\ \/ pc[t] \in {"park", "parkTimed"} /\ Goto(t, "woken")
           \/ pc[t] = "waitPark" /\ Goto(t, "waitSusp")
           \/ pc[t] = "reenterPark" /\ Goto(t, "reenterSusp")
        /\ UNCHANGED lists /\ UNCHANGED <<count, waiters, Responsible>>
    BY <1>9 DEF Park, owning, locals, queues, waitSet, heirs, busy, Goto, frames
  <2>2. KeepsFrames(t)
    BY <2>1, SMTT(60) DEF KeepsFrames, Pcs, EnterPcs, SuccPcs, WaitPcs, RecAt, RecPcs, OwnKind, Owning, Inside, Goto
  <2>4. KeepsPlaces(t)
    BY <2>1, SMTT(60) DEF KeepsPlaces, Goto
  <2> QED BY <2>2, <2>4
<1>10. CASE ParkTimeout(t)
  <2>1. /\ UNCHANGED <<owner, ret, exitTo, caller, wakee>> /\ recursions' = recursions
        /\ \/ pc[t] = "parkTimed" /\ Goto(t, "woken")
           \/ pc[t] = "waitPark" /\ Goto(t, "waitSusp")
        /\ UNCHANGED lists /\ UNCHANGED <<count, waiters, Responsible>>
    BY <1>10 DEF ParkTimeout, owning, locals, queues, waitSet, heirs, busy, Goto, frames
  <2>2. KeepsFrames(t)
    BY <2>1, SMTT(60) DEF KeepsFrames, Pcs, EnterPcs, SuccPcs, WaitPcs, RecAt, RecPcs, OwnKind, Owning, Inside, Goto
  <2>4. KeepsPlaces(t)
    BY <2>1, SMTT(60) DEF KeepsPlaces, Goto
  <2> QED BY <2>2, <2>4
<1>11. CASE Woken(t)
  <2>1. /\ pc[t] = "woken" /\ UNCHANGED <<exitTo, caller, wakee>> /\ recursions' = recursions
        /\ \/ owner = NULL /\ owner' = t /\ ret' = ret /\ Goto(t, "unlink")
           \/ /\ owner' = owner
              /\ \/ Goto(t, "spin") /\ ret' = [ret EXCEPT ![t] = "futile"]
                 \/ Goto(t, "testSucc") /\ ret' = [ret EXCEPT ![t] = "retry"]
        /\ UNCHANGED lists /\ UNCHANGED <<count, waiters, Responsible>>
    BY <1>11 DEF Woken, TryLock, Taken, TrySpin, Lost, locals, owning, queues, waitSet, heirs, busy, Goto, frames
  <2>2. KeepsFrames(t)
    BY <2>1, SMTT(60) DEF KeepsFrames, Pcs, EnterPcs, SuccPcs, WaitPcs, RecAt, RecPcs, OwnKind, Owning, Inside, Goto
  <2>4. KeepsPlaces(t)
    BY <2>1, SMTT(60) DEF KeepsPlaces, Goto
  <2> QED BY <2>2, <2>4
<1>12. CASE TestSucc(t)
  <2>1. /\ pc[t] = "testSucc" /\ UNCHANGED <<owner, exitTo, caller, wakee>> /\ recursions' = recursions
        /\ \/ Goto(t, "clearSucc") /\ ret' = ret
           \/ Goto(t, ret[t]) /\ ret' = [ret EXCEPT ![t] = "out"]
        /\ UNCHANGED lists /\ UNCHANGED <<count, waiters, Responsible>>
    BY <1>12 DEF TestSucc, owning, locals, queues, waitSet, heirs, busy, Goto, frames
  <2>2. KeepsFrames(t)
    BY <2>1, SMTT(60) DEF KeepsFrames, Pcs, EnterPcs, SuccPcs, WaitPcs, RecAt, RecPcs, OwnKind, Owning, Inside, Goto
  <2>4. KeepsPlaces(t)
    BY <2>1, SMTT(60) DEF KeepsPlaces, Goto
  <2> QED BY <2>2, <2>4
<1>13. CASE ClearSucc(t)
  <2>1. /\ pc[t] = "clearSucc" /\ UNCHANGED <<owner, exitTo, caller, wakee>> /\ recursions' = recursions
        /\ Goto(t, ret[t]) /\ ret' = [ret EXCEPT ![t] = "out"]
        /\ UNCHANGED lists /\ UNCHANGED <<count, waiters, Responsible>>
    BY <1>13 DEF ClearSucc, owning, locals, queues, waitSet, heirs, busy, Goto, frames
  <2>2. KeepsFrames(t)
    BY <2>1, SMTT(60) DEF KeepsFrames, Pcs, EnterPcs, SuccPcs, WaitPcs, RecAt, RecPcs, OwnKind, Owning, Inside, Goto
  <2>4. KeepsPlaces(t)
    BY <2>1, SMTT(60) DEF KeepsPlaces, Goto
  <2> QED BY <2>2, <2>4
<1>14. CASE Unlink(t)
  <2>1. /\ UNCHANGED <<owner, exitTo, caller, wakee>> /\ Goto(t, "testSucc") /\ recursions' = recursions
        /\ \/ pc[t] = "unlink" /\ ret' = [ret EXCEPT ![t] = "responsible"]
           \/ pc[t] = "reunlink" /\ ret' = [ret EXCEPT ![t] = "reentered"]
        /\ TState' = TState
        /\ UNCHANGED <<count, waiters, Responsible>>
    BY <1>14 DEF Unlink, owning, locals, queues, waitSet, heirs, busy, Goto, frames
  <2>2. KeepsFrames(t)
    BY <2>1, SMTT(60) DEF KeepsFrames, Pcs, EnterPcs, SuccPcs, WaitPcs, RecAt, RecPcs, OwnKind, Owning, Inside, Goto
  <2>3. ListWriter(t)
    BY <1>14 DEF ListWriter
  <2>4. KeepsPlaces(t)
    BY <2>1, <2>3, SMTT(60) DEF KeepsPlaces, Goto
  <2> QED BY <2>2, <2>4
<1>15. CASE DropResponsible(t)
  <2>1. /\ pc[t] = "responsible" /\ UNCHANGED <<owner, ret, exitTo, caller, wakee>> /\ recursions' = recursions
        /\ Goto(t, "acquired")
        /\ TState' = [TState EXCEPT ![t] = "RUN"]
        /\ Responsible' \in {Responsible, NULL} /\ (Responsible' = t => t = NULL)
        /\ UNCHANGED <<count, waiters>>
    BY <1>15 DEF DropResponsible, owning, locals, queues, waitSet, heirs, busy, Goto, frames
  <2>2. KeepsFrames(t)
    BY <2>1, SMTT(60) DEF KeepsFrames, Pcs, EnterPcs, SuccPcs, WaitPcs, RecAt, RecPcs, OwnKind, Owning, Inside, Goto
  <2>3. ListWriter(t)
    BY <1>15 DEF ListWriter
  <2>4. KeepsPlaces(t)
    BY <2>1, <2>3, SMTT(60) DEF KeepsPlaces, Goto
  <2> QED BY <2>2, <2>4
<1>16. CASE Acquired(t)
  <2>1. /\ pc[t] = "acquired" /\ UNCHANGED <<owner, ret, exitTo, wakee>>
        /\ \/ caller[t] = "wait" /\ count' = count \ {t} /\ recursions' = recursions /\ caller' = [caller EXCEPT ![t] = "call"] /\ Goto(t, "waitDone")
           \/ caller[t] # "wait" /\ count' = count \ {t} /\ caller' = [caller EXCEPT ![t] = "call"] /\ Goto(t, "in")
           \/ count' = count /\ recursions' = 0 /\ caller' = caller /\ Goto(t, "dropSucc")
        /\ UNCHANGED lists /\ UNCHANGED <<waiters, Responsible>>
    BY <1>16 DEF Acquired, Entered, owning, queues, waitSet, heirs, busy, Goto, frames
  <2>2. KeepsFrames(t)
    BY <2>1, SMTT(60) DEF KeepsFrames, Pcs, EnterPcs, SuccPcs, WaitPcs, RecAt, RecPcs, OwnKind, Owning, Inside, Goto
  <2>4. KeepsPlaces(t)
    BY <2>1, SMTT(60) DEF KeepsPlaces, Goto
  <2> QED BY <2>2, <2>4
<1>17. CASE DropSucc(t)
  <2>1. /\ pc[t] = "dropSucc" /\ UNCHANGED <<owner, ret, caller, wakee>> /\ recursions' = recursions
        /\ Goto(t, "reexit") /\ exitTo' = [exitTo EXCEPT ![t] = "suspendEnter"]
        /\ UNCHANGED lists /\ UNCHANGED <<count, waiters, Responsible>>
    BY <1>17 DEF DropSucc, owning, locals, queues, waitSet, heirs, busy, Goto, frames
  <2>2. KeepsFrames(t)
    BY <2>1, SMTT(60) DEF KeepsFrames, Pcs, EnterPcs, SuccPcs, WaitPcs, RecAt, RecPcs, OwnKind, Owning, Inside, Goto
  <2>4. KeepsPlaces(t)
    BY <2>1, SMTT(60) DEF KeepsPlaces, Goto
  <2> QED BY <2>2, <2>4
<1>18. CASE SuspendReturn(t)
  <2>1. /\ UNCHANGED <<owner, ret, exitTo, caller, wakee>> /\ recursions' = recursions
        /\ \/ pc[t] = "suspendEnter" /\ Goto(t, "tryEnter")
           \/ pc[t] = "suspendWait" /\ Goto(t, "waitTState")
           \/ pc[t] = "suspendReenter" /\ Goto(t, "reenterSusp")
        /\ UNCHANGED lists /\ UNCHANGED <<count, waiters, Responsible>>
    BY <1>18 DEF SuspendReturn, owning, locals, queues, waitSet, heirs, busy, Goto, frames
  <2>2. KeepsFrames(t)
    BY <2>1, SMTT(60) DEF KeepsFrames, Pcs, EnterPcs, SuccPcs, WaitPcs, RecAt, RecPcs, OwnKind, Owning, Inside, Goto
  <2>4. KeepsPlaces(t)
    BY <2>1, SMTT(60) DEF KeepsPlaces, Goto
  <2> QED BY <2>2, <2>4
<1> QED BY <1>1, <1>2, <1>3, <1>4, <1>5, <1>6, <1>7, <1>8, <1>9, <1>10, <1>11, <1>12, <1>13, <1>14, <1>15, <1>16, <1>17, <1>18 DEF EnterStep

\* The steps of TrySpin.
LEMMA SpinKeeps ==
  ASSUME NEW t \in Threads, SpinStep(t)
  PROVE  KeepsFrames(t) /\ KeepsPlaces(t)
<1> USE DEF FrameTypes, ControlOK, SpinPcs, ExitPcs, FastPcs, ReenterPcs, NotifyPcs, Spinners, SuccTests,
            OwnRets, FreeRets, Exiting, AtIs, PlaceIs, QuietFrom, lists, Places, QueuePlaces, CountedPlaces,
            EnterPlaces, Wait1, Wait2, ReenterPlaces, RunPlaces, Post, Marking
<1>1. CASE SpinStart(t)
  <2>1. /\ pc[t] = "spin" /\ UNCHANGED <<exitTo, caller, wakee>> /\ recursions' = recursions
        /\ \/ owner = NULL /\ owner' = t /\ Goto(t, Won(ret[t])) /\ ret' = [ret EXCEPT ![t] = "out"]
           \/ owner' = owner /\ Lost(t, ret[t])
           \/ owner' = owner /\ ret' = ret /\ (Goto(t, "setSucc") \/ Goto(t, "spinning"))
        /\ UNCHANGED lists /\ UNCHANGED <<count, waiters, Responsible>>
    BY <1>1 DEF SpinStart, TryLock, locals, owning, queues, waitSet, heirs, busy, Goto, frames
  <2>2. KeepsFrames(t)
    BY <2>1, SMTT(60) DEF KeepsFrames, Pcs, EnterPcs, SuccPcs, WaitPcs, RecAt, RecPcs, OwnKind, Owning, Inside, Goto, Lost, Won
  <2>4. KeepsPlaces(t)
    BY <2>1, SMTT(60) DEF KeepsPlaces, Goto, Lost, Won
  <2> QED BY <2>2, <2>4
<1>2. CASE SetSucc(t)
  <2>1. /\ pc[t] = "setSucc" /\ UNCHANGED <<owner, ret, exitTo, caller, wakee>> /\ recursions' = recursions
        /\ Goto(t, "spinning")
        /\ UNCHANGED lists /\ UNCHANGED <<count, waiters, Responsible>>
    BY <1>2 DEF SetSucc, owning, locals, queues, waitSet, heirs, busy, Goto, frames
  <2>2. KeepsFrames(t)
    BY <2>1, SMTT(60) DEF KeepsFrames, Pcs, EnterPcs, SuccPcs, WaitPcs, RecAt, RecPcs, OwnKind, Owning, Inside, Goto
  <2>4. KeepsPlaces(t)
    BY <2>1, SMTT(60) DEF KeepsPlaces, Goto
  <2> QED BY <2>2, <2>4
<1>3. CASE Spin(t)
  <2>1. /\ pc[t] = "spinning" /\ UNCHANGED <<exitTo, caller, wakee>> /\ recursions' = recursions
        /\ \/ owner = NULL /\ owner' = t /\ Goto(t, "testSucc") /\ ret' = [ret EXCEPT ![t] = Won(ret[t])]
           \/ owner' = owner /\ ret' = ret /\ Goto(t, "setSucc")
        /\ UNCHANGED lists /\ UNCHANGED <<count, waiters, Responsible>>
    BY <1>3 DEF Spin, TryLock, Taken, locals, owning, queues, waitSet, heirs, busy, Goto, frames
  <2>2. KeepsFrames(t)
    BY <2>1, SMTT(60) DEF KeepsFrames, Pcs, EnterPcs, SuccPcs, WaitPcs, RecAt, RecPcs, OwnKind, Owning, Inside, Goto, Won
  <2>4. KeepsPlaces(t)
    BY <2>1, SMTT(60) DEF KeepsPlaces, Goto, Won
  <2> QED BY <2>2, <2>4
<1>4. CASE SpinGiveUp(t)
  <2>1. /\ pc[t] = "spinning" /\ UNCHANGED <<owner, ret, exitTo, caller, wakee>> /\ recursions' = recursions
        /\ Goto(t, "spinAbort")
        /\ UNCHANGED lists /\ UNCHANGED <<count, waiters, Responsible>>
    BY <1>4 DEF SpinGiveUp, owning, locals, queues, waitSet, heirs, busy, Goto, frames
  <2>2. KeepsFrames(t)
    BY <2>1, SMTT(60) DEF KeepsFrames, Pcs, EnterPcs, SuccPcs, WaitPcs, RecAt, RecPcs, OwnKind, Owning, Inside, Goto
  <2>4. KeepsPlaces(t)
    BY <2>1, SMTT(60) DEF KeepsPlaces, Goto
  <2> QED BY <2>2, <2>4
<1>5. CASE SpinAbort(t)
  <2>1. /\ pc[t] = "spinAbort" /\ UNCHANGED <<owner, exitTo, caller, wakee>> /\ recursions' = recursions
        /\ \/ ret' = ret /\ Goto(t, "abortClear")
           \/ Lost(t, ret[t])
        /\ UNCHANGED lists /\ UNCHANGED <<count, waiters, Responsible>>
    BY <1>5 DEF SpinAbort, owning, locals, queues, waitSet, heirs, busy, Goto, frames
  <2>2. KeepsFrames(t)
    BY <2>1, SMTT(60) DEF KeepsFrames, Pcs, EnterPcs, SuccPcs, WaitPcs, RecAt, RecPcs, OwnKind, Owning, Inside, Goto, Lost
  <2>4. KeepsPlaces(t)
    BY <2>1, SMTT(60) DEF KeepsPlaces, Goto, Lost
  <2> QED BY <2>2, <2>4
<1>6. CASE AbortClear(t)
  <2>1. /\ pc[t] = "abortClear" /\ UNCHANGED <<owner, ret, exitTo, caller, wakee>> /\ recursions' = recursions
        /\ Goto(t, "abortTry")
        /\ UNCHANGED lists /\ UNCHANGED <<count, waiters, Responsible>>
    BY <1>6 DEF AbortClear, owning, locals, queues, waitSet, heirs, busy, Goto, frames
  <2>2. KeepsFrames(t)
    BY <2>1, SMTT(60) DEF KeepsFrames, Pcs, EnterPcs, SuccPcs, WaitPcs, RecAt, RecPcs, OwnKind, Owning, Inside, Goto
  <2>4. KeepsPlaces(t)
    BY <2>1, SMTT(60) DEF KeepsPlaces, Goto
  <2> QED BY <2>2, <2>4
<1>7. CASE AbortTry(t)
  <2>1. /\ pc[t] = "abortTry" /\ UNCHANGED <<exitTo, caller, wakee>> /\ recursions' = recursions
        /\ \/ owner = NULL /\ owner' = t /\ Goto(t, Won(ret[t])) /\ ret' = [ret EXCEPT ![t] = "out"]
           \/ owner' = owner /\ Lost(t, ret[t])
        /\ UNCHANGED lists /\ UNCHANGED <<count, waiters, Responsible>>
    BY <1>7 DEF AbortTry, TryLock, Taken, locals, owning, queues, waitSet, heirs, busy, Goto, frames
  <2>2. KeepsFrames(t)
    BY <2>1, SMTT(60) DEF KeepsFrames, Pcs, EnterPcs, SuccPcs, WaitPcs, RecAt, RecPcs, OwnKind, Owning, Inside, Goto, Lost, Won
  <2>4. KeepsPlaces(t)
    BY <2>1, SMTT(60) DEF KeepsPlaces, Goto, Lost, Won
  <2> QED BY <2>2, <2>4
<1> QED BY <1>1, <1>2, <1>3, <1>4, <1>5, <1>6, <1>7 DEF SpinStep

\* The steps of exit() and fast_unlock.
LEMMA ExitKeeps ==
  ASSUME NEW t \in Threads, ExitStep(t)
  PROVE  KeepsFrames(t) /\ KeepsPlaces(t)
<1> USE DEF FrameTypes, ControlOK, SpinPcs, ExitPcs, FastPcs, ReenterPcs, NotifyPcs, Spinners, SuccTests,
            OwnRets, FreeRets, Exiting, AtIs, PlaceIs, QuietFrom, lists, Places, QueuePlaces, CountedPlaces,
            EnterPlaces, Wait1, Wait2, ReenterPlaces, RunPlaces, Post, Marking
<1>1. CASE Exit(t)
  <2>1. /\ UNCHANGED <<owner, ret, exitTo, caller, wakee>>
        /\ \/ pc[t] = "exit" /\ recursions # 0 /\ Goto(t, "in")
           \/ pc[t] = "exit" /\ recursions = 0 /\ recursions' = recursions /\ Goto(t, "release")
           \/ pc[t] = "reexit" /\ recursions' = recursions /\ Goto(t, "rerelease")
        /\ UNCHANGED lists
        /\ Responsible' \in {Responsible, NULL}
        /\ UNCHANGED <<count, waiters>>
    BY <1>1 DEF Exit, locals, owning, queues, waitSet, heirs, busy, Goto, frames
  <2>2. KeepsFrames(t)
    BY <2>1, SMTT(60) DEF KeepsFrames, Pcs, EnterPcs, SuccPcs, WaitPcs, RecAt, RecPcs, OwnKind, Owning, Inside, Goto
  <2>4. KeepsPlaces(t)
    BY <2>1, SMTT(60) DEF KeepsPlaces, Goto
  <2> QED BY <2>2, <2>4
<1>2. CASE Release(t)
  <2>1. /\ pc[t] \in {"release", "rerelease"} /\ UNCHANGED <<ret, exitTo, caller, wakee>> /\ recursions' = recursions
        /\ owner' = NULL /\ Goto(t, "readList")
        /\ UNCHANGED lists /\ UNCHANGED <<count, waiters, Responsible>>
    BY <1>2 DEF Release, locals, owning, queues, waitSet, heirs, busy, Goto, frames
  <2>2. KeepsFrames(t)
    BY <2>1, SMTT(60) DEF KeepsFrames, Pcs, EnterPcs, SuccPcs, WaitPcs, RecAt, RecPcs, OwnKind, Owning, Inside, Goto
  <2>4. KeepsPlaces(t)
    BY <2>1, SMTT(60) DEF KeepsPlaces, Goto
  <2> QED BY <2>2, <2>4
<1>3. CASE ReadList(t)
  <2>1. /\ pc[t] = "readList" /\ UNCHANGED <<owner, ret, exitTo, caller, wakee>> /\ recursions' = recursions
        /\ Goto(t, "readCxq") \/ Goto(t, "readSucc")
        /\ UNCHANGED lists /\ UNCHANGED <<count, waiters, Responsible>>
    BY <1>3 DEF ReadList, owning, locals, queues, waitSet, heirs, busy, Goto, frames
  <2>2. KeepsFrames(t)
    BY <2>1, SMTT(60) DEF KeepsFrames, Pcs, EnterPcs, SuccPcs, WaitPcs, RecAt, RecPcs, OwnKind, Owning, Inside, Goto
  <2>4. KeepsPlaces(t)
    BY <2>1, SMTT(60) DEF KeepsPlaces, Goto
  <2> QED BY <2>2, <2>4
<1>4. CASE ReadCxq(t)
  <2>1. /\ pc[t] = "readCxq" /\ UNCHANGED <<owner, ret, caller, wakee>> /\ recursions' = recursions
        /\ Exited(t) \/ (exitTo' = exitTo /\ Goto(t, "readSucc"))
        /\ UNCHANGED lists /\ UNCHANGED <<count, waiters, Responsible>>
    BY <1>4 DEF ReadCxq, owning, locals, queues, waitSet, heirs, busy, Goto, frames
  <2>2. KeepsFrames(t)
    BY <2>1, SMTT(60) DEF KeepsFrames, Pcs, EnterPcs, SuccPcs, WaitPcs, RecAt, RecPcs, OwnKind, Owning, Inside, Goto, Exited
  <2>4. KeepsPlaces(t)
    BY <2>1, SMTT(60) DEF KeepsPlaces, Goto, Exited
  <2> QED BY <2>2, <2>4
<1>5. CASE ReadSucc(t)
  <2>1. /\ pc[t] = "readSucc" /\ UNCHANGED <<owner, ret, caller, wakee>> /\ recursions' = recursions
        /\ Exited(t) \/ (exitTo' = exitTo /\ Goto(t, "reacquire"))
        /\ UNCHANGED lists /\ UNCHANGED <<count, waiters, Responsible>>
    BY <1>5 DEF ReadSucc, owning, locals, queues, waitSet, heirs, busy, Goto, frames
  <2>2. KeepsFrames(t)
    BY <2>1, SMTT(60) DEF KeepsFrames, Pcs, EnterPcs, SuccPcs, WaitPcs, RecAt, RecPcs, OwnKind, Owning, Inside, Goto, Exited
  <2>4. KeepsPlaces(t)
    BY <2>1, SMTT(60) DEF KeepsPlaces, Goto, Exited
  <2> QED BY <2>2, <2>4
<1>6. CASE Reacquire(t)
  <2>1. /\ pc[t] = "reacquire" /\ UNCHANGED <<ret, caller, wakee>> /\ recursions' = recursions
        /\ \/ owner = NULL /\ owner' = t /\ exitTo' = exitTo /\ Goto(t, "pick")
           \/ owner' = owner /\ Exited(t)
        /\ UNCHANGED lists /\ UNCHANGED <<count, waiters, Responsible>>
    BY <1>6 DEF Reacquire, TryLock, Taken, locals, owning, queues, waitSet, heirs, busy, Goto, frames
  <2>2. KeepsFrames(t)
    BY <2>1, SMTT(60) DEF KeepsFrames, Pcs, EnterPcs, SuccPcs, WaitPcs, RecAt, RecPcs, OwnKind, Owning, Inside, Goto, Exited
  <2>4. KeepsPlaces(t)
    BY <2>1, SMTT(60) DEF KeepsPlaces, Goto, Exited
  <2> QED BY <2>2, <2>4
<1>7. CASE Pick(t)
  <2>1. /\ pc[t] = "pick" /\ UNCHANGED <<owner, ret, exitTo, caller>> /\ recursions' = recursions
        /\ \/ EntryList # <<>> /\ Goto(t, "setHeir") /\ wakee' = [wakee EXCEPT ![t] = Head(EntryList)]
           \/ wakee' = wakee /\ (Goto(t, "rerelease") \/ Goto(t, "drained"))
        /\ \/ TState' = TState
           \/ TState' = [u \in Threads |-> IF u \in In(cxq) THEN "ENTER" ELSE TState[u]]
        /\ UNCHANGED <<count, waiters, Responsible>>
    BY <1>7 DEF Pick, owning, queues, waitSet, heirs, busy, Goto, frames
  <2>2. KeepsFrames(t)
    BY <2>1, SMTT(60) DEF KeepsFrames, Pcs, EnterPcs, SuccPcs, WaitPcs, RecAt, RecPcs, OwnKind, Owning, Inside, Goto
  <2>3. ListWriter(t)
    BY <1>7 DEF ListWriter
  <2>4. KeepsPlaces(t)
    BY <2>1, <2>3, SMTT(60) DEF KeepsPlaces, Goto
  <2> QED BY <2>2, <2>4
<1>8. CASE Drained(t)
  <2>1. /\ pc[t] = "drained" /\ UNCHANGED <<owner, ret, exitTo, caller>> /\ recursions' = recursions
        /\ \/ Goto(t, "setHeir") /\ wakee' = [wakee EXCEPT ![t] = Head(EntryList)]
           \/ wakee' = wakee /\ Goto(t, "rerelease")
        /\ UNCHANGED lists /\ UNCHANGED <<count, waiters, Responsible>>
    BY <1>8 DEF Drained, owning, queues, waitSet, heirs, busy, Goto, frames
  <2>2. KeepsFrames(t)
    BY <2>1, SMTT(60) DEF KeepsFrames, Pcs, EnterPcs, SuccPcs, WaitPcs, RecAt, RecPcs, OwnKind, Owning, Inside, Goto
  <2>4. KeepsPlaces(t)
    BY <2>1, SMTT(60) DEF KeepsPlaces, Goto
  <2> QED BY <2>2, <2>4
<1>9. CASE SetHeir(t)
  <2>1. /\ pc[t] = "setHeir" /\ UNCHANGED <<owner, ret, exitTo, caller, wakee>> /\ recursions' = recursions
        /\ Goto(t, "drop")
        /\ UNCHANGED lists /\ UNCHANGED <<count, waiters, Responsible>>
    BY <1>9 DEF SetHeir, owning, locals, queues, waitSet, heirs, busy, Goto, frames
  <2>2. KeepsFrames(t)
    BY <2>1, SMTT(60) DEF KeepsFrames, Pcs, EnterPcs, SuccPcs, WaitPcs, RecAt, RecPcs, OwnKind, Owning, Inside, Goto
  <2>4. KeepsPlaces(t)
    BY <2>1, SMTT(60) DEF KeepsPlaces, Goto
  <2> QED BY <2>2, <2>4
<1>10. CASE Drop(t)
  <2>1. /\ pc[t] = "drop" /\ UNCHANGED <<ret, exitTo, caller, wakee>> /\ recursions' = recursions
        /\ owner' = NULL /\ Goto(t, "wake")
        /\ UNCHANGED lists /\ UNCHANGED <<count, waiters, Responsible>>
    BY <1>10 DEF Drop, locals, owning, queues, waitSet, heirs, busy, Goto, frames
  <2>2. KeepsFrames(t)
    BY <2>1, SMTT(60) DEF KeepsFrames, Pcs, EnterPcs, SuccPcs, WaitPcs, RecAt, RecPcs, OwnKind, Owning, Inside, Goto
  <2>4. KeepsPlaces(t)
    BY <2>1, SMTT(60) DEF KeepsPlaces, Goto
  <2> QED BY <2>2, <2>4
<1>11. CASE Wake(t)
  <2>1. /\ pc[t] = "wake" /\ UNCHANGED <<owner, ret, caller>> /\ recursions' = recursions
        /\ wakee' = [wakee EXCEPT ![t] = NULL] /\ Exited(t)
        /\ UNCHANGED lists /\ UNCHANGED <<count, waiters, Responsible>>
    BY <1>11 DEF Wake, owning, queues, waitSet, heirs, busy, Goto, frames
  <2>2. KeepsFrames(t)
    BY <2>1, SMTT(60) DEF KeepsFrames, Pcs, EnterPcs, SuccPcs, WaitPcs, RecAt, RecPcs, OwnKind, Owning, Inside, Goto, Exited
  <2>4. KeepsPlaces(t)
    BY <2>1, SMTT(60) DEF KeepsPlaces, Goto, Exited
  <2> QED BY <2>2, <2>4
<1>12. CASE FastList(t)
  <2>1. /\ pc[t] = "fastList" /\ UNCHANGED <<owner, ret, exitTo, caller, wakee>> /\ recursions' = recursions
        /\ Goto(t, "fastRelease") \/ Goto(t, "fastSucc")
        /\ UNCHANGED lists /\ UNCHANGED <<count, waiters, Responsible>>
    BY <1>12 DEF FastList, owning, locals, queues, waitSet, heirs, busy, Goto, frames
  <2>2. KeepsFrames(t)
    BY <2>1, SMTT(60) DEF KeepsFrames, Pcs, EnterPcs, SuccPcs, WaitPcs, RecAt, RecPcs, OwnKind, Owning, Inside, Goto
  <2>4. KeepsPlaces(t)
    BY <2>1, SMTT(60) DEF KeepsPlaces, Goto
  <2> QED BY <2>2, <2>4
<1>13. CASE FastRelease(t)
  <2>1. /\ pc[t] = "fastRelease" /\ UNCHANGED <<ret, exitTo, caller, wakee>> /\ recursions' = recursions
        /\ owner' = NULL /\ Goto(t, "out")
        /\ UNCHANGED lists /\ UNCHANGED <<count, waiters, Responsible>>
    BY <1>13 DEF FastRelease, locals, owning, queues, waitSet, heirs, busy, Goto, frames
  <2>2. KeepsFrames(t)
    BY <2>1, SMTT(60) DEF KeepsFrames, Pcs, EnterPcs, SuccPcs, WaitPcs, RecAt, RecPcs, OwnKind, Owning, Inside, Goto
  <2>4. KeepsPlaces(t)
    BY <2>1, SMTT(60) DEF KeepsPlaces, Goto
  <2> QED BY <2>2, <2>4
<1>14. CASE FastSucc(t)
  <2>1. /\ pc[t] = "fastSucc" /\ UNCHANGED <<owner, ret, exitTo, caller, wakee>> /\ recursions' = recursions
        /\ Goto(t, "exit") \/ Goto(t, "fastDrop")
        /\ UNCHANGED lists /\ UNCHANGED <<count, waiters, Responsible>>
    BY <1>14 DEF FastSucc, owning, locals, queues, waitSet, heirs, busy, Goto, frames
  <2>2. KeepsFrames(t)
    BY <2>1, SMTT(60) DEF KeepsFrames, Pcs, EnterPcs, SuccPcs, WaitPcs, RecAt, RecPcs, OwnKind, Owning, Inside, Goto
  <2>4. KeepsPlaces(t)
    BY <2>1, SMTT(60) DEF KeepsPlaces, Goto
  <2> QED BY <2>2, <2>4
<1>15. CASE FastDrop(t)
  <2>1. /\ pc[t] = "fastDrop" /\ UNCHANGED <<ret, exitTo, caller, wakee>> /\ recursions' = recursions
        /\ owner' = NULL /\ Goto(t, "fastRatify")
        /\ UNCHANGED lists /\ UNCHANGED <<count, waiters, Responsible>>
    BY <1>15 DEF FastDrop, locals, owning, queues, waitSet, heirs, busy, Goto, frames
  <2>2. KeepsFrames(t)
    BY <2>1, SMTT(60) DEF KeepsFrames, Pcs, EnterPcs, SuccPcs, WaitPcs, RecAt, RecPcs, OwnKind, Owning, Inside, Goto
  <2>4. KeepsPlaces(t)
    BY <2>1, SMTT(60) DEF KeepsPlaces, Goto
  <2> QED BY <2>2, <2>4
<1>16. CASE FastRatify(t)
  <2>1. /\ pc[t] = "fastRatify" /\ UNCHANGED <<owner, ret, exitTo, caller, wakee>> /\ recursions' = recursions
        /\ Goto(t, "out") \/ Goto(t, "fastReacquire")
        /\ UNCHANGED lists /\ UNCHANGED <<count, waiters, Responsible>>
    BY <1>16 DEF FastRatify, owning, locals, queues, waitSet, heirs, busy, Goto, frames
  <2>2. KeepsFrames(t)
    BY <2>1, SMTT(60) DEF KeepsFrames, Pcs, EnterPcs, SuccPcs, WaitPcs, RecAt, RecPcs, OwnKind, Owning, Inside, Goto
  <2>4. KeepsPlaces(t)
    BY <2>1, SMTT(60) DEF KeepsPlaces, Goto
  <2> QED BY <2>2, <2>4
<1>17. CASE FastReacquire(t)
  <2>1. /\ pc[t] = "fastReacquire" /\ UNCHANGED <<ret, exitTo, caller, wakee>> /\ recursions' = recursions
        /\ \/ owner = NULL /\ owner' = t /\ Goto(t, "reexit")
           \/ owner' = owner /\ Goto(t, "out")
        /\ UNCHANGED lists /\ UNCHANGED <<count, waiters, Responsible>>
    BY <1>17 DEF FastReacquire, TryLock, Taken, locals, owning, queues, waitSet, heirs, busy, Goto, frames
  <2>2. KeepsFrames(t)
    BY <2>1, SMTT(60) DEF KeepsFrames, Pcs, EnterPcs, SuccPcs, WaitPcs, RecAt, RecPcs, OwnKind, Owning, Inside, Goto
  <2>4. KeepsPlaces(t)
    BY <2>1, SMTT(60) DEF KeepsPlaces, Goto
  <2> QED BY <2>2, <2>4
<1>18. CASE Reenter(t)
  <2>1. /\ pc[t] = "completed"
        /\ UNCHANGED <<exitTo, wakee>>
        /\ \/ owner = NULL /\ owner' = t /\ ret' = ret /\ caller' = [caller EXCEPT ![t] = "call"] /\ Goto(t, "in")
           \/ /\ owner' = owner /\ recursions' = recursions /\ caller' = [caller EXCEPT ![t] = "reenter"]
              /\ \/ Goto(t, "spin") /\ ret' = [ret EXCEPT ![t] = "early"]
                 \/ Goto(t, "inc") /\ ret' = [ret EXCEPT ![t] = "out"]
        /\ UNCHANGED lists /\ UNCHANGED <<count, waiters, Responsible>>
    BY <1>18 DEF Reenter, Enter, Entered, TryLock, TrySpin, Lost, owning, queues, waitSet, heirs, busy, Goto, frames
  <2>2. KeepsFrames(t)
    BY <2>1, SMTT(60) DEF KeepsFrames, Pcs, EnterPcs, SuccPcs, WaitPcs, RecAt, RecPcs, OwnKind, Owning, Inside, Goto
  <2>4. KeepsPlaces(t)
    BY <2>1, SMTT(60) DEF KeepsPlaces, Goto
  <2> QED BY <2>2, <2>4
<1> QED BY <1>1, <1>2, <1>3, <1>4, <1>5, <1>6, <1>7, <1>8, <1>9, <1>10, <1>11, <1>12, <1>13, <1>14, <1>15, <1>16, <1>17, <1>18 DEF ExitStep

\* The steps of wait(), ReenterI() and INotify().
LEMMA WaitKeeps ==
  ASSUME NEW t \in Threads, WaitStep(t)
  PROVE  KeepsFrames(t) /\ KeepsPlaces(t)
<1> USE DEF FrameTypes, ControlOK, SpinPcs, ExitPcs, FastPcs, ReenterPcs, NotifyPcs, Spinners, SuccTests,
            OwnRets, FreeRets, Exiting, AtIs, PlaceIs, QuietFrom, lists, Places, QueuePlaces, CountedPlaces,
            EnterPlaces, Wait1, Wait2, ReenterPlaces, RunPlaces, Post, Marking
<1>1. CASE AddWaiter(t)
  <2>1. /\ pc[t] = "addWaiter" /\ UNCHANGED <<owner, ret, caller, wakee>> /\ recursions' = 0
        /\ Goto(t, "exit") /\ exitTo' = [exitTo EXCEPT ![t] = "waitIntr"]
        /\ TState' = [TState EXCEPT ![t] = "WAIT"]
        /\ Responsible' = NULL /\ waiters' = waiters \cup {t}
        /\ count' = count
    BY <1>1 DEF AddWaiter, owning, queues, waitSet, heirs, busy, Goto, frames
  <2>2. KeepsFrames(t)
    BY <2>1, SMTT(60) DEF KeepsFrames, Pcs, EnterPcs, SuccPcs, WaitPcs, RecAt, RecPcs, OwnKind, Owning, Inside, Goto
  <2>3. ListWriter(t)
    BY <1>1 DEF ListWriter
  <2>4. KeepsPlaces(t)
    BY <2>1, <2>3, SMTT(60) DEF KeepsPlaces, Goto
  <2> QED BY <2>2, <2>4
<1>2. CASE WaitTest(t)
  <2>1. /\ UNCHANGED <<owner, ret, exitTo, caller, wakee>> /\ recursions' = recursions
        /\ \/ pc[t] = "waitIntr" /\ (Goto(t, "waitSusp") \/ Goto(t, "waitNotified"))
           \/ pc[t] = "waitNotified" /\ (Goto(t, "waitSusp") \/ Goto(t, "waitPark"))
           \/ pc[t] = "waitSusp" /\ (Goto(t, "suspendWait") \/ Goto(t, "waitTState"))
        /\ UNCHANGED lists /\ UNCHANGED <<count, waiters, Responsible>>
    BY <1>2 DEF WaitTest, owning, locals, queues, waitSet, heirs, busy, Goto, frames
  <2>2. KeepsFrames(t)
    BY <2>1, SMTT(60) DEF KeepsFrames, Pcs, EnterPcs, SuccPcs, WaitPcs, RecAt, RecPcs, OwnKind, Owning, Inside, Goto
  <2>4. KeepsPlaces(t)
    BY <2>1, SMTT(60) DEF KeepsPlaces, Goto
  <2> QED BY <2>2, <2>4
<1>3. CASE WaitTState(t)
  <2>1. /\ pc[t] = "waitTState" /\ UNCHANGED <<owner, exitTo, caller, wakee>> /\ recursions' = recursions
        /\ \/ TState[t] = "WAIT" /\ ret' = ret /\ Goto(t, "waitUnlink")
           \/ TState[t] # "WAIT" /\ Goto(t, "testSucc") /\ ret' = [ret EXCEPT ![t] = "readNotified"]
        /\ UNCHANGED lists /\ UNCHANGED <<count, waiters, Responsible>>
    BY <1>3 DEF WaitTState, owning, locals, queues, waitSet, heirs, busy, Goto, frames
  <2>2. KeepsFrames(t)
    BY <2>1, SMTT(60) DEF KeepsFrames, Pcs, EnterPcs, SuccPcs, WaitPcs, RecAt, RecPcs, OwnKind, Owning, Inside, Goto
  <2>4. KeepsPlaces(t)
    BY <2>1, SMTT(60) DEF KeepsPlaces, Goto
  <2> QED BY <2>2, <2>4
<1>4. CASE WaitUnlink(t)
  <2>1. /\ pc[t] = "waitUnlink" /\ UNCHANGED <<owner, exitTo, caller, wakee>> /\ recursions' = recursions
        /\ Goto(t, "testSucc") /\ ret' = [ret EXCEPT ![t] = "readNotified"]
        /\ \/ TState[t] = "WAIT" /\ TState' = [TState EXCEPT ![t] = "RUN"]
           \/ TState[t] # "WAIT" /\ TState' = TState
        /\ UNCHANGED <<count, waiters, Responsible>>
    BY <1>4 DEF WaitUnlink, owning, locals, queues, waitSet, heirs, busy, Goto, frames
  <2>2. KeepsFrames(t)
    BY <2>1, SMTT(60) DEF KeepsFrames, Pcs, EnterPcs, SuccPcs, WaitPcs, RecAt, RecPcs, OwnKind, Owning, Inside, Goto
  <2>3. ListWriter(t)
    BY <1>4 DEF ListWriter
  <2>4. KeepsPlaces(t)
    BY <2>1, <2>3, SMTT(60) DEF KeepsPlaces, Goto
  <2> QED BY <2>2, <2>4
<1>5. CASE ReadNotified(t)
  <2>1. /\ pc[t] = "readNotified" /\ UNCHANGED <<owner, ret, exitTo, caller, wakee>> /\ recursions' = recursions
        /\ Goto(t, "waitEnter")
        /\ UNCHANGED lists /\ UNCHANGED <<count, waiters, Responsible>>
    BY <1>5 DEF ReadNotified, owning, queues, waitSet, heirs, busy, Goto, frames
  <2>2. KeepsFrames(t)
    BY <2>1, SMTT(60) DEF KeepsFrames, Pcs, EnterPcs, SuccPcs, WaitPcs, RecAt, RecPcs, OwnKind, Owning, Inside, Goto
  <2>4. KeepsPlaces(t)
    BY <2>1, SMTT(60) DEF KeepsPlaces, Goto
  <2> QED BY <2>2, <2>4
<1>6. CASE WaitEnter(t)
  <2>1. /\ pc[t] = "waitEnter" /\ UNCHANGED <<exitTo, wakee>>
        /\ \/ TState[t] # "RUN" /\ owner' = owner /\ recursions' = recursions /\ UNCHANGED <<ret, caller>> /\ Goto(t, "reenterTry")
           \/ TState[t] = "RUN" /\ owner = NULL /\ owner' = t /\ recursions' = recursions /\ ret' = ret /\ caller' = [caller EXCEPT ![t] = "call"] /\ Goto(t, "waitDone")
           \/ /\ TState[t] = "RUN" /\ owner' = owner /\ recursions' = recursions /\ caller' = [caller EXCEPT ![t] = "wait"]
              /\ \/ Goto(t, "spin") /\ ret' = [ret EXCEPT ![t] = "early"]
                 \/ Goto(t, "inc") /\ ret' = [ret EXCEPT ![t] = "out"]
        /\ UNCHANGED lists /\ UNCHANGED <<count, waiters, Responsible>>
    BY <1>6 DEF WaitEnter, Enter, Entered, TryLock, TrySpin, Lost, owning, locals, queues, waitSet, heirs, busy, Goto, frames
  <2>2. KeepsFrames(t)
    BY <2>1, SMTT(60) DEF KeepsFrames, Pcs, EnterPcs, SuccPcs, WaitPcs, RecAt, RecPcs, OwnKind, Owning, Inside, Goto
  <2>4. KeepsPlaces(t)
    BY <2>1, SMTT(60) DEF KeepsPlaces, Goto
  <2> QED BY <2>2, <2>4
<1>7. CASE ReenterTry(t)
  <2>1. /\ pc[t] = "reenterTry" /\ UNCHANGED <<exitTo, caller, wakee>> /\ recursions' = recursions
        /\ \/ owner = NULL /\ owner' = t /\ ret' = ret /\ Goto(t, "reunlink")
           \/ /\ owner' = owner
              /\ \/ Goto(t, "spin") /\ ret' = [ret EXCEPT ![t] = "reenter"]
                 \/ Goto(t, "reenterPark") /\ ret' = [ret EXCEPT ![t] = "out"]
        /\ UNCHANGED lists /\ UNCHANGED <<count, waiters, Responsible>>
    BY <1>7 DEF ReenterTry, TryLock, Taken, TrySpin, Lost, locals, owning, queues, waitSet, heirs, busy, Goto, frames
  <2>2. KeepsFrames(t)
    BY <2>1, SMTT(60) DEF KeepsFrames, Pcs, EnterPcs, SuccPcs, WaitPcs, RecAt, RecPcs, OwnKind, Owning, Inside, Goto
  <2>4. KeepsPlaces(t)
    BY <2>1, SMTT(60) DEF KeepsPlaces, Goto
  <2> QED BY <2>2, <2>4
<1>8. CASE ReenterSusp(t)
  <2>1. /\ pc[t] = "reenterSusp" /\ UNCHANGED <<owner, exitTo, caller, wakee>> /\ recursions' = recursions
        /\ \/ ret' = ret /\ Goto(t, "reenterWoken")
           \/ Goto(t, "testSucc") /\ ret' = [ret EXCEPT ![t] = "suspendReenter"]
        /\ UNCHANGED lists /\ UNCHANGED <<count, waiters, Responsible>>
    BY <1>8 DEF ReenterSusp, owning, locals, queues, waitSet, heirs, busy, Goto, frames
  <2>2. KeepsFrames(t)
    BY <2>1, SMTT(60) DEF KeepsFrames, Pcs, EnterPcs, SuccPcs, WaitPcs, RecAt, RecPcs, OwnKind, Owning, Inside, Goto
  <2>4. KeepsPlaces(t)
    BY <2>1, SMTT(60) DEF KeepsPlaces, Goto
  <2> QED BY <2>2, <2>4
<1>9. CASE ReenterWoken(t)
  <2>1. /\ pc[t] = "reenterWoken" /\ UNCHANGED <<exitTo, caller, wakee>> /\ recursions' = recursions
        /\ \/ owner = NULL /\ owner' = t /\ ret' = ret /\ Goto(t, "reunlink")
           \/ owner' = owner /\ Goto(t, "testSucc") /\ ret' = [ret EXCEPT ![t] = "reenterTry"]
        /\ UNCHANGED lists /\ UNCHANGED <<count, waiters, Responsible>>
    BY <1>9 DEF ReenterWoken, TryLock, Taken, locals, owning, queues, waitSet, heirs, busy, Goto, frames
  <2>2. KeepsFrames(t)
    BY <2>1, SMTT(60) DEF KeepsFrames, Pcs, EnterPcs, SuccPcs, WaitPcs, RecAt, RecPcs, OwnKind, Owning, Inside, Goto
  <2>4. KeepsPlaces(t)
    BY <2>1, SMTT(60) DEF KeepsPlaces, Goto
  <2> QED BY <2>2, <2>4
<1>10. CASE Reentered(t)
  <2>1. /\ pc[t] = "reentered" /\ UNCHANGED <<owner, ret, exitTo, caller, wakee>> /\ recursions' = recursions
        /\ Goto(t, "waitDone")
        /\ TState' = [TState EXCEPT ![t] = "RUN"]
        /\ UNCHANGED <<count, waiters, Responsible>>
    BY <1>10 DEF Reentered, owning, locals, queues, waitSet, heirs, busy, Goto, frames
  <2>2. KeepsFrames(t)
    BY <2>1, SMTT(60) DEF KeepsFrames, Pcs, EnterPcs, SuccPcs, WaitPcs, RecAt, RecPcs, OwnKind, Owning, Inside, Goto
  <2>3. ListWriter(t)
    BY <1>10 DEF ListWriter
  <2>4. KeepsPlaces(t)
    BY <2>1, <2>3, SMTT(60) DEF KeepsPlaces, Goto
  <2> QED BY <2>2, <2>4
<1>11. CASE WaitDone(t)
  <2>1. /\ pc[t] = "waitDone" /\ UNCHANGED <<owner, ret, exitTo, caller, wakee>>
        /\ Goto(t, "in")
        /\ UNCHANGED lists
        /\ waiters' = waiters \ {t}
        /\ UNCHANGED <<count, Responsible>>
    BY <1>11 DEF WaitDone, owning, queues, waitSet, heirs, busy, Goto, frames
  <2>2. KeepsFrames(t)
    BY <2>1, SMTT(60) DEF KeepsFrames, Pcs, EnterPcs, SuccPcs, WaitPcs, RecAt, RecPcs, OwnKind, Owning, Inside, Goto
  <2>4. KeepsPlaces(t)
    BY <2>1, SMTT(60) DEF KeepsPlaces, Goto
  <2> QED BY <2>2, <2>4
<1>12. CASE Notify(t)
  <2>1. /\ pc[t] = "notify" /\ UNCHANGED <<owner, ret, exitTo, caller>> /\ recursions' = recursions
        /\ \/ wakee' = wakee /\ Goto(t, "in")
           \/ WaitSet # <<>> /\ Goto(t, "notifyMark") /\ wakee' = [wakee EXCEPT ![t] = Head(WaitSet)]
        /\ \/ TState' = TState
           \/ WaitSet # <<>> /\ TState' = [TState EXCEPT ![Head(WaitSet)] = "ENTER"]
        /\ UNCHANGED <<count, waiters, Responsible>>
    BY <1>12 DEF Notify, owning, queues, waitSet, heirs, busy, Goto, frames
  <2>2. KeepsFrames(t)
    BY <2>1, SMTT(60) DEF KeepsFrames, Pcs, EnterPcs, SuccPcs, WaitPcs, RecAt, RecPcs, OwnKind, Owning, Inside, Goto
  <2>3. ListWriter(t)
    BY <1>12 DEF ListWriter
  <2>4. KeepsPlaces(t)
    BY <2>1, <2>3, SMTT(60) DEF KeepsPlaces, Goto
  <2> QED BY <2>2, <2>4
<1>13. CASE NotifyMark(t)
  <2>1. /\ pc[t] = "notifyMark" /\ UNCHANGED <<owner, ret, exitTo, caller, wakee>> /\ recursions' = recursions
        /\ Goto(t, "notifyLink")
        /\ UNCHANGED lists /\ UNCHANGED <<count, waiters, Responsible>>
    BY <1>13 DEF NotifyMark, owning, locals, queues, waitSet, heirs, busy, Goto, frames
  <2>2. KeepsFrames(t)
    BY <2>1, SMTT(60) DEF KeepsFrames, Pcs, EnterPcs, SuccPcs, WaitPcs, RecAt, RecPcs, OwnKind, Owning, Inside, Goto
  <2>4. KeepsPlaces(t)
    BY <2>1, SMTT(60) DEF KeepsPlaces, Goto
  <2> QED BY <2>2, <2>4
<1>14. CASE NotifyLink(t)
  <2>1. /\ pc[t] = "notifyLink" /\ UNCHANGED <<owner, ret, exitTo, caller>> /\ wakee' = [wakee EXCEPT ![t] = NULL] /\ recursions' = recursions
        /\ Goto(t, "notify") \/ Goto(t, "in")
        /\ TState' = TState \/ TState' = [TState EXCEPT ![wakee[t]] = "CXQ"]
        /\ UNCHANGED <<count, waiters, Responsible>>
    BY <1>14 DEF NotifyLink, owning, queues, waitSet, heirs, busy, Goto, frames
  <2>2. KeepsFrames(t)
    BY <2>1, SMTT(60) DEF KeepsFrames, Pcs, EnterPcs, SuccPcs, WaitPcs, RecAt, RecPcs, OwnKind, Owning, Inside, Goto
  <2>3. ListWriter(t)
    BY <1>14 DEF ListWriter
  <2>4. KeepsPlaces(t)
    BY <2>1, <2>3, SMTT(60) DEF KeepsPlaces, Goto
  <2> QED BY <2>2, <2>4
<1> QED BY <1>1, <1>2, <1>3, <1>4, <1>5, <1>6, <1>7, <1>8, <1>9, <1>10, <1>11, <1>12, <1>13, <1>14 DEF WaitStep

-----------------------------------------------------------------------------
(* The types of the other variables, and who writes them.                  *)

SimpleTypes ==
  /\ WaitSetLock \in Threads \cup {NULL} /\ succ \in Threads \cup {NULL} /\ Responsible \in Threads \cup {NULL}
  /\ count \subseteq Threads /\ waiters \subseteq Threads /\ posting \subseteq Threads
  /\ notified \in [Threads -> BOOLEAN] /\ event \in [Threads -> {0, 1}]
  /\ suspended \in [Threads -> BOOLEAN] /\ interrupted \in [Threads -> BOOLEAN]
  /\ all \in [Threads -> BOOLEAN] /\ was \in [Threads -> BOOLEAN]

\* The variables that only are stored to keep their types.
LEMMA SimpleStep ==
  ASSUME SimpleTypes, FrameTypes, NEW t \in Threads, Call(t) \/ Step(t) \/ Outside(t)
  PROVE  SimpleTypes'
<1> USE DEF SimpleTypes, FrameTypes, waitSet, heirs, busy, outside, locals
<1>1. CASE Call(t)
  <2>1. CASE EnterCall(t) \/ RecursiveEnter(t)
    BY <2>1 DEF EnterCall, Enter, RecursiveEnter
  <2>2. CASE ExitCall(t) \/ FastExitCall(t) \/ CompleteExit(t) \/ WaitCall(t) \/ NotifyCall(t)
    BY <2>2 DEF ExitCall, FastExitCall, CompleteExit, WaitCall, NotifyCall
  <2> QED BY <1>1, <2>1, <2>2 DEF Call
<1>2. CASE EnterStep(t)
  <2>1. CASE SpunIn(t) \/ IncCount(t) \/ TryEnter(t) \/ Enqueue(t) \/ ReadEntry(t) \/ Claim(t)
    BY <2>1 DEF SpunIn, IncCount, TryEnter, Enqueue, ReadEntry, Claim
  <2>2. CASE Retry(t) \/ ChoosePark(t) \/ Park(t) \/ ParkTimeout(t) \/ Woken(t) \/ TestSucc(t)
    BY <2>2 DEF Retry, ChoosePark, Park, ParkTimeout, Woken, TestSucc
  <2>3. CASE ClearSucc(t) \/ Unlink(t) \/ DropResponsible(t) \/ Acquired(t) \/ DropSucc(t) \/ SuspendReturn(t)
    BY <2>3 DEF ClearSucc, Unlink, DropResponsible, Acquired, DropSucc, SuspendReturn
  <2> QED BY <1>2, <2>1, <2>2, <2>3 DEF EnterStep
<1>3. CASE SpinStep(t)
  BY <1>3 DEF SpinStep, SpinStart, SetSucc, Spin, SpinGiveUp, SpinAbort, AbortClear, AbortTry
<1>4. CASE ExitStep(t)
  <2>1. CASE Exit(t) \/ Release(t) \/ ReadList(t) \/ ReadCxq(t) \/ ReadSucc(t) \/ Reacquire(t)
    BY <2>1 DEF Exit, Release, ReadList, ReadCxq, ReadSucc, Reacquire
  <2>2. CASE Pick(t) \/ Drained(t) \/ SetHeir(t) \/ Drop(t) \/ Wake(t)
    BY <2>2 DEF Pick, Drained, SetHeir, Drop, Wake
  <2>3. CASE \/ FastList(t) \/ FastRelease(t) \/ FastSucc(t) \/ FastDrop(t) \/ FastRatify(t)
             \/ FastReacquire(t) \/ Reenter(t)
    BY <2>3 DEF FastList, FastRelease, FastSucc, FastDrop, FastRatify, FastReacquire, Reenter, Enter
  <2> QED BY <1>4, <2>1, <2>2, <2>3 DEF ExitStep
<1>5. CASE WaitStep(t)
  <2>1. CASE AddWaiter(t) \/ WaitTest(t) \/ WaitTState(t) \/ WaitUnlink(t) \/ ReadNotified(t)
    BY <2>1 DEF AddWaiter, WaitTest, WaitTState, WaitUnlink, ReadNotified
  <2>2. CASE WaitEnter(t) \/ ReenterTry(t) \/ ReenterSusp(t) \/ ReenterWoken(t) \/ Reentered(t)
    BY <2>2 DEF WaitEnter, Enter, ReenterTry, ReenterSusp, ReenterWoken, Reentered
  <2>3. CASE WaitDone(t) \/ Notify(t) \/ NotifyMark(t) \/ NotifyLink(t)
    BY <2>3 DEF WaitDone, Notify, NotifyMark, NotifyLink
  <2> QED BY <1>5, <2>1, <2>2, <2>3 DEF WaitStep
<1>6. CASE Outside(t)
  BY <1>6 DEF Outside, Suspend, Interrupt, InterruptUnpark
<1> QED BY <1>1, <1>2, <1>3, <1>4, <1>5, <1>6 DEF Step

\* The steps that change the lists and TState.
LEMMA ListWriters ==
  ASSUME NEW t \in Threads, Call(t) \/ Step(t) \/ Outside(t)
  PROVE  \/ Enqueue(t) \/ Unlink(t) \/ DropResponsible(t) \/ Pick(t) \/ AddWaiter(t) \/ WaitUnlink(t)
         \/ Reentered(t) \/ Notify(t) \/ NotifyLink(t)
         \/ UNCHANGED <<queues, WaitSet, WaitSetLock, TState>>
<1> USE DEF queues, waitSet
<1>1. CASE Call(t)
  BY <1>1 DEF Call, EnterCall, RecursiveEnter, ExitCall, FastExitCall, CompleteExit, WaitCall,
         NotifyCall, Enter
<1>2. CASE EnterStep(t)
  <2>1. CASE SpunIn(t) \/ IncCount(t) \/ TryEnter(t) \/ Enqueue(t) \/ ReadEntry(t) \/ Claim(t)
    BY <2>1 DEF SpunIn, IncCount, TryEnter, ReadEntry, Claim
  <2>2. CASE Retry(t) \/ ChoosePark(t) \/ Park(t) \/ ParkTimeout(t) \/ Woken(t) \/ TestSucc(t)
    BY <2>2 DEF Retry, ChoosePark, Park, ParkTimeout, Woken, TestSucc
  <2>3. CASE \/ ClearSucc(t) \/ Unlink(t) \/ DropResponsible(t) \/ Acquired(t) \/ DropSucc(t)
             \/ SuspendReturn(t)
    BY <2>3 DEF ClearSucc, Acquired, DropSucc, SuspendReturn
  <2> QED BY <1>2, <2>1, <2>2, <2>3 DEF EnterStep
<1>3. CASE SpinStep(t)
  BY <1>3 DEF SpinStep, SpinStart, SetSucc, Spin, SpinGiveUp, SpinAbort, AbortClear, AbortTry
<1>4. CASE ExitStep(t)
  <2>1. CASE Exit(t) \/ Release(t) \/ ReadList(t) \/ ReadCxq(t) \/ ReadSucc(t) \/ Reacquire(t)
    BY <2>1 DEF Exit, Release, ReadList, ReadCxq, ReadSucc, Reacquire
  <2>2. CASE Pick(t) \/ Drained(t) \/ SetHeir(t) \/ Drop(t) \/ Wake(t)
    BY <2>2 DEF Drained, SetHeir, Drop, Wake
  <2>3. CASE \/ FastList(t) \/ FastRelease(t) \/ FastSucc(t) \/ FastDrop(t) \/ FastRatify(t)
             \/ FastReacquire(t) \/ Reenter(t)
    BY <2>3 DEF FastList, FastRelease, FastSucc, FastDrop, FastRatify, FastReacquire, Reenter,
           Enter
  <2> QED BY <1>4, <2>1, <2>2, <2>3 DEF ExitStep
<1>5. CASE WaitStep(t)
  <2>1. CASE AddWaiter(t) \/ WaitTest(t) \/ WaitTState(t) \/ WaitUnlink(t) \/ ReadNotified(t)
    BY <2>1 DEF WaitTest, WaitTState, ReadNotified
  <2>2. CASE WaitEnter(t) \/ ReenterTry(t) \/ ReenterSusp(t) \/ ReenterWoken(t) \/ Reentered(t)
    BY <2>2 DEF WaitEnter, ReenterTry, ReenterSusp, ReenterWoken, Enter
  <2>3. CASE WaitDone(t) \/ Notify(t) \/ NotifyMark(t) \/ NotifyLink(t)
    BY <2>3 DEF WaitDone, NotifyMark
  <2> QED BY <1>5, <2>1, <2>2, <2>3 DEF WaitStep
<1>6. CASE Outside(t)
  BY <1>6 DEF Outside, Suspend, Interrupt, InterruptUnpark
<1> QED BY <1>1, <1>2, <1>3, <1>4, <1>5, <1>6 DEF Step

\* The steps that change _recursions or save it.
LEMMA RecWriters ==
  ASSUME NEW t \in Threads, Call(t) \/ Step(t) \/ Outside(t)
  PROVE  \/ EnterCall(t) \/ RecursiveEnter(t) \/ CompleteExit(t) \/ SpunIn(t) \/ Acquired(t) \/ Exit(t)
         \/ Reenter(t) \/ AddWaiter(t) \/ WaitEnter(t) \/ WaitDone(t)
         \/ UNCHANGED <<recursions, save>>
<1> USE DEF owning, locals
<1>1. CASE Call(t)
  BY <1>1 DEF Call, ExitCall, FastExitCall, WaitCall, NotifyCall
<1>2. CASE EnterStep(t)
  <2>1. CASE SpunIn(t) \/ IncCount(t) \/ TryEnter(t) \/ Enqueue(t) \/ ReadEntry(t) \/ Claim(t)
    BY <2>1 DEF IncCount, TryEnter, Enqueue, ReadEntry, Claim
  <2>2. CASE Retry(t) \/ ChoosePark(t) \/ Park(t) \/ ParkTimeout(t) \/ Woken(t) \/ TestSucc(t)
    BY <2>2 DEF Retry, ChoosePark, Park, ParkTimeout, Woken, TestSucc
  <2>3. CASE \/ ClearSucc(t) \/ Unlink(t) \/ DropResponsible(t) \/ Acquired(t) \/ DropSucc(t)
             \/ SuspendReturn(t)
    BY <2>3 DEF ClearSucc, Unlink, DropResponsible, DropSucc, SuspendReturn
  <2> QED BY <1>2, <2>1, <2>2, <2>3 DEF EnterStep
<1>3. CASE SpinStep(t)
  BY <1>3 DEF SpinStep, SpinStart, SetSucc, Spin, SpinGiveUp, SpinAbort, AbortClear, AbortTry
<1>4. CASE ExitStep(t)
  <2>1. CASE Exit(t) \/ Release(t) \/ ReadList(t) \/ ReadCxq(t) \/ ReadSucc(t) \/ Reacquire(t)
    BY <2>1 DEF Release, ReadList, ReadCxq, ReadSucc, Reacquire
  <2>2. CASE Pick(t) \/ Drained(t) \/ SetHeir(t) \/ Drop(t) \/ Wake(t)
    BY <2>2 DEF Pick, Drained, SetHeir, Drop, Wake
  <2>3. CASE \/ FastList(t) \/ FastRelease(t) \/ FastSucc(t) \/ FastDrop(t) \/ FastRatify(t)
             \/ FastReacquire(t) \/ Reenter(t)
    BY <2>3 DEF FastList, FastRelease, FastSucc, FastDrop, FastRatify, FastReacquire
  <2> QED BY <1>4, <2>1, <2>2, <2>3 DEF ExitStep
<1>5. CASE WaitStep(t)
  <2>1. CASE AddWaiter(t) \/ WaitTest(t) \/ WaitTState(t) \/ WaitUnlink(t) \/ ReadNotified(t)
    BY <2>1 DEF WaitTest, WaitTState, WaitUnlink, ReadNotified
  <2>2. CASE WaitEnter(t) \/ ReenterTry(t) \/ ReenterSusp(t) \/ ReenterWoken(t) \/ Reentered(t)
    BY <2>2 DEF ReenterTry, ReenterSusp, ReenterWoken, Reentered
  <2>3. CASE WaitDone(t) \/ Notify(t) \/ NotifyMark(t) \/ NotifyLink(t)
    BY <2>3 DEF Notify, NotifyMark, NotifyLink
  <2> QED BY <1>5, <2>1, <2>2, <2>3 DEF WaitStep
<1>6. CASE Outside(t)
  BY <1>6 DEF Outside, Suspend, Interrupt, InterruptUnpark
<1> QED BY <1>1, <1>2, <1>3, <1>4, <1>5, <1>6 DEF Step

\* _recursions stays within its bound, and so does what wait() saves of it.
LEMMA RecStep ==
  ASSUME recursions \in 0 .. MaxRec, save \in [Threads -> 0 .. MaxRec],
         NEW t \in Threads, Call(t) \/ Step(t) \/ Outside(t)
  PROVE  recursions' \in 0 .. MaxRec /\ save' \in [Threads -> 0 .. MaxRec]
<1>1. \/ recursions' \in {recursions, save[t], 0} /\ (save' = save \/ \E n \in {recursions, 0} : save' = [save EXCEPT ![t] = n])
      \/ recursions < MaxRec /\ recursions' = recursions + 1 /\ save' = save
      \/ recursions # 0 /\ recursions' = recursions - 1 /\ save' = save
  <2>1. CASE EnterCall(t) \/ Reenter(t) \/ WaitEnter(t)
    BY <2>1 DEF EnterCall, Reenter, WaitEnter, Enter, Entered, owning, locals
  <2>2. CASE SpunIn(t) \/ Acquired(t)
    BY <2>2 DEF SpunIn, Acquired, Entered
  <2>3. CASE RecursiveEnter(t) \/ CompleteExit(t) \/ Exit(t) \/ AddWaiter(t) \/ WaitDone(t)
    BY <2>3 DEF RecursiveEnter, CompleteExit, Exit, AddWaiter, WaitDone, locals
  <2> QED BY <2>1, <2>2, <2>3, RecWriters
<1> QED BY <1>1, SMTT(30), MonitorAssumption

ListTypes ==
  /\ cxq \in Seq(Threads) /\ EntryList \in Seq(Threads) /\ WaitSet \in Seq(Threads)
  /\ TState \in [Threads -> {"RUN", "WAIT", "ENTER", "CXQ"}]

\* Unlinking t takes t from a list and nobody else.
LEMMA WithoutFacts ==
  ASSUME NEW s \in Seq(Threads), NEW t \in Threads
  PROVE  /\ Without(s, t) \in Seq(Threads)
         /\ Injective(s) => In(Without(s, t)) = In(s) \ {t} /\ Injective(Without(s, t))
<1>1. CASE t \notin In(s)
  BY <1>1 DEF Without
<1>2. CASE t \in In(s)
  <2> DEFINE i == CHOOSE i \in DOMAIN s : s[i] = t
  <2>1. i \in DOMAIN s /\ s[i] = t
    BY <1>2 DEF In
  <2>2. Without(s, t) = Omit(s, i)
    BY <1>2 DEF Without
  <2> HIDE DEF i
  <2>3. Omit(s, i) \in Seq(Threads)
    BY <2>1, ListType
  <2>4. Injective(s) => In(Omit(s, i)) = In(s) \ {s[i]} /\ Injective(Omit(s, i))
    BY <2>1, OmitFacts
  <2> QED BY <2>1, <2>2, <2>3, <2>4
<1> QED BY <1>1, <1>2

\* The lists are lists of threads, and TState is one of four.
LEMMA ListTypeStep ==
  ASSUME ListTypes, FrameTypes, NEW t \in Threads, ControlOK(t), Call(t) \/ Step(t) \/ Outside(t)
  PROVE  ListTypes'
<1> USE DEF ListTypes
<1>1. CASE Enqueue(t)
  <2>1. cxq' = cxq \/ cxq' = <<t>> \o cxq
    BY <1>1 DEF Enqueue
  <2>2. UNCHANGED <<EntryList, WaitSet>> /\ (TState' = TState \/ TState' = [TState EXCEPT ![t] = "CXQ"])
    BY <1>1 DEF Enqueue, waitSet
  <2>3. <<t>> \o cxq \in Seq(Threads)
    BY ListType
  <2> QED BY <2>1, <2>2, <2>3
<1>2. CASE Unlink(t)
  BY <1>2, WithoutFacts DEF Unlink, waitSet
<1>3. CASE DropResponsible(t) \/ Reentered(t)
  BY <1>3 DEF DropResponsible, Reentered, queues, waitSet
<1>4. CASE Pick(t)
  <2>1. UNCHANGED <<cxq, EntryList>> \/ (cxq' = <<>> /\ EntryList' = cxq)
    BY <1>4 DEF Pick, queues
  <2>2. WaitSet' = WaitSet /\ TState' \in [Threads -> {"RUN", "WAIT", "ENTER", "CXQ"}]
    BY <1>4 DEF Pick, waitSet
  <2>3. <<>> \in Seq(Threads)
    BY SMTT(30)
  <2> QED BY <2>1, <2>2, <2>3
<1>5. CASE AddWaiter(t)
  <2>1. UNCHANGED <<cxq, EntryList>> /\ WaitSet' = Append(WaitSet, t) /\ TState' = [TState EXCEPT ![t] = "WAIT"]
    BY <1>5 DEF AddWaiter, queues
  <2> QED BY <2>1, SMTT(30)
<1>6. CASE WaitUnlink(t)
  BY <1>6, WithoutFacts DEF WaitUnlink, queues
<1>7. CASE Notify(t)
  <2>1. UNCHANGED <<cxq, EntryList>> /\ (WaitSet' = WaitSet \/ (WaitSet # <<>> /\ WaitSet' = Tail(WaitSet)))
    BY <1>7 DEF Notify, queues
  <2>2. TState' = TState \/ TState' = [TState EXCEPT ![Head(WaitSet)] = "ENTER"]
    BY <1>7 DEF Notify
  <2>3. WaitSet # <<>> => Tail(WaitSet) \in Seq(Threads)
    BY ListType
  <2> QED BY <2>1, <2>2, <2>3
<1>8. CASE NotifyLink(t)
  <2>1. wakee[t] \in Threads /\ WaitSet' = WaitSet
    BY <1>8 DEF NotifyLink, ControlOK
  <2>2. /\ EntryList' = EntryList \/ EntryList' = <<wakee[t]>>
        /\ cxq' = cxq \/ cxq' = <<wakee[t]>> \o cxq
        /\ TState' = TState \/ TState' = [TState EXCEPT ![wakee[t]] = "CXQ"]
    BY <1>8 DEF NotifyLink
  <2>3. <<wakee[t]>> \in Seq(Threads)
    BY <2>1, SMTT(30)
  <2>4. <<wakee[t]>> \o cxq \in Seq(Threads)
    BY <2>1, ListType
  <2> QED BY <2>1, <2>2, <2>3, <2>4
<1>9. CASE UNCHANGED <<queues, WaitSet, WaitSetLock, TState>>
  BY <1>9 DEF queues
<1> QED BY <1>1, <1>2, <1>3, <1>4, <1>5, <1>6, <1>7, <1>8, <1>9, ListWriters

\* The parts of the type invariant.
LEMMA TypeParts ==
  TypeOK <=> /\ FrameTypes /\ SimpleTypes /\ ListTypes
             /\ owner \in Threads \cup {NULL}
             /\ recursions \in 0 .. MaxRec /\ save \in [Threads -> 0 .. MaxRec]
BY DEF TypeOK, FrameTypes, SimpleTypes, ListTypes

\* A step of t and the control of all threads.
LEMMA FramesStep ==
  ASSUME ControlInv, NEW t \in Threads, Call(t) \/ Step(t)
  PROVE  /\ FrameTypes' /\ OwnKind(t) /\ (recursions' = recursions \/ owner' = t)
         /\ ControlOK(t)' /\ RecAt(t)'
         /\ (pc'[t] = "drained" => pc[t] = "pick") /\ (pc'[t] = "setHeir" => pc[t] \in {"pick", "drained"})
         /\ (Inside(t)' /\ ~Inside(t) => pc'[t] = "in") /\ (Inside(t) /\ ~Inside(t)' => owner' = NULL)
         /\ \A u \in Threads \ {t} :
              /\ pc'[u] = pc[u] /\ caller'[u] = caller[u] /\ exitTo'[u] = exitTo[u]
              /\ ret'[u] = ret[u] /\ wakee'[u] = wakee[u]
<1>1. FrameTypes /\ ListTypes
  BY TypeParts DEF ControlInv
<1>2. /\ WaitSet # <<>> => Head(WaitSet) \in Threads
      /\ EntryList # <<>> => Head(EntryList) \in Threads
  BY <1>1, ListType DEF ListTypes
<1>3. /\ ControlOK(t) /\ RecAt(t) /\ (Owning(t) <=> owner = t) /\ t # NULL
      /\ pc[t] = "drained" => EntryList # <<>>
  BY MonitorAssumption DEF ControlInv, OwnerExact, DrainedOK
<1>4. KeepsFrames(t)
  BY CallKeeps, EnterKeeps, SpinKeeps, ExitKeeps, WaitKeeps DEF Step
<1> QED BY <1>1, <1>2, <1>3, <1>4, OthersStep DEF KeepsFrames

\* Only the owner changes _EntryList.
LEMMA EntryListStep ==
  ASSUME NEW t \in Threads, Call(t) \/ Step(t), EntryList' # EntryList
  PROVE  Owning(t)
<1> USE DEF Owning, Inside, NotifyPcs
<1>1. CASE Enqueue(t) \/ DropResponsible(t) \/ AddWaiter(t) \/ WaitUnlink(t) \/ Reentered(t) \/ Notify(t)
  BY <1>1 DEF Enqueue, DropResponsible, AddWaiter, WaitUnlink, Reentered, Notify, queues
<1>2. CASE Unlink(t) \/ Pick(t) \/ NotifyLink(t)
  BY <1>2 DEF Unlink, Pick, NotifyLink
<1> QED BY <1>1, <1>2, ListWriters DEF queues

\* What a thread about to pick an heir does next.
LEMMA PickOnly ==
  ASSUME NEW t \in Threads, Call(t) \/ Step(t), pc[t] \in {"pick", "drained"}
  PROVE  (pc[t] = "pick" /\ Pick(t)) \/ (pc[t] = "drained" /\ Drained(t))
<1>1. CASE Call(t)
  BY <1>1 DEF Call, EnterCall, RecursiveEnter, ExitCall, FastExitCall, CompleteExit, WaitCall,
         NotifyCall
<1>2. CASE EnterStep(t)
  <2>1. CASE SpunIn(t) \/ IncCount(t) \/ TryEnter(t) \/ Enqueue(t) \/ ReadEntry(t) \/ Claim(t)
    BY <2>1 DEF SpunIn, IncCount, TryEnter, Enqueue, ReadEntry, Claim
  <2>2. CASE Retry(t) \/ ChoosePark(t) \/ Park(t) \/ ParkTimeout(t) \/ Woken(t) \/ TestSucc(t)
    BY <2>2 DEF Retry, ChoosePark, Park, ParkTimeout, Woken, TestSucc
  <2>3. CASE \/ ClearSucc(t) \/ Unlink(t) \/ DropResponsible(t) \/ Acquired(t) \/ DropSucc(t)
             \/ SuspendReturn(t)
    BY <2>3 DEF ClearSucc, Unlink, DropResponsible, Acquired, DropSucc, SuspendReturn
  <2> QED BY <1>2, <2>1, <2>2, <2>3 DEF EnterStep
<1>3. CASE SpinStep(t)
  BY <1>3 DEF SpinStep, SpinStart, SetSucc, Spin, SpinGiveUp, SpinAbort, AbortClear, AbortTry
<1>4. CASE ExitStep(t)
  <2>1. CASE Exit(t) \/ Release(t) \/ ReadList(t) \/ ReadCxq(t) \/ ReadSucc(t) \/ Reacquire(t)
    BY <2>1 DEF Exit, Release, ReadList, ReadCxq, ReadSucc, Reacquire
  <2>2. CASE Pick(t) \/ Drained(t) \/ SetHeir(t) \/ Drop(t) \/ Wake(t)
    BY <2>2 DEF Pick, Drained, SetHeir, Drop, Wake
  <2>3. CASE \/ FastList(t) \/ FastRelease(t) \/ FastSucc(t) \/ FastDrop(t) \/ FastRatify(t)
             \/ FastReacquire(t) \/ Reenter(t)
    BY <2>3 DEF FastList, FastRelease, FastSucc, FastDrop, FastRatify, FastReacquire, Reenter
  <2> QED BY <1>4, <2>1, <2>2, <2>3 DEF ExitStep
<1>5. CASE WaitStep(t)
  <2>1. CASE AddWaiter(t) \/ WaitTest(t) \/ WaitTState(t) \/ WaitUnlink(t) \/ ReadNotified(t)
    BY <2>1 DEF AddWaiter, WaitTest, WaitTState, WaitUnlink, ReadNotified
  <2>2. CASE WaitEnter(t) \/ ReenterTry(t) \/ ReenterSusp(t) \/ ReenterWoken(t) \/ Reentered(t)
    BY <2>2 DEF WaitEnter, ReenterTry, ReenterSusp, ReenterWoken, Reentered
  <2>3. CASE WaitDone(t) \/ Notify(t) \/ NotifyMark(t) \/ NotifyLink(t)
    BY <2>3 DEF WaitDone, Notify, NotifyMark, NotifyLink
  <2> QED BY <1>5, <2>1, <2>2, <2>3 DEF WaitStep
<1> QED BY <1>1, <1>2, <1>3, <1>4, <1>5 DEF Step

\* ... and nobody finds it empty who found it filled.
LEMMA DrainedStep ==
  ASSUME ControlInv, NEW t \in Threads, Call(t) \/ Step(t)
  PROVE  DrainedOK'
<1> SUFFICES ASSUME NEW u \in Threads, pc'[u] = "drained" PROVE EntryList' # <<>>
  BY DEF DrainedOK
<1>1. CASE u # t
  <2>1. pc[u] = "drained"
    BY <1>1, FramesStep
  <2>2. Owning(u) /\ EntryList # <<>>
    BY <2>1 DEF ControlInv, DrainedOK, Owning
  <2>3. ~Owning(t)
    BY <1>1, <2>2 DEF ControlInv, OwnerExact
  <2> QED BY <2>2, <2>3, EntryListStep
<1>2. CASE u = t
  <2>1. pc[t] = "pick"
    BY <1>2, FramesStep
  <2>2. Pick(t)
    BY <2>1, PickOnly
  <2>3. pc'[t] = "drained" /\ FrameTypes
    BY <1>2, TypeParts DEF ControlInv
  <2> QED BY <2>2, <2>3 DEF Pick, Goto, FrameTypes
<1> QED BY <1>1, <1>2


\* The control invariant is inductive.
LEMMA ControlStep == ControlInv /\ [Next]_vars => ControlInv'
<1> SUFFICES ASSUME ControlInv, [Next]_vars PROVE ControlInv'
  OBVIOUS
<1>0. /\ FrameTypes /\ SimpleTypes /\ ListTypes /\ owner \in Threads \cup {NULL}
      /\ recursions \in 0 .. MaxRec /\ save \in [Threads -> 0 .. MaxRec]
  BY TypeParts DEF ControlInv
<1>1. ASSUME NEW t \in Threads, Call(t) \/ Step(t) PROVE ControlInv'
  <2>1. FrameTypes' /\ OwnKind(t)
    BY <1>1, FramesStep
  <2>2. SimpleTypes'
    BY <1>0, <1>1, SimpleStep
  <2>3. ListTypes'
    BY <1>0, <1>1, ListTypeStep DEF ControlInv
  <2>4. recursions' \in 0 .. MaxRec /\ save' \in [Threads -> 0 .. MaxRec]
    BY <1>0, <1>1, RecStep
  <2>5. owner' \in Threads \cup {NULL}
    BY <1>0, <2>1 DEF OwnKind
  <2>6. TypeOK'
    BY <2>1, <2>2, <2>3, <2>4, <2>5 DEF TypeOK, FrameTypes, SimpleTypes, ListTypes
  <2>7. \A u \in Threads \ {t} : (Owning(u)' <=> Owning(u)) /\ (ControlOK(u)' <=> ControlOK(u))
    <3>1. \A u \in Threads \ {t} : pc'[u] = pc[u] /\ ret'[u] = ret[u] /\ exitTo'[u] = exitTo[u] /\ wakee'[u] = wakee[u]
      BY <1>1, FramesStep
    <3>2. \A u \in Threads \ {t} : Owning(u)' <=> Owning(u)
      BY <3>1 DEF Owning, Inside
    <3>3. \A u \in Threads \ {t} : ControlOK(u)' <=> ControlOK(u)
      BY <3>1 DEF ControlOK
    <3> QED BY <3>2, <3>3
  <2>8. OwnerExact'
    <3>1. OwnerExact /\ NULL \notin Threads
      BY MonitorAssumption DEF ControlInv
    <3>2. \A u \in Threads \ {t} : owner' = u <=> owner = u
      BY <2>1, <3>1 DEF OwnKind, OwnerExact
    <3>3. Owning(t)' <=> owner' = t
      BY <2>1, <3>1 DEF OwnKind, OwnerExact
    <3>4. ASSUME NEW u \in Threads PROVE Owning(u)' <=> owner' = u
      <4>1. CASE u = t
        BY <3>3, <4>1
      <4>2. CASE u # t
        BY <2>7, <3>1, <3>2, <4>2 DEF OwnerExact
      <4> QED BY <4>1, <4>2
    <3> QED BY <3>4 DEF OwnerExact
  <2>9. DrainedOK'
    BY <1>1, DrainedStep
  <2>10. \A u \in Threads : ControlOK(u)'
    BY <1>1, <2>7, FramesStep DEF ControlInv
  <2>11. ASSUME NEW u \in Threads PROVE RecAt(u)'
    <3>1. CASE u = t
      BY <1>1, <3>1, FramesStep
    <3>2. CASE u # t
      <4>1. RecAt(t)' /\ RecAt(u) /\ (recursions' = recursions \/ owner' = t) /\ pc'[u] = pc[u] /\ exitTo'[u] = exitTo[u]
        BY <1>1, <3>2, FramesStep DEF ControlInv
      <4>2. pc'[u] = "exit" => owner' = u
        BY <2>8 DEF OwnerExact, Owning, Inside
      <4>3. owner' = u => owner = u /\ recursions' = recursions
        BY <2>1, <3>2, <4>1, MonitorAssumption DEF OwnKind
      <4> QED BY <4>1, <4>2, <4>3 DEF RecAt
    <3> QED BY <3>1, <3>2
  <2>12. owner' = NULL => recursions' = 0
    BY <2>11 DEF RecAt
  <2> QED BY <2>6, <2>8, <2>9, <2>10, <2>11, <2>12 DEF ControlInv
<1>2. ASSUME NEW t \in Threads, Outside(t) PROVE ControlInv'
  <2>1. UNCHANGED <<owner, recursions, EntryList, pc, caller, exitTo, ret, wakee, save>>
    BY <1>2 DEF Outside, Suspend, Interrupt, InterruptUnpark, owning, queues, frames, locals
  <2>2. SimpleTypes' /\ ListTypes'
    BY <1>0, <1>2, SimpleStep, ListTypeStep DEF ControlInv
  <2>3. TypeOK'
    BY <1>0, <2>1, <2>2 DEF TypeOK, FrameTypes, SimpleTypes, ListTypes
  <2> QED BY <2>1, <2>3 DEF ControlInv, OwnerExact, Owning, Inside, DrainedOK, ControlOK, RecAt
<1>3. CASE UNCHANGED vars
  <2>1. UNCHANGED <<owning, queues, waitSet, TState, heirs, busy, event, outside, pc, frames, locals>>
    BY <1>3 DEF vars
  <2> QED BY <2>1 DEF ControlInv, TypeOK, OwnerExact, Owning, Inside, DrainedOK, ControlOK, RecAt,
               owning, queues, waitSet, heirs, busy, outside, frames, locals
<1> QED BY <1>1, <1>2, <1>3 DEF Next

LEMMA ControlInit == Init => ControlInv
<1> SUFFICES ASSUME Init PROVE ControlInv
  OBVIOUS
<1> USE DEF Init
<1>1. FrameTypes /\ SimpleTypes /\ owner \in Threads \cup {NULL}
  BY DEF FrameTypes, SimpleTypes, Pcs
<1>2. ListTypes /\ recursions \in 0 .. MaxRec /\ save \in [Threads -> 0 .. MaxRec]
  BY MonitorAssumption, SMTT(30) DEF ListTypes
<1>3. \A t \in Threads : ~Owning(t) /\ owner # t /\ ControlOK(t) /\ RecAt(t) /\ pc[t] # "drained"
  BY MonitorAssumption DEF Owning, Inside, NotifyPcs, ControlOK, SpinPcs, SuccTests, RecAt
<1> QED BY <1>1, <1>2, <1>3, TypeParts DEF ControlInv, OwnerExact, DrainedOK

LEMMA ControlAlways == Spec => []ControlInv
BY ControlInit, ControlStep, PTL DEF Spec

\* The variables have their types for any number of threads, calls and
\* recursions.
THEOREM TypeCorrect == Spec => []TypeOK
<1>1. ControlInv => TypeOK
  BY DEF ControlInv
<1> QED BY <1>1, ControlAlways, PTL

\* Whoever acts as the owner is the owner, and the owner is always such a
\* thread: enter(), exit() with its housekeeping, wait(), notify(),
\* complete_exit() and fast_unlock never lose the lock or give it to two.
THEOREM OwnerIsExact == Spec => []OwnerExact
<1>1. ControlInv => OwnerExact
  BY DEF ControlInv
<1> QED BY <1>1, ControlAlways, PTL

-----------------------------------------------------------------------------
(* The lists.                                                              *)

\* INotify is moving u.
Linking(u) == WaitSetLock \in Threads /\ wakee[WaitSetLock] = u

\* TState names the list a thread is on, and a thread that waits for its turn
\* is on one, or INotify is putting it there.
ListAt(u) ==
  /\ u \in In(WaitSet) <=> TState[u] = "WAIT"
  /\ u \in In(EntryList) => TState[u] = "ENTER"
  /\ u \in In(cxq) => TState[u] = "CXQ"
  /\ Linking(u) => TState[u] = "ENTER" /\ u \notin In(EntryList)
  /\ TState[u] \in {"ENTER", "CXQ"} /\ At(u) \notin Post => u \in In(EntryList) \/ u \in In(cxq) \/ Linking(u)
  /\ At(u) \in Post => u \notin In(EntryList) /\ u \notin In(cxq) /\ ~Linking(u)

Once == Injective(WaitSet) /\ Injective(EntryList) /\ Injective(cxq)

LockAt(u) == pc[u] \in Marking <=> WaitSetLock = u

ListInv == Once /\ \A u \in Threads : PlaceAt(u) /\ ListAt(u) /\ LockAt(u)

\* A step of t does not count, uncount or make responsible another thread.
LEMMA CountOthers ==
  ASSUME NEW t \in Threads, NULL \notin Threads, Call(t) \/ Step(t) \/ Outside(t)
  PROVE  \A u \in Threads \ {t} :
           /\ u \in count' <=> u \in count
           /\ u \in waiters' <=> u \in waiters
           /\ Responsible' = u => Responsible = u
<1> USE DEF heirs, busy
<1>1. CASE Call(t)
  BY <1>1 DEF Call, EnterCall, RecursiveEnter, ExitCall, FastExitCall, CompleteExit, WaitCall,
         NotifyCall, Enter
<1>2. CASE EnterStep(t)
  <2>1. CASE SpunIn(t) \/ IncCount(t) \/ TryEnter(t) \/ Enqueue(t) \/ ReadEntry(t) \/ Claim(t)
    BY <2>1 DEF SpunIn, IncCount, TryEnter, Enqueue, ReadEntry, Claim
  <2>2. CASE Retry(t) \/ ChoosePark(t) \/ Park(t) \/ ParkTimeout(t) \/ Woken(t) \/ TestSucc(t)
    BY <2>2 DEF Retry, ChoosePark, Park, ParkTimeout, Woken, TestSucc
  <2>3. CASE \/ ClearSucc(t) \/ Unlink(t) \/ DropResponsible(t) \/ Acquired(t) \/ DropSucc(t)
             \/ SuspendReturn(t)
    BY <2>3 DEF ClearSucc, Unlink, DropResponsible, Acquired, DropSucc, SuspendReturn
  <2> QED BY <1>2, <2>1, <2>2, <2>3 DEF EnterStep
<1>3. CASE SpinStep(t)
  BY <1>3 DEF SpinStep, SpinStart, SetSucc, Spin, SpinGiveUp, SpinAbort, AbortClear, AbortTry
<1>4. CASE ExitStep(t)
  <2>1. CASE Exit(t) \/ Release(t) \/ ReadList(t) \/ ReadCxq(t) \/ ReadSucc(t) \/ Reacquire(t)
    BY <2>1 DEF Exit, Release, ReadList, ReadCxq, ReadSucc, Reacquire
  <2>2. CASE Pick(t) \/ Drained(t) \/ SetHeir(t) \/ Drop(t) \/ Wake(t)
    BY <2>2 DEF Pick, Drained, SetHeir, Drop, Wake
  <2>3. CASE \/ FastList(t) \/ FastRelease(t) \/ FastSucc(t) \/ FastDrop(t) \/ FastRatify(t)
             \/ FastReacquire(t) \/ Reenter(t)
    BY <2>3 DEF FastList, FastRelease, FastSucc, FastDrop, FastRatify, FastReacquire, Reenter,
           Enter
  <2> QED BY <1>4, <2>1, <2>2, <2>3 DEF ExitStep
<1>5. CASE WaitStep(t)
  <2>1. CASE AddWaiter(t) \/ WaitTest(t) \/ WaitTState(t) \/ WaitUnlink(t) \/ ReadNotified(t)
    BY <2>1 DEF AddWaiter, WaitTest, WaitTState, WaitUnlink, ReadNotified
  <2>2. CASE WaitEnter(t) \/ ReenterTry(t) \/ ReenterSusp(t) \/ ReenterWoken(t) \/ Reentered(t)
    BY <2>2 DEF WaitEnter, ReenterTry, ReenterSusp, ReenterWoken, Reentered, Enter
  <2>3. CASE WaitDone(t) \/ Notify(t) \/ NotifyMark(t) \/ NotifyLink(t)
    BY <2>3 DEF WaitDone, Notify, NotifyMark, NotifyLink
  <2> QED BY <1>5, <2>1, <2>2, <2>3 DEF WaitStep
<1>6. CASE Outside(t)
  BY <1>6 DEF Outside, Suspend, Interrupt, InterruptUnpark
<1> QED BY <1>1, <1>2, <1>3, <1>4, <1>5, <1>6 DEF Step

\* The place of the others.
LEMMA AtOthers ==
  ASSUME ControlInv, NEW t \in Threads, Call(t) \/ Step(t)
  PROVE  \A u \in Threads \ {t} : At(u)' = At(u)
BY FramesStep DEF At

\* While a thread owns the monitor nobody else is in INotify.
LEMMA OwnerLinks ==
  ASSUME ControlInv, ListInv, NEW t \in Threads, Owning(t), pc[t] \notin Marking
  PROVE  WaitSetLock \notin Threads
<1>1. SUFFICES ASSUME WaitSetLock \in Threads PROVE FALSE
  OBVIOUS
<1>2. pc[WaitSetLock] \in Marking
  BY <1>1 DEF ListInv, LockAt
<1>3. Owning(WaitSetLock)
  BY <1>2 DEF Marking, Owning, Inside, NotifyPcs
<1>4. WaitSetLock = t
  BY <1>1, <1>3 DEF ControlInv, OwnerExact
<1> QED BY <1>2, <1>4

\* What a step of t keeps of its own place.
LEMMA PlaceStep ==
  ASSUME ControlInv, ListInv, NEW t \in Threads, Call(t) \/ Step(t)
  PROVE  PlaceAt(t)' /\ (Quiet(t) \/ ListWriter(t))
<1>1. FrameTypes /\ ListTypes /\ SimpleTypes
  BY TypeParts DEF ControlInv
<1>2. WaitSet # <<>> => Head(WaitSet) \in Threads /\ TState[Head(WaitSet)] = "WAIT"
  <2>1. WaitSet # <<>> => Head(WaitSet) \in Threads /\ Head(WaitSet) \in In(WaitSet)
    BY <1>1, ListType, TailFacts DEF ListTypes, ListInv, Once
  <2> QED BY <2>1 DEF ListInv, ListAt
<1>3. pc[t] = "notifyLink" => TState[wakee[t]] = "ENTER"
  <2>1. SUFFICES ASSUME pc[t] = "notifyLink" PROVE TState[wakee[t]] = "ENTER"
    OBVIOUS
  <2>2. WaitSetLock = t /\ wakee[t] \in Threads
    BY <2>1 DEF ControlInv, ControlOK, ListInv, LockAt, Marking
  <2> QED BY <2>2 DEF ListInv, ListAt, Linking
<1>4. /\ t # NULL /\ ControlOK(t) /\ PlaceAt(t) /\ (t \in In(cxq) => TState[t] = "CXQ")
      /\ pc[t] = "exit" /\ exitTo[t] # "out" => recursions = 0
      /\ TState \in [Threads -> {"RUN", "WAIT", "ENTER", "CXQ"}]
  BY <1>1, MonitorAssumption DEF ControlInv, RecAt, ListInv, ListAt, ListTypes
<1>5. KeepsPlaces(t)
  BY CallKeeps, EnterKeeps, SpinKeeps, ExitKeeps, WaitKeeps DEF Step
<1>6. PICK a, b : a = At(t) /\ b = At(t)'
  OBVIOUS
<1>7. AtIs(t, a) /\ AtIs(t, b)'
  BY <1>6, SMTT(30) DEF At, AtIs, SpinPcs, SuccTests, Exiting, ExitPcs
<1>8. PlaceIs(t, a)
  BY <1>4, <1>6 DEF PlaceAt
<1>9. PlaceIs(t, b)' /\ (QuietFrom(t, a, b) \/ ListWriter(t))
  BY <1>1, <1>2, <1>3, <1>4, <1>5, <1>7, <1>8 DEF KeepsPlaces
<1> QED BY <1>6, <1>9 DEF PlaceAt, Quiet

\* What a step of t may do to the TState of another thread: drain _cxq, or
\* notify, which only the owner does.
LEMMA StateOthers ==
  ASSUME ControlInv, ListInv, NEW t \in Threads, Call(t) \/ Step(t), NEW u \in Threads \ {t}
  PROVE  \/ TState'[u] = TState[u]
         \/ TState[u] = "CXQ" /\ TState'[u] = "ENTER"
         \/ TState[u] = "ENTER" /\ TState'[u] = "CXQ"
         \/ TState[u] = "WAIT" /\ TState'[u] = "ENTER" /\ owner = t
<1>1. ListTypes /\ ListAt(u)
  BY TypeParts DEF ControlInv, ListInv
<1>2. CASE Quiet(t) \/ Unlink(t)
  BY <1>2 DEF Quiet, QuietFrom, lists, Unlink
<1>3. CASE Enqueue(t) \/ DropResponsible(t) \/ AddWaiter(t) \/ WaitUnlink(t) \/ Reentered(t)
  BY <1>1, <1>3 DEF Enqueue, DropResponsible, AddWaiter, WaitUnlink, Reentered, ListTypes
<1>4. CASE Pick(t)
  BY <1>1, <1>4 DEF Pick, ListAt
<1>5. CASE Notify(t)
  <2>1. owner = t
    BY <1>5 DEF Notify, ControlInv, OwnerExact, Owning, Inside, NotifyPcs
  <2>2. TState' = TState \/ (WaitSet # <<>> /\ TState' = [TState EXCEPT ![Head(WaitSet)] = "ENTER"])
    BY <1>5 DEF Notify
  <2>3. WaitSet # <<>> => Head(WaitSet) \in In(WaitSet)
    BY <1>1, TailFacts DEF ListTypes, ListInv, Once
  <2> QED BY <1>1, <2>1, <2>2, <2>3 DEF ListAt, ListTypes
<1>6. CASE NotifyLink(t)
  <2>1. WaitSetLock = t
    BY <1>6 DEF NotifyLink, ListInv, LockAt, Marking
  <2>2. TState' = TState \/ TState' = [TState EXCEPT ![wakee[t]] = "CXQ"]
    BY <1>6 DEF NotifyLink
  <2> QED BY <1>1, <2>1, <2>2 DEF ListAt, Linking, ListTypes
<1> QED BY <1>2, <1>3, <1>4, <1>5, <1>6, PlaceStep DEF ListWriter

\* The places of the others stay in agreement.
LEMMA PlaceOthers ==
  ASSUME ControlInv, ListInv, NEW t \in Threads, Call(t) \/ Step(t), NEW u \in Threads \ {t}
  PROVE  PlaceAt(u)'
<1>1. At(u)' = At(u) /\ pc'[u] = pc[u] /\ caller'[u] = caller[u]
  BY AtOthers, FramesStep
<1>2. /\ u \in count' <=> u \in count
      /\ u \in waiters' <=> u \in waiters
      /\ Responsible' = u => Responsible = u
  BY CountOthers, MonitorAssumption
<1>3. pc[u] \in {"exit", "release"} => owner = u
  BY DEF ControlInv, OwnerExact, Owning, Inside
<1>4. PlaceAt(u)
  BY DEF ListInv
<1>5. At(u) \in Wait1 => At(u) \notin RunPlaces \cup QueuePlaces \cup ReenterPlaces \cup Wait2
  BY SMTT(60) DEF Wait1, Wait2, RunPlaces, QueuePlaces, ReenterPlaces, ReenterPcs, NotifyPcs, FastPcs, EnterPlaces, CountedPlaces
<1>6. At(u) \notin Wait1 => TState[u] # "WAIT"
  BY <1>4 DEF PlaceAt, PlaceIs, Places
<1>7. CASE TState'[u] = TState[u]
  BY <1>1, <1>2, <1>4, <1>7 DEF PlaceAt, PlaceIs
<1>8. CASE TState[u] \in {"ENTER", "CXQ"} /\ TState'[u] \in {"ENTER", "CXQ"}
  <2>1. At(u) \notin RunPlaces
    BY <1>4, <1>8 DEF PlaceAt, PlaceIs
  <2>2. ~(At(u) \in Wait1 /\ pc[u] \in {"exit", "release"})
    BY <1>4, <1>8 DEF PlaceAt, PlaceIs
  <2>3. TState'[u] # "WAIT" /\ TState'[u] # "RUN"
    BY <1>8
  <2> QED BY <1>1, <1>2, <1>4, <1>8, <2>1, <2>2, <2>3 DEF PlaceAt, PlaceIs
<1>9. CASE TState[u] = "WAIT" /\ TState'[u] = "ENTER" /\ owner = t
  <2>1. At(u) \in Wait1 /\ At(u) \notin RunPlaces /\ At(u) \notin Wait2 /\ pc[u] \notin {"exit", "release"}
    BY <1>3, <1>5, <1>6, <1>9
  <2> QED BY <1>1, <1>2, <1>4, <1>9, <2>1 DEF PlaceAt, PlaceIs
<1> QED BY <1>7, <1>8, <1>9, StateOthers

\* What the lists look like after a step, for one thread.
KeepsList(u) == ListAt(u)' /\ LockAt(u)'

\* A step that changes no list.
LEMMA QuietLists ==
  ASSUME ControlInv, ListInv, NEW t \in Threads, Call(t) \/ Step(t), Quiet(t)
  PROVE  Once' /\ \A u \in Threads : KeepsList(u)
<1>1. UNCHANGED <<cxq, EntryList, WaitSet, WaitSetLock, TState>>
  BY DEF Quiet, QuietFrom, lists
<1>2. WaitSetLock \in Threads => wakee'[WaitSetLock] = wakee[WaitSetLock]
  <2>1. CASE WaitSetLock = t
    BY <2>1 DEF Quiet, QuietFrom, ListInv, LockAt
  <2>2. CASE WaitSetLock # t
    BY <2>2, FramesStep
  <2> QED BY <2>1, <2>2
<1>3. ASSUME NEW u \in Threads PROVE (At(u)' \in Post <=> At(u) \in Post) /\ (pc'[u] \in Marking <=> pc[u] \in Marking)
  <2>1. CASE u = t
    BY <2>1 DEF Quiet, QuietFrom
  <2>2. CASE u # t
    BY <2>2, AtOthers, FramesStep
  <2> QED BY <2>1, <2>2
<1>4. ASSUME NEW u \in Threads PROVE KeepsList(u)
  <2>1. ListAt(u) /\ LockAt(u)
    BY DEF ListInv
  <2>2. Linking(u)' <=> Linking(u)
    BY <1>1, <1>2 DEF Linking
  <2>3. ListAt(u)'
    BY <1>1, <1>3, <2>1, <2>2 DEF ListAt
  <2>4. LockAt(u)'
    BY <1>1, <1>3, <2>1 DEF LockAt
  <2> QED BY <2>3, <2>4 DEF KeepsList
<1>5. Once'
  BY <1>1 DEF ListInv, Once
<1> QED BY <1>4, <1>5

\* A step that neither takes nor drops _WaitSetLock.
LEMMA LockKept ==
  ASSUME ControlInv, ListInv, NEW t \in Threads, Call(t) \/ Step(t),
         WaitSetLock' = WaitSetLock, pc[t] \notin Marking, pc'[t] \notin Marking
  PROVE  \A u \in Threads : LockAt(u)' /\ (Linking(u)' <=> Linking(u))
<1>1. WaitSetLock # t
  BY DEF ListInv, LockAt
<1>2. ASSUME NEW u \in Threads PROVE LockAt(u)'
  <2>1. CASE u = t
    BY <1>1, <2>1 DEF LockAt
  <2>2. CASE u # t
    BY <2>2, FramesStep DEF ListInv, LockAt
  <2> QED BY <2>1, <2>2
<1>3. WaitSetLock \in Threads => wakee'[WaitSetLock] = wakee[WaitSetLock]
  BY <1>1, FramesStep
<1> QED BY <1>2, <1>3 DEF Linking

\* A step that changes the lists and TState only for t.
LEMMA OwnLists ==
  ASSUME ControlInv, ListInv, NEW t \in Threads, Call(t) \/ Step(t),
         \A u \in Threads \ {t} :
           /\ u \in In(WaitSet)' <=> u \in In(WaitSet)
           /\ u \in In(EntryList)' <=> u \in In(EntryList)
           /\ u \in In(cxq)' <=> u \in In(cxq)
           /\ TState'[u] = TState[u]
           /\ Linking(u)' <=> Linking(u)
  PROVE  \A u \in Threads \ {t} : ListAt(u)'
BY AtOthers DEF ListInv, ListAt

\* Enqueue pushes a thread that was on no list.
LEMMA EnqueueLists ==
  ASSUME ControlInv, ListInv, NEW t \in Threads, Enqueue(t)
  PROVE  Once' /\ \A u \in Threads : KeepsList(u)
<1>0. Step(t) /\ ListTypes /\ FrameTypes /\ PlaceAt(t) /\ ListAt(t) /\ Once
  BY TypeParts DEF Step, EnterStep, ControlInv, ListInv
<1>1. pc[t] = "enqueue" /\ At(t) = "enqueue"
  BY DEF Enqueue, At, SpinPcs, SuccTests, Exiting, ExitPcs
<1>2. pc'[t] \in {"readEntry", "retry", "acquired"}
  BY <1>0 DEF Enqueue, Goto, FrameTypes
<1>3. At(t)' \notin Post /\ pc[t] \notin Marking /\ pc'[t] \notin Marking /\ At(t) \notin Post
  BY <1>1, <1>2 DEF At, SpinPcs, SuccTests, Exiting, ExitPcs, Post, Marking
<1>4. CASE UNCHANGED <<cxq, TState>>
  BY <1>0, <1>3, <1>4, QuietLists DEF Quiet, QuietFrom, lists, Enqueue, waitSet
<1>5. CASE cxq' = <<t>> \o cxq /\ TState' = [TState EXCEPT ![t] = "CXQ"]
  <2>1. TState[t] = "RUN"
    BY <1>0, <1>1 DEF PlaceAt, PlaceIs, RunPlaces, EnterPlaces, CountedPlaces, QueuePlaces
  <2>2. UNCHANGED <<EntryList, WaitSet, WaitSetLock>>
    BY DEF Enqueue, waitSet
  <2>3. t \notin In(cxq) /\ t \notin In(EntryList) /\ t \notin In(WaitSet) /\ ~Linking(t)
    BY <1>0, <2>1 DEF ListAt
  <2>4. In(cxq') = In(cxq) \cup {t} /\ Injective(cxq')
    BY <1>0, <1>5, <2>3, PushFacts, SMTT(30) DEF ListTypes, Once
  <2>5. \A u \in Threads : LockAt(u)' /\ (Linking(u)' <=> Linking(u))
    BY <1>0, <1>3, <2>2, LockKept
  <2>6. \A u \in Threads \ {t} : TState'[u] = TState[u]
    BY <1>0, <1>5 DEF ListTypes
  <2>7. \A u \in Threads \ {t} : ListAt(u)'
    BY <1>0, <2>2, <2>4, <2>5, <2>6, OwnLists
  <2>8. TState'[t] = "CXQ" /\ t \in In(cxq')
    BY <1>0, <1>5, <2>4 DEF ListTypes
  <2>9. ListAt(t)'
    BY <1>3, <2>2, <2>3, <2>5, <2>8 DEF ListAt
  <2>10. Once'
    BY <1>0, <2>2, <2>4 DEF Once
  <2> QED BY <2>5, <2>7, <2>9, <2>10 DEF KeepsList
<1> QED BY <1>4, <1>5 DEF Enqueue

\* UnlinkAfterAcquire takes the owner off the list that its TState names, and
\* it was on no other.
LEMMA UnlinkLists ==
  ASSUME ControlInv, ListInv, NEW t \in Threads, Unlink(t)
  PROVE  Once' /\ \A u \in Threads : KeepsList(u)
<1>0. Step(t) /\ ListTypes /\ FrameTypes /\ PlaceAt(t) /\ ListAt(t) /\ Once
  BY TypeParts DEF Step, EnterStep, ControlInv, ListInv
<1>1. /\ pc[t] \in {"unlink", "reunlink"} /\ At(t) = pc[t] /\ Owning(t)
      /\ UNCHANGED <<WaitSet, WaitSetLock, TState>>
  BY DEF Unlink, waitSet, At, SpinPcs, SuccTests, Exiting, ExitPcs, Owning
<1>2. pc'[t] = "testSucc" /\ ret'[t] \in {"responsible", "reentered"}
  BY <1>0 DEF Unlink, Goto, FrameTypes
<1>3. At(t)' \in Post /\ pc[t] \notin Marking /\ pc'[t] \notin Marking
  BY <1>1, <1>2 DEF At, SuccTests, Post, Marking
<1>4. \A u \in Threads : LockAt(u)' /\ (Linking(u)' <=> Linking(u))
  BY <1>0, <1>1, <1>3, LockKept
<1>5. ~Linking(t)
  BY <1>1, <1>3, OwnerLinks DEF Linking
<1>6. TState[t] \in {"ENTER", "CXQ"} /\ t \notin In(WaitSet)
  BY <1>0, <1>1 DEF PlaceAt, PlaceIs, QueuePlaces, ReenterPlaces, ListAt
<1>7. /\ In(EntryList') = In(EntryList) \ {t} /\ Injective(EntryList')
      /\ In(cxq') = In(cxq) \ {t} /\ Injective(cxq')
  <2>1. CASE TState[t] = "ENTER"
    <3>1. EntryList' = Without(EntryList, t) /\ cxq' = cxq /\ t \notin In(cxq)
      BY <1>0, <2>1 DEF Unlink, ListAt
    <3> QED BY <1>0, <3>1, WithoutFacts DEF ListTypes, Once
  <2>2. CASE TState[t] # "ENTER"
    <3>1. cxq' = Without(cxq, t) /\ EntryList' = EntryList /\ t \notin In(EntryList)
      BY <1>0, <2>2 DEF Unlink, ListAt
    <3> QED BY <1>0, <3>1, WithoutFacts DEF ListTypes, Once
  <2> QED BY <2>1, <2>2
<1>8. \A u \in Threads \ {t} : ListAt(u)'
  BY <1>0, <1>1, <1>4, <1>7, OwnLists
<1>9. ListAt(t)'
  BY <1>1, <1>3, <1>4, <1>5, <1>6, <1>7 DEF ListAt
<1>10. Once'
  BY <1>0, <1>1, <1>7 DEF Once
<1> QED BY <1>4, <1>8, <1>9, <1>10 DEF KeepsList

\* EnterI and ReenterI mark a thread as running when it is off the lists.
LEMMA RunLists ==
  ASSUME ControlInv, ListInv, NEW t \in Threads, DropResponsible(t) \/ Reentered(t)
  PROVE  Once' /\ \A u \in Threads : KeepsList(u)
<1>0. Step(t) /\ ListTypes /\ FrameTypes /\ PlaceAt(t) /\ ListAt(t) /\ Once
  BY TypeParts DEF Step, EnterStep, WaitStep, ControlInv, ListInv
<1>1. /\ pc[t] \in {"responsible", "reentered"}
      /\ UNCHANGED <<cxq, EntryList, WaitSet, WaitSetLock>> /\ TState' = [TState EXCEPT ![t] = "RUN"]
  BY DEF DropResponsible, Reentered, queues, waitSet
<1>2. At(t) \in Post
  BY <1>1 DEF At, SpinPcs, SuccTests, Exiting, ExitPcs, Post
<1>3. pc'[t] \in {"acquired", "waitDone"}
  BY <1>0 DEF DropResponsible, Reentered, Goto, FrameTypes
<1>4. At(t)' \notin Post /\ pc[t] \notin Marking /\ pc'[t] \notin Marking
  BY <1>1, <1>3 DEF At, SpinPcs, SuccTests, Exiting, ExitPcs, Post, Marking
<1>5. \A u \in Threads : LockAt(u)' /\ (Linking(u)' <=> Linking(u))
  BY <1>0, <1>1, <1>4, LockKept
<1>6. t \notin In(cxq) /\ t \notin In(EntryList) /\ ~Linking(t)
  BY <1>0, <1>2 DEF ListAt
<1>7. t \notin In(WaitSet)
  BY <1>0, <1>2 DEF PlaceAt, PlaceIs, Post, QueuePlaces, ReenterPlaces, ReenterPcs, ListAt
<1>8. TState'[t] = "RUN" /\ \A u \in Threads \ {t} : TState'[u] = TState[u]
  BY <1>0, <1>1 DEF ListTypes
<1>9. \A u \in Threads \ {t} : ListAt(u)'
  BY <1>0, <1>1, <1>5, <1>8, OwnLists
<1>10. ListAt(t)'
  BY <1>1, <1>4, <1>5, <1>6, <1>7, <1>8 DEF ListAt
<1>11. Once'
  BY <1>0, <1>1 DEF Once
<1> QED BY <1>5, <1>9, <1>10, <1>11 DEF KeepsList

\* The owner drains _cxq into an empty _EntryList.
LEMMA PickLists ==
  ASSUME ControlInv, ListInv, NEW t \in Threads, Pick(t)
  PROVE  Once' /\ \A u \in Threads : KeepsList(u)
<1>0. Step(t) /\ ListTypes /\ FrameTypes /\ Once
  BY TypeParts DEF Step, ExitStep, ControlInv, ListInv
<1>1. pc[t] = "pick" /\ Owning(t) /\ UNCHANGED <<WaitSet, WaitSetLock, exitTo>>
  BY DEF Pick, waitSet, frames, Owning
<1>2. pc'[t] \in {"setHeir", "rerelease", "drained"}
  BY <1>0 DEF Pick, Goto, FrameTypes
<1>3. At(t)' = At(t) /\ pc[t] \notin Marking /\ pc'[t] \notin Marking
  BY <1>1, <1>2 DEF At, SpinPcs, SuccTests, Exiting, ExitPcs, Marking
<1>4. CASE UNCHANGED <<queues, TState>>
  BY <1>0, <1>1, <1>3, <1>4, QuietLists DEF Quiet, QuietFrom, lists, queues
<1>5. CASE /\ EntryList = <<>> /\ EntryList' = cxq /\ cxq' = <<>>
           /\ TState' = [u \in Threads |-> IF u \in In(cxq) THEN "ENTER" ELSE TState[u]]
  <2>1. \A u \in Threads : LockAt(u)' /\ (Linking(u)' <=> Linking(u))
    BY <1>0, <1>1, <1>3, LockKept
  <2>2. \A u \in Threads : ~Linking(u)
    BY <1>1, <1>3, OwnerLinks DEF Linking
  <2>3. In(EntryList) = {} /\ In(cxq') = {} /\ Injective(cxq') /\ In(EntryList') = In(cxq)
    BY <1>5, SMTT(30) DEF In, Injective
  <2>4. ASSUME NEW u \in Threads PROVE ListAt(u)'
    <3>1. ListAt(u) /\ (At(u)' \in Post <=> At(u) \in Post)
      BY <1>0, <1>3, AtOthers DEF ListInv
    <3>2. CASE u \in In(cxq)
      BY <1>1, <1>5, <2>1, <2>2, <2>3, <3>1, <3>2 DEF ListAt
    <3>3. CASE u \notin In(cxq)
      BY <1>1, <1>5, <2>1, <2>2, <2>3, <3>1, <3>3 DEF ListAt
    <3> QED BY <3>2, <3>3
  <2>5. Once'
    BY <1>0, <1>1, <1>5, <2>3 DEF Once
  <2> QED BY <2>1, <2>4, <2>5 DEF KeepsList
<1> QED BY <1>4, <1>5 DEF Pick

\* wait() puts a running thread on the wait set.
LEMMA AddWaiterLists ==
  ASSUME ControlInv, ListInv, NEW t \in Threads, AddWaiter(t)
  PROVE  Once' /\ \A u \in Threads : KeepsList(u)
<1>0. Step(t) /\ ListTypes /\ FrameTypes /\ PlaceAt(t) /\ ListAt(t) /\ Once
  BY TypeParts DEF Step, WaitStep, ControlInv, ListInv
<1>1. /\ pc[t] = "addWaiter" /\ UNCHANGED <<cxq, EntryList, WaitSetLock>>
      /\ WaitSet' = Append(WaitSet, t) /\ TState' = [TState EXCEPT ![t] = "WAIT"]
  BY DEF AddWaiter, queues
<1>2. TState[t] = "RUN"
  BY <1>0, <1>1 DEF PlaceAt, PlaceIs, At, SpinPcs, SuccTests, Exiting, ExitPcs, RunPlaces
<1>3. pc'[t] = "exit" /\ exitTo'[t] = "waitIntr"
  BY <1>0 DEF AddWaiter, Goto, FrameTypes
<1>4. At(t)' \notin Post /\ pc[t] \notin Marking /\ pc'[t] \notin Marking
  BY <1>1, <1>3 DEF At, SpinPcs, SuccTests, Exiting, ExitPcs, Post, Marking
<1>5. \A u \in Threads : LockAt(u)' /\ (Linking(u)' <=> Linking(u))
  BY <1>0, <1>1, <1>4, LockKept
<1>6. t \notin In(cxq) /\ t \notin In(EntryList) /\ t \notin In(WaitSet) /\ ~Linking(t)
  BY <1>0, <1>2 DEF ListAt
<1>7. In(WaitSet') = In(WaitSet) \cup {t} /\ Injective(WaitSet')
  BY <1>0, <1>1, <1>6, AppendFacts, SMTT(30) DEF ListTypes, Once
<1>8. TState'[t] = "WAIT" /\ \A u \in Threads \ {t} : TState'[u] = TState[u]
  BY <1>0, <1>1 DEF ListTypes
<1>9. \A u \in Threads \ {t} : ListAt(u)'
  BY <1>0, <1>1, <1>5, <1>7, <1>8, OwnLists
<1>10. ListAt(t)'
  BY <1>1, <1>4, <1>5, <1>6, <1>7, <1>8 DEF ListAt
<1>11. Once'
  BY <1>0, <1>1, <1>7 DEF Once
<1> QED BY <1>5, <1>9, <1>10, <1>11 DEF KeepsList

\* A waiter that still finds itself on the wait set takes itself off.
LEMMA WaitUnlinkLists ==
  ASSUME ControlInv, ListInv, NEW t \in Threads, WaitUnlink(t)
  PROVE  Once' /\ \A u \in Threads : KeepsList(u)
<1>0. Step(t) /\ ListTypes /\ FrameTypes /\ PlaceAt(t) /\ ListAt(t) /\ Once
  BY TypeParts DEF Step, WaitStep, ControlInv, ListInv
<1>1. pc[t] = "waitUnlink" /\ UNCHANGED <<cxq, EntryList, WaitSetLock>>
  BY DEF WaitUnlink, queues
<1>2. pc'[t] = "testSucc" /\ ret'[t] = "readNotified"
  BY <1>0 DEF WaitUnlink, Goto, FrameTypes
<1>3. At(t)' \notin Post /\ At(t) \notin Post /\ pc[t] \notin Marking /\ pc'[t] \notin Marking
  BY <1>1, <1>2 DEF At, SpinPcs, SuccTests, Exiting, ExitPcs, Post, Marking
<1>4. CASE UNCHANGED <<WaitSet, TState>>
  BY <1>0, <1>1, <1>3, <1>4, QuietLists DEF Quiet, QuietFrom, lists
<1>5. CASE TState[t] = "WAIT" /\ WaitSet' = Without(WaitSet, t) /\ TState' = [TState EXCEPT ![t] = "RUN"]
  <2>1. \A u \in Threads : LockAt(u)' /\ (Linking(u)' <=> Linking(u))
    BY <1>0, <1>1, <1>3, LockKept
  <2>2. t \notin In(cxq) /\ t \notin In(EntryList) /\ ~Linking(t)
    BY <1>0, <1>5 DEF ListAt
  <2>3. In(WaitSet') = In(WaitSet) \ {t} /\ Injective(WaitSet')
    BY <1>0, <1>5, WithoutFacts DEF ListTypes, Once
  <2>4. TState'[t] = "RUN" /\ \A u \in Threads \ {t} : TState'[u] = TState[u]
    BY <1>0, <1>5 DEF ListTypes
  <2>5. \A u \in Threads \ {t} : ListAt(u)'
    BY <1>0, <1>1, <2>1, <2>3, <2>4, OwnLists
  <2>6. ListAt(t)'
    BY <1>1, <1>3, <2>1, <2>2, <2>3, <2>4 DEF ListAt
  <2>7. Once'
    BY <1>0, <1>1, <2>3 DEF Once
  <2> QED BY <2>1, <2>5, <2>6, <2>7 DEF KeepsList
<1> QED BY <1>4, <1>5 DEF WaitUnlink

\* INotify takes the first waiter off the wait set.
LEMMA NotifyLists ==
  ASSUME ControlInv, ListInv, NEW t \in Threads, Notify(t)
  PROVE  Once' /\ \A u \in Threads : KeepsList(u)
<1>0. Step(t) /\ ListTypes /\ FrameTypes /\ PlaceAt(t) /\ ListAt(t) /\ Once /\ NULL \notin Threads
  BY TypeParts, MonitorAssumption DEF Step, WaitStep, ControlInv, ListInv
<1>1. pc[t] = "notify" /\ WaitSetLock = NULL /\ UNCHANGED <<cxq, EntryList>>
  BY DEF Notify, queues
<1>2. pc'[t] \in {"in", "notifyMark"}
  BY <1>0 DEF Notify, Goto, FrameTypes
<1>3. At(t)' = pc'[t] /\ At(t) = pc[t]
  BY <1>1, <1>2 DEF At, SpinPcs, SuccTests, Exiting, ExitPcs
<1>4. At(t)' \notin Post /\ At(t) \notin Post /\ pc[t] \notin Marking
  BY <1>1, <1>2, <1>3 DEF Post, Marking
<1>5. CASE UNCHANGED <<WaitSet, WaitSetLock, TState>> /\ Goto(t, "in")
  <2>1. pc'[t] \notin Marking
    BY <1>0, <1>5 DEF Goto, FrameTypes, Marking
  <2> QED BY <1>0, <1>1, <1>4, <1>5, <2>1, QuietLists DEF Quiet, QuietFrom, lists
<1>6. CASE /\ WaitSet # <<>> /\ WaitSetLock' = t /\ wakee' = [wakee EXCEPT ![t] = Head(WaitSet)]
           /\ WaitSet' = Tail(WaitSet) /\ TState' = [TState EXCEPT ![Head(WaitSet)] = "ENTER"]
           /\ Goto(t, "notifyMark")
  <2>1. PICK h \in Threads : h = Head(WaitSet) /\ h \in In(WaitSet)
    BY <1>0, <1>6, ListType, TailFacts DEF ListTypes, Once
  <2>2. In(WaitSet') = In(WaitSet) \ {h} /\ Injective(WaitSet')
    BY <1>0, <1>6, <2>1, TailFacts DEF ListTypes, Once
  <2>3. wakee'[t] = h /\ TState'[h] = "ENTER" /\ \A u \in Threads \ {h} : TState'[u] = TState[u]
    BY <1>0, <1>6, <2>1 DEF ListTypes, FrameTypes
  <2>4. TState[t] = "RUN" /\ TState[h] = "WAIT"
    BY <1>0, <1>1, <1>3, <2>1 DEF PlaceAt, PlaceIs, RunPlaces, NotifyPcs, ListInv, ListAt
  <2>5. \A u \in Threads : Linking(u)' <=> u = h
    BY <1>6, <2>3 DEF Linking
  <2>6. \A u \in Threads : ~Linking(u)
    BY <1>0, <1>1 DEF Linking
  <2>7. ASSUME NEW u \in Threads PROVE LockAt(u)'
    <3>1. CASE u = t
      BY <1>0, <1>6, <3>1 DEF LockAt, Marking, Goto, FrameTypes
    <3>2. CASE u # t
      BY <1>0, <1>1, <1>6, <3>2, FramesStep DEF ListInv, LockAt
    <3> QED BY <3>1, <3>2
  <2>8. \A u \in Threads : At(u)' \in Post <=> At(u) \in Post
    BY <1>0, <1>4, AtOthers
  <2>9. ListAt(h)'
    <3>1. At(h) \notin Post
      BY <2>1, <2>4 DEF ListInv, PlaceAt, PlaceIs, Post, QueuePlaces, ReenterPlaces, ReenterPcs
    <3>2. ListAt(h)
      BY <2>1 DEF ListInv
    <3> QED BY <1>1, <2>1, <2>2, <2>3, <2>4, <2>5, <2>8, <3>1, <3>2 DEF ListAt
  <2>10. ASSUME NEW u \in Threads \ {h} PROVE ListAt(u)'
    <3>1. ListAt(u)
      BY DEF ListInv
    <3> QED BY <1>1, <2>2, <2>3, <2>5, <2>6, <2>8, <3>1 DEF ListAt
  <2>11. Once'
    BY <1>0, <1>1, <2>2 DEF Once
  <2> QED BY <2>7, <2>9, <2>10, <2>11 DEF KeepsList
<1> QED BY <1>5, <1>6 DEF Notify

\* INotify puts it on an empty _EntryList or on _cxq.
LEMMA NotifyLinkLists ==
  ASSUME ControlInv, ListInv, NEW t \in Threads, NotifyLink(t)
  PROVE  Once' /\ \A u \in Threads : KeepsList(u)
<1>0. Step(t) /\ ListTypes /\ FrameTypes /\ Once /\ NULL \notin Threads
  BY TypeParts, MonitorAssumption DEF Step, WaitStep, ControlInv, ListInv
<1> DEFINE w == wakee[t]
<1>1. pc[t] = "notifyLink" /\ WaitSetLock = t /\ w \in Threads /\ WaitSet' = WaitSet /\ WaitSetLock' = NULL
  BY DEF NotifyLink, ListInv, LockAt, Marking, ControlInv, ControlOK
<1>2. pc'[t] \in {"notify", "in"}
  BY <1>0 DEF NotifyLink, Goto, FrameTypes
<1>3. At(t)' \notin Post /\ At(t) \notin Post
  BY <1>1, <1>2 DEF At, SpinPcs, SuccTests, Exiting, ExitPcs, Post
<1>4. \A u \in Threads : (Linking(u) <=> u = w) /\ ~Linking(u)'
  BY <1>0, <1>1 DEF Linking
<1>5. ListAt(w) /\ TState[w] = "ENTER" /\ w \notin In(EntryList) /\ At(w) \notin Post
  BY <1>1, <1>4 DEF ListInv, ListAt
<1>6. w \notin In(cxq) /\ w \notin In(WaitSet)
  BY <1>5 DEF ListAt
<1>7. \A u \in Threads : At(u)' \in Post <=> At(u) \in Post
  BY <1>0, <1>3, AtOthers
<1>8. ASSUME NEW u \in Threads PROVE LockAt(u)'
  <2>1. CASE u = t
    BY <1>0, <1>1, <1>2, <2>1 DEF LockAt, Marking
  <2>2. CASE u # t
    BY <1>0, <1>1, <2>2, FramesStep DEF ListInv, LockAt
  <2> QED BY <2>1, <2>2
<1> HIDE DEF w
<1>9. CASE EntryList = <<>> /\ EntryList' = <<w>> /\ UNCHANGED <<cxq, TState>>
  <2>1. In(EntryList) = {} /\ In(EntryList') = {w} /\ Injective(EntryList')
    BY <1>9, SMTT(30) DEF In, Injective
  <2>2. ASSUME NEW u \in Threads PROVE ListAt(u)'
    <3>1. ListAt(u)
      BY DEF ListInv
    <3>2. CASE u = w
      BY <1>1, <1>4, <1>5, <1>6, <1>7, <1>9, <2>1, <3>2 DEF ListAt
    <3>3. CASE u # w
      BY <1>1, <1>4, <1>7, <1>9, <2>1, <3>1, <3>3 DEF ListAt
    <3> QED BY <3>2, <3>3
  <2>3. Once'
    BY <1>0, <1>1, <1>9, <2>1 DEF Once
  <2> QED BY <1>8, <2>2, <2>3 DEF KeepsList
<1>10. CASE cxq' = <<w>> \o cxq /\ TState' = [TState EXCEPT ![w] = "CXQ"] /\ UNCHANGED EntryList
  <2>1. In(cxq') = In(cxq) \cup {w} /\ Injective(cxq')
    BY <1>0, <1>1, <1>6, <1>10, PushFacts DEF ListTypes, Once
  <2>2. TState'[w] = "CXQ" /\ \A u \in Threads \ {w} : TState'[u] = TState[u]
    BY <1>0, <1>1, <1>10 DEF ListTypes
  <2>3. ASSUME NEW u \in Threads PROVE ListAt(u)'
    <3>1. ListAt(u)
      BY DEF ListInv
    <3>2. CASE u = w
      BY <1>1, <1>4, <1>5, <1>6, <1>7, <1>10, <2>1, <2>2, <3>2 DEF ListAt
    <3>3. CASE u # w
      BY <1>1, <1>4, <1>7, <1>10, <2>1, <2>2, <3>1, <3>3 DEF ListAt
    <3> QED BY <3>2, <3>3
  <2>4. Once'
    BY <1>0, <1>1, <1>10, <2>1 DEF Once
  <2> QED BY <1>8, <2>3, <2>4 DEF KeepsList
<1> QED BY <1>9, <1>10 DEF NotifyLink, w

\* The lists and places after a step of a thread.
LEMMA ListsStep ==
  ASSUME ControlInv, ListInv, NEW t \in Threads, Call(t) \/ Step(t)
  PROVE  ListInv'
<1>1. Once' /\ \A u \in Threads : KeepsList(u)
  BY PlaceStep, QuietLists, EnqueueLists, UnlinkLists, RunLists, PickLists, AddWaiterLists,
     WaitUnlinkLists, NotifyLists, NotifyLinkLists DEF ListWriter
<1>2. \A u \in Threads : PlaceAt(u)'
  BY PlaceStep, PlaceOthers
<1> QED BY <1>1, <1>2 DEF ListInv, KeepsList

-----------------------------------------------------------------------------
(* The heir presumptive.                                                   *)

\* Places where a thread may be _succ off the lists: it spins, or is about to
\* test _succ.
SuccPlaces == {"spinning", "spinAbort", "abortClear", "testSucc", "clearSucc"}

Queued(u) == u \in In(EntryList) \/ u \in In(cxq)

SuccAt(u) ==
  /\ succ = u => Queued(u) \/ pc[u] \in SuccPlaces
  /\ pc[u] = "setHeir" => wakee[u] \in In(EntryList)

\* The stores to _succ, and the ways on for a thread that is _succ and spins or
\* tests.
LEMMA SuccWriters ==
  ASSUME FrameTypes, NEW t \in Threads, NULL \notin Threads, Call(t) \/ Step(t)
  PROVE  /\ \/ succ' = succ \/ succ' = NULL \/ (succ' = t /\ pc'[t] = "spinning")
            \/ (pc[t] = "setHeir" /\ succ' = wakee[t])
         /\ pc[t] \in SuccPlaces /\ succ = t /\ succ' = t => pc'[t] \in SuccPlaces
<1> USE DEF heirs, SuccPlaces, Goto, FrameTypes
<1>1. CASE Call(t)
  BY <1>1 DEF Call, EnterCall, RecursiveEnter, ExitCall, FastExitCall, CompleteExit, WaitCall,
         NotifyCall, Enter
<1>2. CASE EnterStep(t)
  <2>1. CASE SpunIn(t) \/ IncCount(t) \/ TryEnter(t) \/ Enqueue(t) \/ ReadEntry(t) \/ Claim(t)
    BY <2>1 DEF SpunIn, IncCount, TryEnter, Enqueue, ReadEntry, Claim
  <2>2. CASE Retry(t) \/ ChoosePark(t) \/ Park(t) \/ ParkTimeout(t) \/ Woken(t) \/ TestSucc(t)
    BY <2>2 DEF Retry, ChoosePark, Park, ParkTimeout, Woken, TestSucc
  <2>3. CASE \/ ClearSucc(t) \/ Unlink(t) \/ DropResponsible(t) \/ Acquired(t) \/ DropSucc(t)
             \/ SuspendReturn(t)
    BY <2>3 DEF ClearSucc, Unlink, DropResponsible, Acquired, DropSucc, SuspendReturn
  <2> QED BY <1>2, <2>1, <2>2, <2>3 DEF EnterStep
<1>3. CASE SpinStep(t)
  BY <1>3 DEF SpinStep, SpinStart, SetSucc, Spin, SpinGiveUp, SpinAbort, AbortClear, AbortTry,
         Taken
<1>4. CASE ExitStep(t)
  <2>1. CASE Exit(t) \/ Release(t) \/ ReadList(t) \/ ReadCxq(t) \/ ReadSucc(t) \/ Reacquire(t)
    BY <2>1 DEF Exit, Release, ReadList, ReadCxq, ReadSucc, Reacquire
  <2>2. CASE Pick(t) \/ Drained(t) \/ SetHeir(t) \/ Drop(t) \/ Wake(t)
    BY <2>2 DEF Pick, Drained, SetHeir, Drop, Wake
  <2>3. CASE \/ FastList(t) \/ FastRelease(t) \/ FastSucc(t) \/ FastDrop(t) \/ FastRatify(t)
             \/ FastReacquire(t) \/ Reenter(t)
    BY <2>3 DEF FastList, FastRelease, FastSucc, FastDrop, FastRatify, FastReacquire, Reenter,
           Enter
  <2> QED BY <1>4, <2>1, <2>2, <2>3 DEF ExitStep
<1>5. CASE WaitStep(t)
  <2>1. CASE AddWaiter(t) \/ WaitTest(t) \/ WaitTState(t) \/ WaitUnlink(t) \/ ReadNotified(t)
    BY <2>1 DEF AddWaiter, WaitTest, WaitTState, WaitUnlink, ReadNotified
  <2>2. CASE WaitEnter(t) \/ ReenterTry(t) \/ ReenterSusp(t) \/ ReenterWoken(t) \/ Reentered(t)
    BY <2>2 DEF WaitEnter, ReenterTry, ReenterSusp, ReenterWoken, Reentered, Enter
  <2>3. CASE WaitDone(t) \/ Notify(t) \/ NotifyMark(t) \/ NotifyLink(t)
    BY <2>3 DEF WaitDone, Notify, NotifyMark, NotifyLink
  <2> QED BY <1>5, <2>1, <2>2, <2>3 DEF WaitStep
<1> QED BY <1>1, <1>2, <1>3, <1>4, <1>5 DEF Step

\* Nobody leaves the entry queues but the owner, which unlinks itself.
LEMMA StayQueued ==
  ASSUME ControlInv, ListInv, NEW t \in Threads, Call(t) \/ Step(t), NEW u \in Threads, Queued(u)
  PROVE  Queued(u)' \/ (u = t /\ pc'[t] = "testSucc")
<1>0. ListTypes /\ FrameTypes /\ Once
  BY TypeParts DEF ControlInv, ListInv
<1>1. CASE Quiet(t) \/ DropResponsible(t) \/ AddWaiter(t) \/ WaitUnlink(t) \/ Reentered(t) \/ Notify(t)
  <2>1. UNCHANGED <<cxq, EntryList>>
    BY <1>1 DEF Quiet, QuietFrom, lists, DropResponsible, AddWaiter, WaitUnlink, Reentered, Notify, queues
  <2> QED BY <2>1 DEF Queued
<1>2. CASE Enqueue(t)
  <2>1. EntryList' = EntryList /\ (cxq' = cxq \/ cxq' = <<t>> \o cxq)
    BY <1>2 DEF Enqueue
  <2>2. t \notin In(cxq)
    <3>1. PlaceAt(t) /\ ListAt(t) /\ pc[t] = "enqueue"
      BY <1>2 DEF Enqueue, ListInv
    <3>2. TState[t] = "RUN"
      BY <3>1 DEF PlaceAt, PlaceIs, At, SpinPcs, SuccTests, Exiting, ExitPcs, RunPlaces, EnterPlaces, CountedPlaces, QueuePlaces
    <3> QED BY <3>1, <3>2 DEF ListAt
  <2>3. In(<<t>> \o cxq) = In(cxq) \cup {t}
    BY <1>0, <2>2, PushFacts, SMTT(30) DEF ListTypes, Once
  <2> QED BY <2>1, <2>3 DEF Queued
<1>3. CASE Unlink(t)
  <2>1. pc'[t] = "testSucc"
    BY <1>0, <1>3 DEF Unlink, Goto, FrameTypes
  <2>2. /\ cxq' = cxq \/ cxq' = Without(cxq, t)
        /\ EntryList' = EntryList \/ EntryList' = Without(EntryList, t)
    BY <1>3 DEF Unlink
  <2>3. In(Without(cxq, t)) = In(cxq) \ {t} /\ In(Without(EntryList, t)) = In(EntryList) \ {t}
    BY <1>0, WithoutFacts DEF ListTypes, Once
  <2> QED BY <2>1, <2>2, <2>3 DEF Queued
<1>4. CASE Pick(t)
  <2>1. UNCHANGED <<cxq, EntryList>> \/ (EntryList = <<>> /\ EntryList' = cxq)
    BY <1>4 DEF Pick, queues
  <2>2. EntryList = <<>> => In(EntryList) = {}
    BY SMTT(30) DEF In
  <2> QED BY <2>1, <2>2 DEF Queued
<1>5. CASE NotifyLink(t)
  <2>1. WaitSetLock = t /\ wakee[t] \in Threads
    BY <1>5 DEF NotifyLink, ListInv, LockAt, Marking, ControlInv, ControlOK
  <2>2. wakee[t] \notin In(cxq)
    BY <2>1 DEF ListInv, ListAt, Linking
  <2>3. In(<<wakee[t]>> \o cxq) = In(cxq) \cup {wakee[t]}
    BY <1>0, <2>1, <2>2, PushFacts, SMTT(30) DEF ListTypes, Once
  <2>4. (EntryList = <<>> \/ EntryList' = EntryList) /\ (cxq' = cxq \/ cxq' = <<wakee[t]>> \o cxq)
    BY <1>5 DEF NotifyLink
  <2>5. EntryList = <<>> => In(EntryList) = {}
    BY SMTT(30) DEF In
  <2> QED BY <2>3, <2>4, <2>5 DEF Queued
<1> QED BY <1>1, <1>2, <1>3, <1>4, <1>5, PlaceStep DEF ListWriter

\* The heir that exit() picks is on _EntryList, and _succ is a thread that
\* waits for its turn or will test _succ.
LEMMA SuccStep ==
  ASSUME ControlInv, ListInv, \A u \in Threads : SuccAt(u), NEW t \in Threads, Call(t) \/ Step(t)
  PROVE  \A u \in Threads : SuccAt(u)'
<1>0. FrameTypes /\ FrameTypes' /\ ListTypes /\ Once /\ NULL \notin Threads
  BY TypeParts, MonitorAssumption, FramesStep DEF ControlInv, ListInv
<1> SUFFICES ASSUME NEW u \in Threads PROVE SuccAt(u)'
  OBVIOUS
<1>1. succ' = u => Queued(u)' \/ pc'[u] \in SuccPlaces
  <2>1. SUFFICES ASSUME succ' = u PROVE Queued(u)' \/ pc'[u] \in SuccPlaces
    OBVIOUS
  <2>2. \/ succ = u \/ (u = t /\ pc'[t] = "spinning") \/ (pc[t] = "setHeir" /\ u = wakee[t])
    BY <1>0, <2>1, SuccWriters
  <2>3. CASE u = t /\ pc'[t] = "spinning"
    BY <2>3 DEF SuccPlaces
  <2>4. CASE Queued(u)
    BY <2>4, StayQueued DEF SuccPlaces
  <2>5. CASE pc[t] = "setHeir" /\ u = wakee[t]
    BY <2>4, <2>5 DEF SuccAt, Queued
  <2>6. CASE succ = u /\ pc[u] \in SuccPlaces
    <3>1. CASE u = t
      BY <1>0, <2>1, <2>6, <3>1, SuccWriters
    <3>2. CASE u # t
      BY <2>6, <3>2, FramesStep
    <3> QED BY <3>1, <3>2
  <2> QED BY <2>2, <2>3, <2>4, <2>5, <2>6 DEF SuccAt
<1>2. pc'[u] = "setHeir" => wakee'[u] \in In(EntryList')
  <2>1. SUFFICES ASSUME pc'[u] = "setHeir" PROVE wakee'[u] \in In(EntryList')
    OBVIOUS
  <2>2. CASE u = t
    <3>1. (pc[t] = "pick" /\ Pick(t)) \/ (pc[t] = "drained" /\ Drained(t))
      BY <2>1, <2>2, FramesStep, PickOnly
    <3>2. wakee'[t] = Head(EntryList) /\ EntryList' = EntryList /\ EntryList # <<>>
      BY <1>0, <2>1, <2>2, <3>1 DEF Pick, Drained, Goto, FrameTypes, queues, ControlInv, DrainedOK
    <3> QED BY <1>0, <2>2, <3>2, TailFacts DEF ListTypes, Once
  <2>3. CASE u # t
    <3>1. pc[u] = "setHeir" /\ wakee'[u] = wakee[u]
      BY <2>1, <2>3, FramesStep
    <3>2. ~Owning(t)
      <4>1. Owning(u)
        BY <3>1 DEF Owning
      <4> QED BY <2>3, <4>1 DEF ControlInv, OwnerExact
    <3>3. EntryList' = EntryList
      BY <3>2, EntryListStep
    <3> QED BY <3>1, <3>3 DEF SuccAt
  <2> QED BY <2>2, <2>3
<1> QED BY <1>1, <1>2 DEF SuccAt

-----------------------------------------------------------------------------
(* The inductive invariant, and what it implies.                           *)

MonitorInv == ControlInv /\ ListInv /\ \A t \in Threads : SuccAt(t)

LEMMA MonitorInit == Init => MonitorInv
<1> SUFFICES ASSUME Init PROVE MonitorInv
  OBVIOUS
<1>1. ControlInv
  BY ControlInit
<1>2. In(WaitSet) = {} /\ In(EntryList) = {} /\ In(cxq) = {} /\ Once
  BY SMTT(30) DEF Init, In, Once, Injective
<1>3. WaitSetLock = NULL /\ succ = NULL /\ Responsible = NULL /\ count = {} /\ waiters = {} /\ NULL \notin Threads
  BY MonitorAssumption DEF Init
<1>4. ASSUME NEW t \in Threads PROVE PlaceAt(t) /\ ListAt(t) /\ LockAt(t) /\ SuccAt(t)
  <2>1. pc[t] = "out" /\ TState[t] = "RUN" /\ caller[t] = "call"
    BY DEF Init
  <2>2. At(t) = "out"
    BY <2>1 DEF At, SpinPcs, SuccTests, Exiting, ExitPcs
  <2>3. PlaceAt(t)
    BY <1>3, <2>1, <2>2, SMTT(60) DEF PlaceAt, PlaceIs, Places, RunPlaces, QueuePlaces, ReenterPlaces, ReenterPcs, Wait1, Wait2,
       CountedPlaces, EnterPlaces, NotifyPcs, FastPcs
  <2>4. LockAt(t) /\ SuccAt(t)
    BY <1>3, <2>1 DEF LockAt, Marking, SuccAt
  <2>5. ListAt(t)
    BY <1>2, <1>3, <2>1, <2>2 DEF ListAt, Linking, Post
  <2> QED BY <2>3, <2>4, <2>5
<1> QED BY <1>1, <1>2, <1>4 DEF MonitorInv, ListInv

LEMMA MonitorStep == MonitorInv /\ [Next]_vars => MonitorInv'
<1> SUFFICES ASSUME MonitorInv, [Next]_vars PROVE MonitorInv'
  OBVIOUS
<1>0. ControlInv /\ ControlInv' /\ ListInv /\ \A u \in Threads : SuccAt(u)
  BY ControlStep DEF MonitorInv
<1>1. ASSUME NEW t \in Threads, Call(t) \/ Step(t) PROVE MonitorInv'
  BY <1>0, <1>1, ListsStep, SuccStep DEF MonitorInv
<1>2. CASE (\E t \in Threads : Outside(t)) \/ UNCHANGED vars
  <2>1. UNCHANGED <<cxq, EntryList, WaitSet, WaitSetLock, TState, succ, Responsible, count, waiters, pc, caller, exitTo, ret, wakee>>
    BY <1>2 DEF Outside, Suspend, Interrupt, InterruptUnpark, vars, queues, waitSet, heirs, busy, frames, locals
  <2>2. \A u \in Threads : At(u)' = At(u)
    BY <2>1 DEF At
  <2>3. ASSUME NEW u \in Threads PROVE PlaceAt(u)' /\ ListAt(u)' /\ LockAt(u)' /\ SuccAt(u)'
    <3>1. PlaceAt(u) /\ ListAt(u) /\ LockAt(u) /\ SuccAt(u)
      BY <1>0 DEF ListInv
    <3>2. PlaceAt(u)'
      BY <2>1, <2>2, <3>1 DEF PlaceAt, PlaceIs
    <3>3. ListAt(u)'
      BY <2>1, <2>2, <3>1 DEF ListAt, Linking
    <3>4. LockAt(u)' /\ SuccAt(u)'
      BY <2>1, <3>1 DEF LockAt, SuccAt, Queued
    <3> QED BY <3>2, <3>3, <3>4
  <2>4. Once'
    BY <1>0, <2>1 DEF ListInv, Once
  <2> QED BY <1>0, <2>3, <2>4 DEF MonitorInv, ListInv
<1> QED BY <1>1, <1>2 DEF Next

LEMMA MonitorAlways == Spec => []MonitorInv
BY MonitorInit, MonitorStep, PTL DEF Spec

\* Every thread is on at most one list and once, its TState names it, and a
\* thread that parks to enter, or got the lock off a queue, is on one.
THEOREM ListsDisciplined == Spec => []QueueDiscipline
<1>1. MonitorInv => QueueDiscipline
  <2> SUFFICES ASSUME MonitorInv PROVE QueueDiscipline
    OBVIOUS
  <2>1. ListTypes /\ Once /\ \A t \in Threads : ListAt(t) /\ PlaceAt(t) /\ LockAt(t)
    BY TypeParts DEF MonitorInv, ControlInv, ListInv
  <2>2. In(WaitSet) \subseteq Threads /\ In(EntryList) \subseteq Threads /\ In(cxq) \subseteq Threads
    BY <2>1, SMTT(30) DEF ListTypes, In
  <2>3. In(WaitSet) \cap In(EntryList) = {}
    BY <2>1, <2>2 DEF ListAt
  <2>4. (In(WaitSet) \cup In(EntryList)) \cap In(cxq) = {}
    BY <2>1, <2>2 DEF ListAt
  <2>5. /\ WaitSet \o EntryList \in Seq(Threads) /\ Injective(WaitSet \o EntryList)
        /\ In(WaitSet \o EntryList) = In(WaitSet) \cup In(EntryList)
    BY <2>1, <2>3, ConcatFacts, SMTT(30) DEF ListTypes, Once
  <2>6. Injective((WaitSet \o EntryList) \o cxq)
    BY <2>1, <2>4, <2>5, ConcatFacts DEF ListTypes, Once
  <2>7. ASSUME NEW t \in Threads, Parked(t) \/ pc[t] \in {"unlink", "reunlink"}
        PROVE  \/ t \in In(EntryList) \cup In(cxq)
               \/ \E u \in Threads : pc[u] \in NotifyPcs /\ wakee[u] = t
    <3>1. At(t) = pc[t]
      BY <2>7 DEF At, Parked, SpinPcs, SuccTests, Exiting, ExitPcs
    <3>2. At(t) \in QueuePlaces \cup ReenterPlaces /\ At(t) \notin Post
      BY <2>7, <3>1 DEF Parked, QueuePlaces, ReenterPlaces, ReenterPcs, Post
    <3>3. t \in In(EntryList) \/ t \in In(cxq) \/ Linking(t)
      BY <2>1, <3>2 DEF PlaceAt, PlaceIs, ListAt
    <3>4. Linking(t) => \E u \in Threads : pc[u] \in NotifyPcs /\ wakee[u] = t
      BY <2>1 DEF Linking, LockAt, Marking, NotifyPcs
    <3> QED BY <3>3, <3>4
  <2> QED BY <2>1, <2>6, <2>7 DEF QueueDiscipline, ListAt
<1> QED BY <1>1, MonitorAlways, PTL

\* The asserts of enter, EnterI, ReenterI, wait and exit hold.
THEOREM AssertsHold == Spec => []Asserts
<1>1. MonitorInv => Asserts
  <2> SUFFICES ASSUME MonitorInv PROVE Asserts
    OBVIOUS
  <2>1. OwnerExact /\ DrainedOK /\ \A t \in Threads : RecAt(t) /\ PlaceAt(t) /\ ListAt(t) /\ SuccAt(t) /\ ControlOK(t)
    BY DEF MonitorInv, ControlInv, ListInv
  <2>2. ASSUME NEW t \in Threads, Inside(t) \/ pc[t] = "waitDone" PROVE succ # t /\ TState[t] \in {"RUN", "WAIT"}
    <3>1. TState[t] \in {"RUN", "WAIT"}
      <4>1. CASE pc[t] \in {"exit", "release"}
        <5>1. At(t) = exitTo[t] /\ exitTo[t] \in {"out", "waitIntr", "completed"}
          BY <2>1, <4>1, TypeParts DEF At, SpinPcs, SuccTests, Exiting, ExitPcs, MonitorInv, ControlInv, FrameTypes, ControlOK
        <5> QED BY <2>1, <4>1, <5>1 DEF PlaceAt, PlaceIs, RunPlaces, Wait1
      <4>2. CASE pc[t] \notin {"exit", "release"}
        <5>1. /\ pc[t] \in {"in", "fastList", "fastRelease", "fastSucc", "fastDrop", "addWaiter", "waitDone"} \cup NotifyPcs
              /\ At(t) = pc[t]
          BY <2>2, <4>2 DEF Inside, At, SpinPcs, SuccTests, Exiting, ExitPcs, NotifyPcs
        <5>2. At(t) \in RunPlaces
          BY <5>1 DEF RunPlaces, FastPcs
        <5> QED BY <2>1, <5>2 DEF PlaceAt, PlaceIs
      <4> QED BY <4>1, <4>2
    <3>2. ~Queued(t)
      BY <2>1, <3>1 DEF Queued, ListAt
    <3>3. pc[t] \notin SuccPlaces
      BY <2>2 DEF Inside, NotifyPcs, SuccPlaces
    <3> QED BY <2>1, <3>1, <3>2, <3>3 DEF SuccAt
  <2>3. ASSUME NEW t \in Threads, pc[t] \in {"tryEnter", "enqueue", "acquired", "waitDone"} PROVE Responsible # t
    <3>1. At(t) = pc[t]
      BY <2>3 DEF At, SpinPcs, SuccTests, Exiting, ExitPcs
    <3> QED BY <2>1, <2>3, <3>1 DEF PlaceAt, PlaceIs, QueuePlaces
  <2>4. ASSUME NEW t \in Threads, pc[t] \in {"waitDone", "reexit", "unlink", "reunlink"} PROVE recursions = 0
    <3>1. owner = t
      BY <2>1, <2>4 DEF OwnerExact, Owning
    <3> QED BY <2>1, <2>4, <3>1 DEF RecAt, RecPcs, NotifyPcs
  <2>5. ASSUME NEW t \in Threads, pc[t] \in {"readNotified", "waitEnter"} PROVE TState[t] # "WAIT"
    <3>1. At(t) = pc[t]
      BY <2>5 DEF At, SpinPcs, SuccTests, Exiting, ExitPcs
    <3> QED BY <2>1, <2>5, <3>1 DEF PlaceAt, PlaceIs, Wait2
  <2>6. owner = NULL => recursions = 0
    BY DEF MonitorInv, ControlInv
  <2> QED BY <2>1, <2>2, <2>3, <2>4, <2>5, <2>6 DEF Asserts, DrainedOK
<1> QED BY <1>1, MonitorAlways, PTL

\* A thread that a safepoint may stop inside enter() or wait() keeps the
\* monitor busy, so that deflate_monitor() leaves it alone.
THEOREM DeflationIsSafe == Spec => []DeflationSafe
<1>1. MonitorInv => DeflationSafe
  <2> SUFFICES ASSUME MonitorInv, NEW t \in Threads, MaySafepoint(t) PROVE is_busy
    BY DEF DeflationSafe
  <2>1. PlaceAt(t)
    BY DEF MonitorInv, ListInv
  <2>2. CASE pc[t] = "in"
    <3>1. owner = t
      BY <2>2 DEF MonitorInv, ControlInv, OwnerExact, Owning, Inside
    <3>2. t # NULL
      BY MonitorAssumption
    <3> QED BY <3>1, <3>2 DEF is_busy
  <2>3. CASE pc[t] \in EnterPcs \ {"inc", "entered"}
    <3>1. At(t) = pc[t]
      BY <2>3 DEF EnterPcs, At, SpinPcs, SuccTests, Exiting, ExitPcs
    <3>2. At(t) \in CountedPlaces
      BY <2>3, <3>1, SMTT(30) DEF EnterPcs, CountedPlaces, QueuePlaces
    <3> QED BY <2>1, <3>2 DEF PlaceAt, PlaceIs, is_busy
  <2>4. CASE pc[t] \in {"unlink", "waitIntr", "waitNotified", "waitPark", "waitSusp", "suspendWait",
                        "waitEnter", "reenterPark", "reenterSusp", "suspendReenter"}
    <3>1. At(t) = pc[t]
      BY <2>4 DEF At, SpinPcs, SuccTests, Exiting, ExitPcs
    <3>2. At(t) \in CountedPlaces \cup Wait1 \cup Wait2 \cup ReenterPlaces
      BY <2>4, <3>1 DEF CountedPlaces, QueuePlaces, Wait1, Wait2, ReenterPlaces, ReenterPcs
    <3> QED BY <2>1, <3>2 DEF PlaceAt, PlaceIs, is_busy
  <2>5. CASE pc[t] \in SpinPcs /\ ret[t] \in {"enterI", "futile"}
    <3>1. At(t) \in CountedPlaces
      BY <2>5 DEF At, CountedPlaces, QueuePlaces
    <3> QED BY <2>1, <3>1 DEF PlaceAt, PlaceIs, is_busy
  <2>6. CASE /\ pc[t] \in {"testSucc", "clearSucc"}
             /\ ret[t] \in {"acquired", "unlink", "retry", "responsible", "suspendReenter"}
    <3>1. At(t) \in CountedPlaces \cup ReenterPlaces
      BY <2>6 DEF At, SuccTests, CountedPlaces, QueuePlaces, ReenterPlaces, ReenterPcs
    <3> QED BY <2>1, <3>1 DEF PlaceAt, PlaceIs, is_busy
  <2>7. CASE pc[t] \in ExitPcs \cup {"reexit"} /\ exitTo[t] = "suspendEnter"
    <3>1. At(t) \in CountedPlaces
      BY <2>7 DEF At, SpinPcs, SuccTests, Exiting, ExitPcs, CountedPlaces
    <3> QED BY <2>1, <3>1 DEF PlaceAt, PlaceIs, is_busy
  <2> QED BY <2>2, <2>3, <2>4, <2>5, <2>6, <2>7 DEF MaySafepoint
<1> QED BY <1>1, MonitorAlways, PTL

-----------------------------------------------------------------------------
(* The monitor that the clients see.                                       *)

\* The steps that change the wait set or _waiters.
LEMMA WaiterWriters ==
  ASSUME NEW t \in Threads, Call(t) \/ Step(t)
  PROVE  \/ AddWaiter(t) \/ WaitUnlink(t) \/ Notify(t) \/ WaitDone(t) \/ UNCHANGED <<WaitSet, waiters>>
<1> USE DEF waitSet, busy
<1>1. CASE Call(t)
  BY <1>1 DEF Call, EnterCall, RecursiveEnter, ExitCall, FastExitCall, CompleteExit, WaitCall,
         NotifyCall, Enter
<1>2. CASE EnterStep(t)
  <2>1. CASE SpunIn(t) \/ IncCount(t) \/ TryEnter(t) \/ Enqueue(t) \/ ReadEntry(t) \/ Claim(t)
    BY <2>1 DEF SpunIn, IncCount, TryEnter, Enqueue, ReadEntry, Claim
  <2>2. CASE Retry(t) \/ ChoosePark(t) \/ Park(t) \/ ParkTimeout(t) \/ Woken(t) \/ TestSucc(t)
    BY <2>2 DEF Retry, ChoosePark, Park, ParkTimeout, Woken, TestSucc
  <2>3. CASE \/ ClearSucc(t) \/ Unlink(t) \/ DropResponsible(t) \/ Acquired(t) \/ DropSucc(t)
             \/ SuspendReturn(t)
    BY <2>3 DEF ClearSucc, Unlink, DropResponsible, Acquired, DropSucc, SuspendReturn
  <2> QED BY <1>2, <2>1, <2>2, <2>3 DEF EnterStep
<1>3. CASE SpinStep(t)
  BY <1>3 DEF SpinStep, SpinStart, SetSucc, Spin, SpinGiveUp, SpinAbort, AbortClear, AbortTry
<1>4. CASE ExitStep(t)
  <2>1. CASE Exit(t) \/ Release(t) \/ ReadList(t) \/ ReadCxq(t) \/ ReadSucc(t) \/ Reacquire(t)
    BY <2>1 DEF Exit, Release, ReadList, ReadCxq, ReadSucc, Reacquire
  <2>2. CASE Pick(t) \/ Drained(t) \/ SetHeir(t) \/ Drop(t) \/ Wake(t)
    BY <2>2 DEF Pick, Drained, SetHeir, Drop, Wake
  <2>3. CASE \/ FastList(t) \/ FastRelease(t) \/ FastSucc(t) \/ FastDrop(t) \/ FastRatify(t)
             \/ FastReacquire(t) \/ Reenter(t)
    BY <2>3 DEF FastList, FastRelease, FastSucc, FastDrop, FastRatify, FastReacquire, Reenter,
           Enter
  <2> QED BY <1>4, <2>1, <2>2, <2>3 DEF ExitStep
<1>5. CASE WaitStep(t)
  <2>1. CASE AddWaiter(t) \/ WaitTest(t) \/ WaitTState(t) \/ WaitUnlink(t) \/ ReadNotified(t)
    BY <2>1 DEF WaitTest, WaitTState, ReadNotified
  <2>2. CASE WaitEnter(t) \/ ReenterTry(t) \/ ReenterSusp(t) \/ ReenterWoken(t) \/ Reentered(t)
    BY <2>2 DEF WaitEnter, ReenterTry, ReenterSusp, ReenterWoken, Reentered, Enter
  <2>3. CASE WaitDone(t) \/ Notify(t) \/ NotifyMark(t) \/ NotifyLink(t)
    BY <2>3 DEF NotifyMark, NotifyLink
  <2> QED BY <1>5, <2>1, <2>2, <2>3 DEF WaitStep
<1> QED BY <1>1, <1>2, <1>3, <1>4, <1>5 DEF Step

\* The holder is the thread inside, if there is one.
LEMMA HolderFacts ==
  ASSUME OwnerExact, NULL \notin Threads, owner \in Threads \cup {NULL}
  PROVE  /\ \A t \in Threads : Inside(t) <=> holder = t
         /\ (\A t \in Threads : ~Inside(t)) => holder = NULL
<1>1. \A t \in Threads : Inside(t) => owner = t
  BY DEF OwnerExact, Owning
<1> QED BY <1>1 DEF holder

\* What a step of t is to the clients.
AbstractStep(t) ==
  \/ M!Enter(t) \/ M!Exit(t) \/ M!Wait(t) \/ M!TimeOut(t)
  \/ \E u \in Threads : M!Notify(t, u)
  \/ UNCHANGED <<holder, waiting, returning>>

\* The last store of enter() or wait() is Enter, the store that frees _owner is
\* Exit or Wait, INotify ends a wait, and so does a waiter that takes itself
\* off the wait set.  The lock that exit() takes for its housekeeping, and
\* the one a suspended thread gives back, are invisible.
LEMMA AbstractKind ==
  ASSUME MonitorInv, MonitorInv', NEW t \in Threads, Call(t) \/ Step(t)
  PROVE  AbstractStep(t)
<1>0. /\ ControlInv /\ ControlInv' /\ ListInv /\ ListInv' /\ NULL \notin Threads /\ FrameTypes /\ ListTypes
      /\ waiters \subseteq Threads /\ In(WaitSet) \subseteq Threads
  <2>1. ListTypes /\ FrameTypes /\ SimpleTypes
    BY TypeParts DEF MonitorInv, ControlInv
  <2>2. In(WaitSet) \subseteq Threads
    BY <2>1, SMTT(30) DEF ListTypes, In
  <2> QED BY <2>1, <2>2, MonitorAssumption DEF MonitorInv, SimpleTypes
<1>1. /\ \A u \in Threads : Inside(u) <=> holder = u
      /\ (\A u \in Threads : ~Inside(u)) => holder = NULL
  BY <1>0, HolderFacts DEF ControlInv, TypeOK
<1>2. /\ \A u \in Threads : Inside(u)' <=> holder' = u
      /\ (\A u \in Threads : ~Inside(u)') => holder' = NULL
  <2>1. \A u \in Threads : Inside(u)' => owner' = u
    BY <1>0 DEF ControlInv, OwnerExact, Owning
  <2>2. owner' \in Threads \cup {NULL}
    BY <1>0 DEF ControlInv, TypeOK
  <2> QED BY <1>0, <2>1, <2>2 DEF holder
<1>3. \A u \in Threads \ {t} : Inside(u)' <=> Inside(u)
  BY <1>0, FramesStep DEF Inside
<1>4. \A u \in Threads \ {t} : u \in waiters' <=> u \in waiters
  BY <1>0, CountOthers
<1>5. ASSUME Inside(t)' <=> Inside(t) PROVE holder' = holder
  <2>1. \A u \in Threads : Inside(u)' <=> Inside(u)
    BY <1>3, <1>5
  <2>2. ASSUME NEW u \in Threads, Inside(u) PROVE holder' = holder
    <3>1. holder = u
      BY <1>1, <2>2
    <3>2. holder' = u
      BY <1>2, <2>1, <2>2
    <3> QED BY <3>1, <3>2
  <2>3. ASSUME \A u \in Threads : ~Inside(u) PROVE holder' = holder
    BY <1>1, <1>2, <2>1, <2>3
  <2> QED BY <2>2, <2>3
<1>6. CASE AddWaiter(t)
  <2>1. pc[t] = "addWaiter" /\ pc'[t] = "exit" /\ WaitSet' = Append(WaitSet, t) /\ waiters' = waiters \cup {t}
    BY <1>0, <1>6 DEF AddWaiter, Goto, FrameTypes
  <2>2. Inside(t) /\ Inside(t)'
    BY <2>1 DEF Inside
  <2>3. PlaceAt(t) /\ ListAt(t) /\ At(t) = "addWaiter" /\ Once
    BY <1>0, <2>1 DEF ListInv, At, SpinPcs, SuccTests, Exiting, ExitPcs
  <2>4. TState[t] = "RUN"
    BY <2>3 DEF PlaceAt, PlaceIs, RunPlaces
  <2>5. t \notin waiters
    BY <2>3, SMTT(30) DEF PlaceAt, PlaceIs, Wait1, Wait2, ReenterPlaces, ReenterPcs, EnterPlaces, CountedPlaces, QueuePlaces
  <2>6. In(WaitSet') = In(WaitSet) \cup {t}
    <3>1. t \notin In(WaitSet) /\ Injective(WaitSet) /\ WaitSet \in Seq(Threads)
      BY <1>0, <2>3, <2>4 DEF ListAt, ListTypes, Once
    <3>2. In(Append(WaitSet, t)) = In(WaitSet) \cup {t}
      BY <3>1, AppendFacts, SMTT(30)
    <3> QED BY <2>1, <3>2
  <2>7. waiting' = waiting
    BY <1>0, <1>3, <2>2, <2>6 DEF waiting
  <2>8. returning' = returning
    BY <2>1, <2>5, <2>6 DEF returning
  <2> QED BY <1>5, <2>2, <2>7, <2>8 DEF AbstractStep
<1>7. CASE WaitUnlink(t)
  <2>1. pc[t] = "waitUnlink" /\ pc'[t] = "testSucc" /\ waiters' = waiters
    BY <1>0, <1>7 DEF WaitUnlink, Goto, FrameTypes, busy
  <2>2. ~Inside(t) /\ ~Inside(t)'
    BY <2>1 DEF Inside, NotifyPcs
  <2>3. CASE WaitSet' = WaitSet
    <3>1. holder' = holder
      BY <1>5, <2>2
    <3>2. waiting' = waiting
      BY <1>0, <1>3, <2>2, <2>3 DEF waiting
    <3>3. returning' = returning
      BY <2>1, <2>3 DEF returning
    <3> QED BY <3>1, <3>2, <3>3 DEF AbstractStep
  <2>4. CASE TState[t] = "WAIT" /\ WaitSet' = Without(WaitSet, t)
    <3>1. PlaceAt(t) /\ ListAt(t) /\ At(t) = "waitUnlink" /\ Once
      BY <1>0, <2>1 DEF ListInv, At, SpinPcs, SuccTests, Exiting, ExitPcs
    <3>2. t \in In(WaitSet) /\ t \in waiters
      BY <2>4, <3>1 DEF ListAt, PlaceAt, PlaceIs, Wait1
    <3>3. In(WaitSet') = In(WaitSet) \ {t}
      BY <1>0, <2>4, <3>1, WithoutFacts DEF ListTypes, Once
    <3>4. t \in waiting /\ waiting' = waiting \ {t}
      BY <1>0, <1>3, <2>2, <3>2, <3>3 DEF waiting
    <3>5. returning' = returning \cup {t}
      BY <2>1, <3>2, <3>3 DEF returning
    <3> QED BY <1>5, <2>2, <3>4, <3>5 DEF AbstractStep, M!TimeOut, M!EndWait
  <2> QED BY <1>7, <2>3, <2>4 DEF WaitUnlink
<1>8. CASE Notify(t)
  <2>1. pc[t] = "notify" /\ pc'[t] \in {"in", "notifyMark"} /\ waiters' = waiters
    BY <1>0, <1>8 DEF Notify, Goto, FrameTypes, busy
  <2>2. Inside(t) /\ Inside(t)'
    BY <2>1 DEF Inside, NotifyPcs
  <2>3. CASE WaitSet' = WaitSet
    <3>1. holder' = holder
      BY <1>5, <2>2
    <3>2. waiting' = waiting
      BY <1>0, <1>3, <2>2, <2>3 DEF waiting
    <3>3. returning' = returning
      BY <2>1, <2>3 DEF returning
    <3> QED BY <3>1, <3>2, <3>3 DEF AbstractStep
  <2>4. CASE WaitSet # <<>> /\ WaitSet' = Tail(WaitSet)
    <3>1. PICK h \in Threads : h = Head(WaitSet) /\ h \in In(WaitSet)
      BY <1>0, <2>4, ListType, TailFacts DEF ListTypes, ListInv, Once
    <3>2. In(WaitSet') = In(WaitSet) \ {h}
      BY <1>0, <2>4, <3>1, TailFacts DEF ListTypes, ListInv, Once
    <3>3. PlaceAt(h) /\ TState[h] = "WAIT" /\ PlaceAt(t) /\ At(t) = "notify"
      BY <1>0, <2>1, <3>1 DEF ListInv, ListAt, At, SpinPcs, SuccTests, Exiting, ExitPcs
    <3>4. h # t
      BY <3>3 DEF PlaceAt, PlaceIs, RunPlaces, NotifyPcs
    <3>5. ~Inside(h)
      BY <1>1, <2>2, <3>4
    <3>6. h \in waiters
      BY <3>3 DEF PlaceAt, PlaceIs, Places
    <3>7. h \in waiting /\ waiting' = waiting \ {h}
      BY <1>0, <1>3, <2>2, <3>1, <3>2, <3>5 DEF waiting
    <3>8. returning' = returning \cup {h}
      BY <2>1, <3>1, <3>2, <3>6 DEF returning
    <3>9. holder = t
      BY <1>1, <2>2
    <3> QED BY <1>5, <2>2, <3>7, <3>8, <3>9 DEF AbstractStep, M!Notify, M!EndWait
  <2> QED BY <1>8, <2>3, <2>4 DEF Notify
<1>9. CASE WaitSet' = WaitSet /\ (WaitDone(t) \/ waiters' = waiters)
  <2>1. CASE ~Inside(t) /\ Inside(t)'
    <3>1. pc'[t] = "in"
      BY <1>0, <2>1, FramesStep
    <3>2. PlaceAt(t)' /\ ListAt(t)' /\ At(t)' = "in"
      BY <1>0, <3>1 DEF ListInv, At, SpinPcs, SuccTests, Exiting, ExitPcs
    <3>3. t \notin In(WaitSet')
      BY <3>2 DEF PlaceAt, PlaceIs, ListAt, RunPlaces
    <3>4. t \notin waiters'
      BY <3>2, SMTT(30) DEF PlaceAt, PlaceIs, Wait1, Wait2, ReenterPlaces, ReenterPcs, EnterPlaces, CountedPlaces, QueuePlaces
    <3>5. holder = NULL /\ holder' = t
      BY <1>0, <1>1, <1>2, <1>3, <2>1
    <3>6. t \notin waiting /\ waiting' = waiting
      BY <1>0, <1>3, <1>9, <3>3 DEF waiting
    <3>7. waiters' = waiters \ {t}
      BY <1>0, <1>9, <3>4 DEF WaitDone
    <3>8. returning' = returning \ {t}
      BY <1>9, <3>7 DEF returning
    <3> QED BY <3>5, <3>6, <3>8 DEF AbstractStep, M!Enter
  <2>2. CASE Inside(t) /\ ~Inside(t)'
    <3>1. owner' = NULL
      BY <1>0, <2>2, FramesStep
    <3>2. holder = t /\ holder' = NULL
      BY <1>1, <2>2, <3>1 DEF holder
    <3>3. waiters' = waiters
      BY <1>0, <1>9, <2>2 DEF WaitDone, Goto, FrameTypes, Inside
    <3>4. returning' = returning
      BY <1>9, <3>3 DEF returning
    <3>5. CASE t \in In(WaitSet)
      <4>1. waiting' = waiting \cup {t}
        BY <1>0, <1>3, <1>9, <2>2, <3>5 DEF waiting
      <4> QED BY <3>2, <3>4, <4>1 DEF AbstractStep, M!Wait
    <3>6. CASE t \notin In(WaitSet)
      <4>1. waiting' = waiting
        BY <1>0, <1>3, <1>9, <2>2, <3>6 DEF waiting
      <4> QED BY <3>2, <3>4, <4>1 DEF AbstractStep, M!Exit
    <3> QED BY <3>5, <3>6
  <2>3. CASE Inside(t)' <=> Inside(t)
    <3>1. waiters' = waiters
      BY <1>0, <1>9, <2>3 DEF WaitDone, Goto, FrameTypes, Inside, NotifyPcs
    <3> QED BY <1>0, <1>3, <1>5, <1>9, <2>3, <3>1 DEF AbstractStep, waiting, returning
  <2> QED BY <2>1, <2>2, <2>3
<1>10. WaitDone(t) => WaitSet' = WaitSet
  BY DEF WaitDone
<1> QED BY <1>6, <1>7, <1>8, <1>9, <1>10, WaiterWriters

\* ObjectMonitor implements the abstract monitor for any number of threads:
\* enter() is exclusive, wait() gives the lock up and starts waiting in one
\* step, and a waiter comes back only after a notification or after it took
\* itself off the wait set.
THEOREM MonitorRefinement == Spec => ImplementsMonitor
<1>1. Init => M!Init
  <2> SUFFICES ASSUME Init PROVE M!Init
    OBVIOUS
  <2>1. In(WaitSet) = {} /\ waiters = {} /\ owner = NULL
    BY SMTT(30) DEF Init, In
  <2> QED BY <2>1 DEF M!Init, holder, waiting, returning
<1>2. MonitorInv /\ MonitorInv' /\ [Next]_vars => [M!TimedNext]_(M!vars)
  <2> SUFFICES ASSUME MonitorInv, MonitorInv', [Next]_vars PROVE [M!TimedNext]_(M!vars)
    OBVIOUS
  <2>1. ASSUME NEW t \in Threads, Call(t) \/ Step(t) PROVE [M!TimedNext]_(M!vars)
    BY <2>1, AbstractKind DEF AbstractStep, M!TimedNext, M!Next, M!vars
  <2>2. CASE (\E t \in Threads : Outside(t)) \/ UNCHANGED vars
    <3>1. UNCHANGED <<owner, pc, WaitSet, waiters>>
      BY <2>2 DEF Outside, Suspend, Interrupt, InterruptUnpark, vars, owning, waitSet, busy
    <3> QED BY <3>1 DEF M!vars, holder, waiting, returning, Inside
  <2> QED BY <2>1, <2>2 DEF Next
<1> QED BY <1>1, <1>2, MonitorAlways, PTL DEF Spec, ImplementsMonitor, M!TimedSpec
=============================================================================
