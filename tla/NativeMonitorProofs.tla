------------------------- MODULE NativeMonitorProofs -------------------------
(***************************************************************************)
(* Proofs about NativeMonitor, for any set of threads and any client       *)
(* calls: who owns the lock; what the WaitSet, the WaitLock and the        *)
(* Notified flags say of each waiter; which threads the entry queues hold  *)
(* and who wakes the next of them; and that NativeMonitor implements       *)
(* MonitorSpec.                                                            *)
(***************************************************************************)
EXTENDS NativeMonitor, ListFacts

\* The prover of every leaf that does not name one.
USE ZenonT(60)

\* Only a thread inside park() has a negative _Event.
EventInv ==
  \A t \in Threads :
    Event[t] = -1 => pc[t] \in {"parkedList", "parkedOnDeck", "waitParked"}

\* Locations of a waiter between the release of the lock in IWait and the
\* point where it stops being one.
WaitingPcs == {"waitLoop", "waitPark", "waitParked", "waitOut", "removeSelf"}

\* The operation a thread is in, where its control depends on it.
OpInv ==
  \A t \in Threads :
    /\ pc[t] \in {"idle", "owned"} => op[t] = "none"
    /\ pc[t] \in {"sneakTest", "trySneak", "contend"} => op[t] = "lock"
    /\ pc[t] = "enterTB" => op[t] \in {"lock", "wait", "timedwait"}
    /\ pc[t] \in WaitingPcs \cup {"addWaiter"} => op[t] \in {"wait", "timedwait"}
    /\ pc[t] \in IUnlockPcs => op[t] \in {"unlock", "suspend", "wait", "timedwait"}
    /\ pc[t] = "suspended" => op[t] = "suspend"

\* Only the VM thread sneaks, and while _snuck is set it is inside and does
\* not wait.
SnuckInv ==
  /\ snuck => /\ VMThread \in Threads /\ pc[VMThread] \in {"exeunt", "owned"}
              /\ op[VMThread] \in {"lock", "none"}
  /\ \A t \in Threads : pc[t] \in {"sneakTest", "trySneak"} => t = VMThread

-----------------------------------------------------------------------------
(* Which steps change what.                                                *)

\* The writers of _OnDeck.
LEMMA OnDeckFrame ==
  ASSUME NEW t \in Threads, Call(t) \/ Step(t)
  PROVE  UNCHANGED OnDeck \/ ClearOnDeck(t) \/ CasOnDeck(t)  \/
         SetOnDeck(t) \/ Punt(t)
<1> USE DEF entryVars
<1>1. CASE Call(t)
  BY <1>1 DEF Call, LockCall, LockNoCheckCall, TryLockCall, NotifyCall, WaitCall
<1>2. CASE LockStep(t)
  BY <1>2 DEF LockStep, SneakTest, TrySneak, Contend, EnterTB, LeaveTB, SetOwner,
         UnlockCall
<1>3. CASE ILockStep(t)
  BY <1>3 DEF ILockStep, ILockSpin, AcquireOrPush, CheckOnDeck, ParkOnList,
         OnDeckSpin, ParkOnDeck
<1>4. CASE IUnlockStep(t)
  BY <1>4 DEF IUnlockStep, ReleaseOuter, ReadOnDeck, ReadCxq, ReadEntry, PickHead,
         DrainCxq, InstallEntryList, Recheck, Unpark, Resample
<1>5. CASE NotifyStep(t)
  BY <1>5 DEF NotifyStep, NotifyTest, Transfer, SetNotified
<1>6. CASE IWaitStep(t)
  BY <1>6 DEF IWaitStep, AddWaiter, WaitLoop, WaitPark, WaitTimeout, WaitOut,
         RemoveSelf, WaitDone, Resume
<1> QED BY <1>1, <1>2, <1>3, <1>4, <1>5, <1>6 DEF Step

\* The writers of the lock byte.
LEMMA LockByteFrame ==
  ASSUME NEW t \in Threads, Call(t) \/ Step(t)
  PROVE  UNCHANGED LockByte \/ LockCall(t) \/ TryLockCall(t)  \/
         Contend(t) \/ ILockSpin(t) \/ AcquireOrPush(t) \/ OnDeckSpin(t)
        \/ ReleaseOuter(t) \/ Transfer(t)
<1>1. CASE Call(t)
  BY <1>1 DEF Call, LockNoCheckCall, NotifyCall, WaitCall
<1>2. CASE LockStep(t)
  BY <1>2 DEF LockStep, SneakTest, TrySneak, EnterTB, LeaveTB, SetOwner, UnlockCall
<1>3. CASE ILockStep(t)
  BY <1>3 DEF ILockStep, CheckOnDeck, ParkOnList, ParkOnDeck, ClearOnDeck
<1>4. CASE IUnlockStep(t)
  BY <1>4 DEF IUnlockStep, ReadOnDeck, ReadCxq, ReadEntry, CasOnDeck, PickHead,
         DrainCxq, InstallEntryList, SetOnDeck, Recheck, Unpark, Punt,
         Resample
<1>5. CASE NotifyStep(t)
  BY <1>5 DEF NotifyStep, NotifyTest, SetNotified
<1>6. CASE IWaitStep(t)
  BY <1>6 DEF IWaitStep, AddWaiter, WaitLoop, WaitPark, WaitTimeout, WaitOut,
         RemoveSelf, WaitDone, Resume
<1> QED BY <1>1, <1>2, <1>3, <1>4, <1>5, <1>6 DEF Step

\* The writers of _EntryList.
LEMMA EntryListFrame ==
  ASSUME NEW t \in Threads, Call(t) \/ Step(t)
  PROVE  UNCHANGED EntryList \/ PickHead(t) \/ InstallEntryList(t)
<1> USE DEF entryVars
<1>1. CASE Call(t)
  BY <1>1 DEF Call, LockCall, LockNoCheckCall, TryLockCall, NotifyCall, WaitCall
<1>2. CASE LockStep(t)
  BY <1>2 DEF LockStep, SneakTest, TrySneak, Contend, EnterTB, LeaveTB, SetOwner,
         UnlockCall
<1>3. CASE ILockStep(t)
  BY <1>3 DEF ILockStep, ILockSpin, AcquireOrPush, CheckOnDeck, ParkOnList,
         OnDeckSpin, ParkOnDeck, ClearOnDeck
<1>4. CASE IUnlockStep(t)
  BY <1>4 DEF IUnlockStep, ReleaseOuter, ReadOnDeck, ReadCxq, ReadEntry, CasOnDeck,
         DrainCxq, SetOnDeck, Recheck, Unpark, Punt, Resample
<1>5. CASE NotifyStep(t)
  BY <1>5 DEF NotifyStep, NotifyTest, Transfer, SetNotified
<1>6. CASE IWaitStep(t)
  BY <1>6 DEF IWaitStep, AddWaiter, WaitLoop, WaitPark, WaitTimeout, WaitOut,
         RemoveSelf, WaitDone, Resume
<1> QED BY <1>1, <1>2, <1>3, <1>4, <1>5, <1>6 DEF Step

\* The writers of the cxq.
LEMMA CxqFrame ==
  ASSUME NEW t \in Threads, Call(t) \/ Step(t)
  PROVE  UNCHANGED cxq \/ AcquireOrPush(t) \/ DrainCxq(t) \/ Transfer(t)
<1> USE DEF entryVars
<1>1. CASE Call(t)
  BY <1>1 DEF Call, LockCall, LockNoCheckCall, TryLockCall, NotifyCall, WaitCall
<1>2. CASE LockStep(t)
  BY <1>2 DEF LockStep, SneakTest, TrySneak, Contend, EnterTB, LeaveTB, SetOwner,
         UnlockCall
<1>3. CASE ILockStep(t)
  BY <1>3 DEF ILockStep, ILockSpin, CheckOnDeck, ParkOnList, OnDeckSpin,
         ParkOnDeck, ClearOnDeck
<1>4. CASE IUnlockStep(t)
  BY <1>4 DEF IUnlockStep, ReleaseOuter, ReadOnDeck, ReadCxq, ReadEntry, CasOnDeck,
         PickHead, InstallEntryList, SetOnDeck, Recheck, Unpark, Punt,
         Resample
<1>5. CASE NotifyStep(t)
  BY <1>5 DEF NotifyStep, NotifyTest, SetNotified
<1>6. CASE IWaitStep(t)
  BY <1>6 DEF IWaitStep, AddWaiter, WaitLoop, WaitPark, WaitTimeout, WaitOut,
         RemoveSelf, WaitDone, Resume
<1> QED BY <1>1, <1>2, <1>3, <1>4, <1>5, <1>6 DEF Step

\* The writers of the WaitSet, the WaitLock and the Notified flags.
LEMMA WaitFrame ==
  ASSUME NEW t \in Threads, Call(t) \/ Step(t)
  PROVE  UNCHANGED waitVars \/ Transfer(t) \/ SetNotified(t)  \/
         AddWaiter(t) \/ RemoveSelf(t)
<1>1. CASE Call(t)
  BY <1>1 DEF Call, LockCall, LockNoCheckCall, TryLockCall, NotifyCall, WaitCall
<1>2. CASE LockStep(t)
  BY <1>2 DEF LockStep, SneakTest, TrySneak, Contend, EnterTB, LeaveTB, SetOwner,
         UnlockCall
<1>3. CASE ILockStep(t)
  BY <1>3 DEF ILockStep, ILockSpin, AcquireOrPush, CheckOnDeck, ParkOnList,
         OnDeckSpin, ParkOnDeck, ClearOnDeck
<1>4. CASE IUnlockStep(t)
  BY <1>4 DEF IUnlockStep, ReleaseOuter, ReadOnDeck, ReadCxq, ReadEntry, CasOnDeck,
         PickHead, DrainCxq, InstallEntryList, SetOnDeck, Recheck, Unpark,
         Punt, Resample
<1>5. CASE NotifyStep(t)
  BY <1>5 DEF NotifyStep, NotifyTest
<1>6. CASE IWaitStep(t)
  BY <1>6 DEF IWaitStep, WaitLoop, WaitPark, WaitTimeout, WaitOut, WaitDone, Resume
<1> QED BY <1>1, <1>2, <1>3, <1>4, <1>5, <1>6 DEF Step

\* The writers of the detached segments.
LEMMA SegFrame ==
  ASSUME NEW t \in Threads, Call(t) \/ Step(t)
  PROVE  UNCHANGED seg \/ DrainCxq(t) \/ InstallEntryList(t)
<1> USE DEF locVars
<1>1. CASE Call(t)
  BY <1>1 DEF Call, LockCall, LockNoCheckCall, TryLockCall, NotifyCall, WaitCall
<1>2. CASE LockStep(t)
  BY <1>2 DEF LockStep, SneakTest, TrySneak, Contend, EnterTB, LeaveTB, SetOwner,
         UnlockCall
<1>3. CASE ILockStep(t)
  BY <1>3 DEF ILockStep, ILockSpin, AcquireOrPush, CheckOnDeck, ParkOnList,
         OnDeckSpin, ParkOnDeck, ClearOnDeck
<1>4. CASE IUnlockStep(t)
  BY <1>4 DEF IUnlockStep, ReleaseOuter, ReadOnDeck, ReadCxq, ReadEntry, CasOnDeck,
         PickHead, SetOnDeck, Recheck, Unpark, Punt, Resample
<1>5. CASE NotifyStep(t)
  BY <1>5 DEF NotifyStep, NotifyTest, Transfer, SetNotified
<1>6. CASE IWaitStep(t)
  BY <1>6 DEF IWaitStep, AddWaiter, WaitLoop, WaitPark, WaitTimeout, WaitOut,
         RemoveSelf, WaitDone, Resume
<1> QED BY <1>1, <1>2, <1>3, <1>4, <1>5, <1>6 DEF Step

\* The writers of the wakees.
LEMMA WakeeFrame ==
  ASSUME NEW t \in Threads, Call(t) \/ Step(t)
  PROVE  UNCHANGED wakee \/ ReadOnDeck(t) \/ PickHead(t) \/ Recheck(t)
        \/ Unpark(t) \/ Transfer(t) \/ SetNotified(t)
<1> USE DEF locVars
<1>1. CASE Call(t)
  BY <1>1 DEF Call, LockCall, LockNoCheckCall, TryLockCall, NotifyCall, WaitCall
<1>2. CASE LockStep(t)
  BY <1>2 DEF LockStep, SneakTest, TrySneak, Contend, EnterTB, LeaveTB, SetOwner,
         UnlockCall
<1>3. CASE ILockStep(t)
  BY <1>3 DEF ILockStep, ILockSpin, AcquireOrPush, CheckOnDeck, ParkOnList,
         OnDeckSpin, ParkOnDeck, ClearOnDeck
<1>4. CASE IUnlockStep(t)
  BY <1>4 DEF IUnlockStep, ReleaseOuter, ReadCxq, ReadEntry, CasOnDeck, DrainCxq,
         InstallEntryList, SetOnDeck, Punt, Resample
<1>5. CASE NotifyStep(t)
  BY <1>5 DEF NotifyStep, NotifyTest
<1>6. CASE IWaitStep(t)
  BY <1>6 DEF IWaitStep, AddWaiter, WaitLoop, WaitPark, WaitTimeout, WaitOut,
         RemoveSelf, WaitDone, Resume
<1> QED BY <1>1, <1>2, <1>3, <1>4, <1>5, <1>6 DEF Step

\* The writers of _owner and _snuck.
LEMMA OwnerFrame ==
  ASSUME NEW t \in Threads, Call(t) \/ Step(t)
  PROVE  UNCHANGED ownVars \/ WaitCall(t) \/ SneakTest(t) \/ TrySneak(t)
        \/ SetOwner(t) \/ UnlockCall(t)
<1>1. CASE Call(t)
  BY <1>1 DEF Call, LockCall, LockNoCheckCall, TryLockCall, NotifyCall
<1>2. CASE LockStep(t)
  BY <1>2 DEF LockStep, Contend, EnterTB, LeaveTB
<1>3. CASE ILockStep(t)
  BY <1>3 DEF ILockStep, ILockSpin, AcquireOrPush, CheckOnDeck, ParkOnList,
         OnDeckSpin, ParkOnDeck, ClearOnDeck
<1>4. CASE IUnlockStep(t)
  BY <1>4 DEF IUnlockStep, ReleaseOuter, ReadOnDeck, ReadCxq, ReadEntry, CasOnDeck,
         PickHead, DrainCxq, InstallEntryList, SetOnDeck, Recheck, Unpark,
         Punt, Resample
<1>5. CASE NotifyStep(t)
  BY <1>5 DEF NotifyStep, NotifyTest, Transfer, SetNotified
<1>6. CASE IWaitStep(t)
  BY <1>6 DEF IWaitStep, AddWaiter, WaitLoop, WaitPark, WaitTimeout, WaitOut,
         RemoveSelf, WaitDone, Resume
<1> QED BY <1>1, <1>2, <1>3, <1>4, <1>5, <1>6 DEF Step

\* The writers of the safepoint state: the VM thread, between its calls.
LEMMA SafepointFrame ==
  ASSUME NEW t \in Threads, Call(t) \/ Step(t)
  PROVE  UNCHANGED safepoint
<1>1. CASE Call(t)
  BY <1>1 DEF Call, LockCall, LockNoCheckCall, TryLockCall, NotifyCall, WaitCall
<1>2. CASE LockStep(t)
  BY <1>2 DEF LockStep, SneakTest, TrySneak, Contend, EnterTB, LeaveTB, SetOwner,
         UnlockCall
<1>3. CASE ILockStep(t)
  BY <1>3 DEF ILockStep, ILockSpin, AcquireOrPush, CheckOnDeck, ParkOnList,
         OnDeckSpin, ParkOnDeck, ClearOnDeck
<1>4. CASE IUnlockStep(t)
  BY <1>4 DEF IUnlockStep, ReleaseOuter, ReadOnDeck, ReadCxq, ReadEntry, CasOnDeck,
         PickHead, DrainCxq, InstallEntryList, SetOnDeck, Recheck, Unpark,
         Punt, Resample
<1>5. CASE NotifyStep(t)
  BY <1>5 DEF NotifyStep, NotifyTest, Transfer, SetNotified
<1>6. CASE IWaitStep(t)
  BY <1>6 DEF IWaitStep, AddWaiter, WaitLoop, WaitPark, WaitTimeout, WaitOut,
         RemoveSelf, WaitDone, Resume
<1> QED BY <1>1, <1>2, <1>3, <1>4, <1>5, <1>6 DEF Step

\* The safepoint's own steps leave the monitor alone.
LEMMA IdleFrame ==
  ASSUME [Next]_vars, ~\E t \in Threads : Call(t) \/ Step(t)
  PROVE  /\ UNCHANGED <<LockByte, cxq, OnDeck, EntryList, WaitSet, WaitLock, owner, snuck>>
         /\ UNCHANGED <<Event, Notified, pc, op, wakee, seg>>
BY DEF Next, BeginSafepoint, EndSafepoint, vars, entryVars, waitVars, ownVars, locVars

-----------------------------------------------------------------------------
(* Control.                                                                *)

\* A step moves only the thread that takes it.
LEMMA ControlStep ==
  ASSUME pc \in [Threads -> Pcs], op \in [Threads -> Ops],
         NEW t \in Threads, Call(t) \/ Step(t)
  PROVE  /\ pc' \in [Threads -> Pcs] /\ op' \in [Threads -> Ops]
         /\ \A u \in Threads \ {t} : pc'[u] = pc[u] /\ op'[u] = op[u]
<1> USE DEF Goto, Pcs, ILockPcs, IUnlockPcs, IWaitPcs, Ops
<1>1. CASE Call(t)
  <2>1. CASE LockCall(t)
    BY <2>1 DEF LockCall
  <2>2. CASE LockNoCheckCall(t)
    BY <2>2 DEF LockNoCheckCall
  <2>3. CASE TryLockCall(t)
    BY <2>3 DEF TryLockCall
  <2>4. CASE NotifyCall(t)
    BY <2>4 DEF NotifyCall
  <2>5. CASE WaitCall(t)
    BY <2>5 DEF WaitCall
  <2> QED BY <1>1, <2>1, <2>2, <2>3, <2>4, <2>5 DEF Call
<1>2. CASE LockStep(t)
  <2>1. CASE SneakTest(t)
    BY <2>1 DEF SneakTest
  <2>2. CASE TrySneak(t)
    BY <2>2 DEF TrySneak
  <2>3. CASE Contend(t)
    BY <2>3 DEF Contend
  <2>4. CASE EnterTB(t)
    BY <2>4 DEF EnterTB
  <2>5. CASE LeaveTB(t)
    BY <2>5 DEF LeaveTB
  <2>6. CASE SetOwner(t)
    BY <2>6 DEF SetOwner
  <2>7. CASE UnlockCall(t)
    BY <2>7 DEF UnlockCall
  <2> QED BY <1>2, <2>1, <2>2, <2>3, <2>4, <2>5, <2>6, <2>7 DEF LockStep
<1>3. CASE ILockStep(t)
  <2>1. CASE ILockSpin(t)
    BY <2>1 DEF ILockSpin, AfterILock
  <2>2. CASE AcquireOrPush(t)
    BY <2>2 DEF AcquireOrPush, AfterILock
  <2>3. CASE CheckOnDeck(t)
    BY <2>3 DEF CheckOnDeck
  <2>4. CASE ParkOnList(t)
    BY <2>4 DEF ParkOnList, Park, WakeUp
  <2>5. CASE OnDeckSpin(t)
    BY <2>5 DEF OnDeckSpin
  <2>6. CASE ParkOnDeck(t)
    BY <2>6 DEF ParkOnDeck, Park, WakeUp
  <2>7. CASE ClearOnDeck(t)
    BY <2>7 DEF ClearOnDeck, AfterILock
  <2> QED BY <1>3, <2>1, <2>2, <2>3, <2>4, <2>5, <2>6, <2>7 DEF ILockStep
<1>4. CASE IUnlockStep(t)
  <2>1. CASE ReleaseOuter(t)
    BY <2>1 DEF ReleaseOuter
  <2>2. CASE ReadOnDeck(t)
    BY <2>2 DEF ReadOnDeck, IUnlockReturn
  <2>3. CASE ReadCxq(t)
    BY <2>3 DEF ReadCxq, IUnlockReturn
  <2>4. CASE ReadEntry(t)
    BY <2>4 DEF ReadEntry, IUnlockReturn
  <2>5. CASE CasOnDeck(t)
    BY <2>5 DEF CasOnDeck, IUnlockReturn
  <2>6. CASE PickHead(t)
    BY <2>6 DEF PickHead
  <2>7. CASE DrainCxq(t)
    BY <2>7 DEF DrainCxq
  <2>8. CASE InstallEntryList(t)
    BY <2>8 DEF InstallEntryList
  <2>9. CASE SetOnDeck(t)
    BY <2>9 DEF SetOnDeck
  <2>10. CASE Recheck(t)
    BY <2>10 DEF Recheck, IUnlockReturn
  <2>11. CASE Unpark(t)
    BY <2>11 DEF Unpark, IUnlockReturn
  <2>12. CASE Punt(t)
    BY <2>12 DEF Punt
  <2>13. CASE Resample(t)
    BY <2>13 DEF Resample, IUnlockReturn
  <2> QED BY <1>4, <2>1, <2>2, <2>3, <2>4, <2>5, <2>6, <2>7, <2>8, <2>9, <2>10, <2>11, <2>12, <2>13 DEF IUnlockStep
<1>5. CASE NotifyStep(t)
  <2>1. CASE NotifyTest(t)
    BY <2>1 DEF NotifyTest
  <2>2. CASE Transfer(t)
    BY <2>2 DEF Transfer, NotifyReturn
  <2>3. CASE SetNotified(t)
    BY <2>3 DEF SetNotified, NotifyReturn
  <2> QED BY <1>5, <2>1, <2>2, <2>3 DEF NotifyStep
<1>6. CASE IWaitStep(t)
  <2>1. CASE AddWaiter(t)
    BY <2>1 DEF AddWaiter
  <2>2. CASE WaitLoop(t)
    BY <2>2 DEF WaitLoop
  <2>3. CASE WaitPark(t)
    BY <2>3 DEF WaitPark, Park, WakeUp
  <2>4. CASE WaitTimeout(t)
    BY <2>4 DEF WaitTimeout
  <2>5. CASE WaitOut(t)
    BY <2>5 DEF WaitOut
  <2>6. CASE RemoveSelf(t)
    BY <2>6 DEF RemoveSelf
  <2>7. CASE WaitDone(t)
    BY <2>7 DEF WaitDone
  <2>8. CASE Resume(t)
    BY <2>8 DEF Resume
  <2> QED BY <1>6, <2>1, <2>2, <2>3, <2>4, <2>5, <2>6, <2>7, <2>8 DEF IWaitStep
<1> QED BY <1>1, <1>2, <1>3, <1>4, <1>5, <1>6 DEF Step

HoldSame(t) == LockByte' = LockByte /\ Holds(t)' = Holds(t)

HoldAcquire(t) == ~LockByte /\ LockByte' /\ ~Holds(t) /\ Holds(t)'

HoldRelease(t) == Holds(t) /\ ~Holds(t)' /\ ~LockByte'

HoldKind(t) ==
  \/ HoldSame(t) \/ HoldAcquire(t) \/ HoldRelease(t)
  \/ UnlockCall(t) /\ snuck
  \/ Transfer(t)

\* A step keeps the control invariants and changes the holder of the lock
\* byte in one of the ways of HoldKind.
LEMMA ControlInvStep ==
  ASSUME pc \in [Threads -> Pcs], op \in [Threads -> Ops],
         LockByte \in BOOLEAN, snuck \in BOOLEAN, OpInv, SnuckInv,
         Event \in [Threads -> {-1, 0, 1}], EventInv,
         NEW t \in Threads, Call(t) \/ Step(t)
  PROVE  OpInv' /\ SnuckInv' /\ HoldKind(t)
         /\ Event' \in [Threads -> {-1, 0, 1}] /\ EventInv'
<1> USE DEF EventInv, OpInv, SnuckInv, WaitingPcs, WaitOps, IUnlockPcs, Goto, ownVars, SnuckPast,
           HoldKind, HoldSame, HoldAcquire, HoldRelease, Holds
<1>1. CASE Call(t)
  <2>1. CASE LockCall(t)
    BY SMTT(60), <2>1 DEF LockCall, TryLock
  <2>2. CASE LockNoCheckCall(t)
    BY <2>2 DEF LockNoCheckCall
  <2>3. CASE TryLockCall(t)
    BY SMTT(60), <2>3 DEF TryLockCall, CanSneak, TryLock
  <2>4. CASE NotifyCall(t)
    BY <2>4 DEF NotifyCall
  <2>5. CASE WaitCall(t)
    BY SMTT(60), <2>5 DEF WaitCall
  <2> QED BY <1>1, <2>1, <2>2, <2>3, <2>4, <2>5 DEF Call
<1>2. CASE LockStep(t)
  <2>1. CASE SneakTest(t)
    BY SMTT(60), <2>1 DEF SneakTest, CanSneak
  <2>2. CASE TrySneak(t)
    BY <2>2 DEF TrySneak
  <2>3. CASE Contend(t)
    BY SMTT(60), <2>3 DEF Contend, TryLock
  <2>4. CASE EnterTB(t)
    BY SMTT(60), <2>4 DEF EnterTB
  <2>5. CASE LeaveTB(t)
    BY <2>5 DEF LeaveTB
  <2>6. CASE SetOwner(t)
    BY <2>6 DEF SetOwner
  <2>7. CASE UnlockCall(t)
    BY SMTT(60), <2>7 DEF UnlockCall
  <2> QED BY <1>2, <2>1, <2>2, <2>3, <2>4, <2>5, <2>6, <2>7 DEF LockStep
<1>3. CASE ILockStep(t)
  <2>1. CASE ILockSpin(t)
    BY SMTT(60), <2>1 DEF ILockSpin, AfterILock, TryLock
  <2>2. CASE AcquireOrPush(t)
    BY SMTT(60), <2>2 DEF AcquireOrPush, AfterILock, TryLock
  <2>3. CASE CheckOnDeck(t)
    BY <2>3 DEF CheckOnDeck
  <2>4. CASE ParkOnList(t)
    BY SMTT(60), <2>4 DEF ParkOnList, Park, WakeUp
  <2>5. CASE OnDeckSpin(t)
    BY SMTT(60), <2>5 DEF OnDeckSpin, TryLock
  <2>6. CASE ParkOnDeck(t)
    BY SMTT(60), <2>6 DEF ParkOnDeck, Park, WakeUp
  <2>7. CASE ClearOnDeck(t)
    BY <2>7 DEF ClearOnDeck, AfterILock
  <2> QED BY <1>3, <2>1, <2>2, <2>3, <2>4, <2>5, <2>6, <2>7 DEF ILockStep
<1>4. CASE IUnlockStep(t)
  <2>1. CASE ReleaseOuter(t)
    BY <2>1 DEF ReleaseOuter
  <2>2. CASE ReadOnDeck(t)
    BY SMTT(60), <2>2 DEF ReadOnDeck, IUnlockReturn
  <2>3. CASE ReadCxq(t)
    BY SMTT(60), <2>3 DEF ReadCxq, IUnlockReturn
  <2>4. CASE ReadEntry(t)
    BY SMTT(60), <2>4 DEF ReadEntry, IUnlockReturn
  <2>5. CASE CasOnDeck(t)
    BY SMTT(60), <2>5 DEF CasOnDeck, IUnlockReturn
  <2>6. CASE PickHead(t)
    BY SMTT(60), <2>6 DEF PickHead
  <2>7. CASE DrainCxq(t)
    BY SMTT(60), <2>7 DEF DrainCxq
  <2>8. CASE InstallEntryList(t)
    BY <2>8 DEF InstallEntryList
  <2>9. CASE SetOnDeck(t)
    BY <2>9 DEF SetOnDeck
  <2>10. CASE Recheck(t)
    BY SMTT(60), <2>10 DEF Recheck, IUnlockReturn
  <2>11. CASE Unpark(t)
    <3>1. OpInv' /\ SnuckInv' /\ HoldKind(t)
      BY SMTT(60), <2>11 DEF Unpark, IUnlockReturn
    <3>2. Event' \in [Threads -> {-1, 0, 1}] /\ EventInv'
      <4>1. /\ pc[t] = "unpark" /\ Event' = [Event EXCEPT ![wakee[t]] = 1]
            /\ \A u \in Threads \ {t} : pc'[u] = pc[u]
        BY <2>11, ControlStep DEF Unpark
      <4>2. Event' \in [Threads -> {-1, 0, 1}]
        BY <4>1
      <4>3. \A u \in Threads : Event'[u] = -1 => Event[u] = -1
        BY SMTT(60), <4>1
      <4> QED BY <4>1, <4>2, <4>3
    <3> QED BY <3>1, <3>2
  <2>12. CASE Punt(t)
    BY <2>12 DEF Punt
  <2>13. CASE Resample(t)
    BY SMTT(60), <2>13 DEF Resample, IUnlockReturn
  <2> QED BY <1>4, <2>1, <2>2, <2>3, <2>4, <2>5, <2>6, <2>7, <2>8, <2>9, <2>10, <2>11, <2>12, <2>13 DEF IUnlockStep
<1>5. CASE NotifyStep(t)
  <2>1. CASE NotifyTest(t)
    <3>1. /\ pc[t] = "notify"
          /\ \/ pc' = [pc EXCEPT ![t] = "owned"] /\ op' = [op EXCEPT ![t] = "none"]
             \/ pc' = [pc EXCEPT ![t] = "transfer"] /\ op' = op
          /\ LockByte' = LockByte
          /\ snuck' = snuck
          /\ Event' = Event
      BY <2>1 DEF NotifyTest
    <3>2. OpInv'
      BY SMTT(60), <3>1
    <3>3. SnuckInv' /\ HoldKind(t)
      BY <3>1
    <3>4. Event' \in [Threads -> {-1, 0, 1}] /\ EventInv'
      BY <3>1
    <3> QED BY <3>2, <3>3, <3>4
  <2>2. CASE Transfer(t)
    <3>1. /\ pc[t] = "transfer"
          /\ \/ pc' = [pc EXCEPT ![t] = "notified"] /\ op' = op
             \/ op[t] = "notifyAll" /\ pc' = [pc EXCEPT ![t] = "notify"] /\ op' = op
             \/ op[t] # "notifyAll" /\ pc' = [pc EXCEPT ![t] = "owned"] /\ op' = [op EXCEPT ![t] = "none"]
          /\ snuck' = snuck
          /\ Event' = Event
      BY <2>2 DEF Transfer, NotifyReturn
    <3>2. OpInv'
      BY SMTT(60), <3>1
    <3>3. SnuckInv'
      BY <3>1
    <3>4. HoldKind(t)
      BY <2>2
    <3>5. Event' \in [Threads -> {-1, 0, 1}] /\ EventInv'
      BY <3>1
    <3> QED BY <3>2, <3>3, <3>4, <3>5
  <2>3. CASE SetNotified(t)
    <3>1. /\ pc[t] = "notified"
          /\ \/ op[t] = "notifyAll" /\ pc' = [pc EXCEPT ![t] = "notify"] /\ op' = op
             \/ op[t] # "notifyAll" /\ pc' = [pc EXCEPT ![t] = "owned"] /\ op' = [op EXCEPT ![t] = "none"]
          /\ LockByte' = LockByte
          /\ snuck' = snuck
          /\ Event' = Event
      BY <2>3 DEF SetNotified, NotifyReturn
    <3>2. OpInv'
      BY SMTT(60), <3>1
    <3>3. SnuckInv' /\ HoldKind(t)
      BY <3>1
    <3>4. Event' \in [Threads -> {-1, 0, 1}] /\ EventInv'
      BY <3>1
    <3> QED BY <3>2, <3>3, <3>4
  <2> QED BY <1>5, <2>1, <2>2, <2>3 DEF NotifyStep
<1>6. CASE IWaitStep(t)
  <2>1. CASE AddWaiter(t)
    <3>1. /\ pc[t] = "addWaiter"
          /\ pc' = [pc EXCEPT ![t] = "release"] /\ op' = op
          /\ LockByte' = LockByte
          /\ snuck' = snuck
          /\ Event' = [Event EXCEPT ![t] = 0]
      BY <2>1 DEF AddWaiter
    <3>2. OpInv'
      BY <3>1
    <3>3. SnuckInv' /\ HoldKind(t)
      BY <3>1
    <3>4. Event' \in [Threads -> {-1, 0, 1}] /\ EventInv'
      BY SMTT(60), <3>1
    <3> QED BY <3>2, <3>3, <3>4
  <2>2. CASE WaitLoop(t)
    BY <2>2 DEF WaitLoop
  <2>3. CASE WaitPark(t)
    BY SMTT(60), <2>3 DEF WaitPark, Park, WakeUp
  <2>4. CASE WaitTimeout(t)
    BY SMTT(60), <2>4 DEF WaitTimeout
  <2>5. CASE WaitOut(t)
    BY <2>5 DEF WaitOut
  <2>6. CASE RemoveSelf(t)
    <3>1. /\ pc[t] = "removeSelf"
          /\ pc' = [pc EXCEPT ![t] = "ilock"] \/ pc' = [pc EXCEPT ![t] = "chkOnDeck"]
          /\ op' = op
          /\ LockByte' = LockByte
          /\ snuck' = snuck
          /\ Event' = Event
      BY <2>6 DEF RemoveSelf
    <3>2. OpInv'
      BY SMTT(60), <3>1
    <3>3. SnuckInv' /\ HoldKind(t)
      BY <3>1
    <3>4. Event' \in [Threads -> {-1, 0, 1}] /\ EventInv'
      BY <3>1
    <3> QED BY <3>2, <3>3, <3>4
  <2>7. CASE WaitDone(t)
    <3>1. /\ pc[t] = "waitDone"
          /\ \/ pc' = [pc EXCEPT ![t] = IF t \in JavaThreads THEN "leaveTB" ELSE "exeunt"] /\ op' = op
             \/ op' = [op EXCEPT ![t] = "suspend"] /\ pc' = [pc EXCEPT ![t] = "release"]
          /\ LockByte' = LockByte
          /\ snuck' = snuck
          /\ Event' = Event
      BY <2>7 DEF WaitDone
    <3>2. OpInv'
      BY SMTT(60), <3>1
    <3>3. SnuckInv' /\ HoldKind(t)
      BY <3>1
    <3>4. Event' \in [Threads -> {-1, 0, 1}] /\ EventInv'
      BY <3>1
    <3> QED BY <3>2, <3>3, <3>4
  <2>8. CASE Resume(t)
    BY <2>8 DEF Resume
  <2> QED BY <1>6, <2>1, <2>2, <2>3, <2>4, <2>5, <2>6, <2>7, <2>8 DEF IWaitStep
<1> QED BY <1>1, <1>2, <1>3, <1>4, <1>5, <1>6 DEF Step

-----------------------------------------------------------------------------
(* Type correctness.                                                       *)

\* Everything that concerns control and the park events.
ControlInv == TypeOK /\ EventInv /\ OpInv /\ SnuckInv

\* Every step keeps the variables in their types.
LEMMA TypeStep ==
  ASSUME ControlInv, NEW t \in Threads, Call(t) \/ Step(t)
  PROVE  ControlInv'
<1> USE ThreadAssumption DEF ControlInv
<1>1. /\ EventInv' /\ OpInv' /\ SnuckInv'
      /\ pc' \in [Threads -> Pcs] /\ op' \in [Threads -> Ops]
      /\ Event' \in [Threads -> {-1, 0, 1}]
  <2>1. /\ pc \in [Threads -> Pcs] /\ op \in [Threads -> Ops]
        /\ LockByte \in BOOLEAN /\ snuck \in BOOLEAN /\ Event \in [Threads -> {-1, 0, 1}]
    BY DEF TypeOK
  <2> QED BY <2>1, ControlStep, ControlInvStep
<1>2. LockByte' \in BOOLEAN
  <2>1. LockByte \in BOOLEAN
    BY DEF TypeOK
  <2> QED BY <2>1, LockByteFrame DEF LockCall, Contend, TryLockCall, ILockSpin, AcquireOrPush,
             OnDeckSpin, ReleaseOuter, Transfer, TryLock
<1>3. OnDeck' \in Threads \cup {NULL, LBIT}
  <2>1. OnDeck \in Threads \cup {NULL, LBIT} /\ wakee \in [Threads -> Threads \cup {NULL}]
    BY DEF TypeOK
  <2> QED BY <2>1, OnDeckFrame DEF ClearOnDeck, CasOnDeck, SetOnDeck, Punt
<1>4. cxq' \in Seq(Threads)
  <2>1. cxq \in Seq(Threads) /\ WaitSet \in Seq(Threads) /\ <<>> \in Seq(Threads)
    BY SMTT(60) DEF TypeOK
  <2>2. CASE AcquireOrPush(t)
    <3>1. <<t>> \o cxq \in Seq(Threads)
      BY <2>1, ListType
    <3> QED BY <2>1, <2>2, <3>1 DEF AcquireOrPush
  <2>3. CASE Transfer(t)
    <3>1. WaitSet # <<>> => <<Head(WaitSet)>> \o cxq \in Seq(Threads)
      BY <2>1, ListType
    <3> QED BY <2>1, <2>3, <3>1 DEF Transfer
  <2>4. CASE DrainCxq(t)
    BY <2>1, <2>4 DEF DrainCxq
  <2> QED BY <2>1, <2>2, <2>3, <2>4, CxqFrame
<1>5. seg' \in [Threads -> Seq(Threads)]
  <2>1. cxq \in Seq(Threads) /\ seg \in [Threads -> Seq(Threads)] /\ <<>> \in Seq(Threads)
    BY SMTT(60) DEF TypeOK
  <2>2. CASE DrainCxq(t) \/ InstallEntryList(t)
    BY <2>1, <2>2 DEF DrainCxq, InstallEntryList
  <2> QED BY <2>1, <2>2, SegFrame
<1>6. EntryList' \in Seq(Threads)
  <2>1. EntryList \in Seq(Threads) /\ seg \in [Threads -> Seq(Threads)]
    BY DEF TypeOK
  <2>2. EntryList # <<>> => Tail(EntryList) \in Seq(Threads)
    BY <2>1, ListType
  <2>3. CASE PickHead(t) \/ InstallEntryList(t)
    BY <2>1, <2>2, <2>3 DEF PickHead, InstallEntryList
  <2> QED BY <2>1, <2>3, EntryListFrame
<1>7. wakee' \in [Threads -> Threads \cup {NULL}]
  <2>1. /\ EntryList \in Seq(Threads) /\ WaitSet \in Seq(Threads)
        /\ wakee \in [Threads -> Threads \cup {NULL}]
    BY DEF TypeOK
  <2>2. (EntryList # <<>> => Head(EntryList) \in Threads) /\ (WaitSet # <<>> => Head(WaitSet) \in Threads)
    BY <2>1, ListType
  <2> QED BY <2>1, <2>2, WakeeFrame DEF ReadOnDeck, PickHead, Recheck, Unpark, Transfer, SetNotified
<1>8. WaitSet' \in Seq(Threads)
  <2>1. WaitSet \in Seq(Threads)
    BY DEF TypeOK
  <2>2. CASE Transfer(t) \/ SetNotified(t)
    <3>1. WaitSet # <<>> => Tail(WaitSet) \in Seq(Threads)
      BY <2>1, ListType
    <3> QED BY <2>1, <2>2, <3>1 DEF Transfer, SetNotified
  <2>3. CASE AddWaiter(t)
    <3>1. <<t>> \o WaitSet \in Seq(Threads)
      BY <2>1, ListType
    <3> QED BY <2>3, <3>1 DEF AddWaiter
  <2>4. CASE RemoveSelf(t)
    <3>1. \A i \in DOMAIN WaitSet : Omit(WaitSet, i) \in Seq(Threads)
      BY <2>1, ListType
    <3> QED BY <2>1, <2>4, <3>1 DEF RemoveSelf
  <2> QED BY <2>1, <2>2, <2>3, <2>4, WaitFrame DEF waitVars
<1>11. WaitLock' \in Threads \cup {NULL} /\ Notified' \in [Threads -> BOOLEAN]
  <2>1. WaitLock \in Threads \cup {NULL} /\ Notified \in [Threads -> BOOLEAN]
    BY DEF TypeOK
  <2> QED BY <2>1, WaitFrame DEF waitVars, Transfer, SetNotified, AddWaiter, RemoveSelf
<1>9. owner' \in Threads \cup {NULL} /\ snuck' \in BOOLEAN
  <2>1. owner \in Threads \cup {NULL} /\ snuck \in BOOLEAN
    BY DEF TypeOK
  <2> QED BY <2>1, OwnerFrame DEF ownVars, SneakTest, TrySneak, SetOwner, UnlockCall, WaitCall
<1>10. safepoint' \in BOOLEAN
  BY SafepointFrame DEF TypeOK
<1> QED BY <1>1, <1>2, <1>3, <1>4, <1>5, <1>6, <1>7, <1>8, <1>9, <1>10, <1>11 DEF TypeOK

\* The safepoint's steps do as well.
LEMMA IdleTypeStep ==
  ASSUME ControlInv, [Next]_vars, ~\E t \in Threads : Call(t) \/ Step(t)
  PROVE  ControlInv'
<1>1. safepoint' \in BOOLEAN
  BY DEF ControlInv, TypeOK, Next, BeginSafepoint, EndSafepoint, vars
<1>2. UNCHANGED <<LockByte, cxq, OnDeck, EntryList, WaitSet, WaitLock, owner, snuck,
                  Event, Notified, pc, op, wakee, seg>>
  BY IdleFrame
<1>3. TypeOK'
  BY <1>1, <1>2 DEF ControlInv, TypeOK
<1>4. EventInv'
  BY <1>2 DEF ControlInv, EventInv
<1>5. OpInv'
  BY <1>2 DEF ControlInv, OpInv
<1>6. SnuckInv'
  BY <1>2 DEF ControlInv, SnuckInv
<1> QED BY <1>3, <1>4, <1>5, <1>6 DEF ControlInv

\* The initial state is such a state.
LEMMA InitControl ==
  ASSUME Init PROVE ControlInv
<1> USE ThreadAssumption DEF Init
<1>1. /\ pc \in [Threads -> Pcs] /\ op \in [Threads -> Ops]
      /\ EventInv /\ OpInv /\ SnuckInv
  BY SMTT(60) DEF EventInv, OpInv, SnuckInv, WaitingPcs, IUnlockPcs, Pcs, Ops
<1>2. /\ cxq \in Seq(Threads) /\ EntryList \in Seq(Threads) /\ WaitSet \in Seq(Threads)
      /\ seg \in [Threads -> Seq(Threads)]
  BY SMTT(60)
<1> QED BY <1>1, <1>2 DEF ControlInv, TypeOK

\* The variables of the monitor and of its threads keep their types: above
\* all _Event stays a permit and never falls below -1, whatever the order of
\* parks, unparks and timeouts.
THEOREM TypeCorrect == Spec => []TypeOK
<1>1. Init => ControlInv
  BY InitControl
<1>2. ControlInv /\ [Next]_vars => ControlInv'
  BY TypeStep, IdleTypeStep
<1>3. ControlInv => TypeOK
  BY DEF ControlInv
<1> QED BY <1>1, <1>2, <1>3, PTL DEF Spec

-----------------------------------------------------------------------------
(* The outer lock.                                                         *)

\* A step of t leaves the hold of every other thread alone, except that a
\* thread which unlocks after the VM thread snuck past it clears _snuck.
LEMMA HoldOthers ==
  ASSUME ControlInv, NEW t \in Threads, Call(t) \/ Step(t),
         ~(UnlockCall(t) /\ snuck)
  PROVE  \A u \in Threads \ {t} : Holds(u)' = Holds(u)
<1>1. \A u \in Threads \ {t} : pc'[u] = pc[u] /\ op'[u] = op[u]
  BY ControlStep DEF ControlInv, TypeOK
<1>2. \/ snuck' = snuck
      \/ snuck' = TRUE /\ t = VMThread
  <2>1. CASE UNCHANGED ownVars
    BY <2>1 DEF ownVars
  <2>2. CASE SneakTest(t) \/ TrySneak(t)
    BY <2>2 DEF SneakTest, TrySneak, CanSneak, ControlInv, SnuckInv
  <2>3. CASE SetOwner(t) \/ WaitCall(t) \/ UnlockCall(t)
    BY <2>3 DEF SetOwner, WaitCall, UnlockCall
  <2> QED BY <2>1, <2>2, <2>3, OwnerFrame
<1> QED BY <1>1, <1>2 DEF Holds, SnuckPast, ControlInv, TypeOK

\* Every step keeps the outer lock exclusive: taking the lock byte is the
\* only way in, and clearing it the only way out.
LEMMA LockByteStep ==
  ASSUME ControlInv, LockByteExclusion, NEW t \in Threads, Call(t) \/ Step(t)
  PROVE  LockByteExclusion'
<1>1. LockByte \in BOOLEAN /\ LockByte' \in BOOLEAN
  BY TypeStep DEF ControlInv, TypeOK
<1>2. HoldKind(t)
  BY ControlInvStep DEF ControlInv, TypeOK
<1>3. CASE UnlockCall(t) /\ snuck
  <2>1. /\ pc[t] = "owned" /\ pc'[t] = "idle" /\ LockByte' = LockByte /\ snuck' = FALSE
        /\ \A u \in Threads \ {t} : pc'[u] = pc[u] /\ op'[u] = op[u]
    BY <1>3, ControlStep DEF UnlockCall, Goto, ControlInv, TypeOK
  <2>2. VMThread \in Threads /\ pc[VMThread] \in {"exeunt", "owned"} /\ ~Holds(VMThread)
    BY <1>3 DEF ControlInv, SnuckInv, Holds, SnuckPast
  <2>3. ~Holds(t)' /\ \A u \in Threads \ {t, VMThread} : Holds(u)' = Holds(u)
    BY <2>1 DEF Holds, SnuckPast
  <2>4. CASE t = VMThread
    BY <2>1, <2>2, <2>3, <2>4 DEF LockByteExclusion
  <2>5. CASE t # VMThread
    <3>1. Holds(t) /\ Holds(VMThread)'
      BY <2>1, <2>2, <2>5 DEF Holds, SnuckPast
    <3> QED BY <2>1, <2>2, <2>3, <2>5, <3>1 DEF LockByteExclusion
  <2> QED BY <2>4, <2>5
<1>4. CASE ~(UnlockCall(t) /\ snuck)
  <2>1. \A u \in Threads \ {t} : Holds(u)' = Holds(u)
    BY <1>4, HoldOthers
  <2>2. CASE HoldSame(t)
    BY <2>1, <2>2 DEF HoldSame, LockByteExclusion
  <2>3. CASE HoldAcquire(t)
    BY <2>1, <2>3 DEF HoldAcquire, LockByteExclusion
  <2>4. CASE HoldRelease(t)
    BY <2>1, <2>4, <1>1 DEF HoldRelease, LockByteExclusion
  <2>5. CASE Transfer(t)
    <3>1. pc[t] = "transfer" /\ pc'[t] \in {"notified", "notify", "owned"} /\ snuck' = snuck
      BY <2>5 DEF Transfer, NotifyReturn, Goto, ownVars, ControlInv, TypeOK
    <3>2. Holds(t)
      BY <3>1 DEF Holds, SnuckPast, ControlInv, SnuckInv
    <3>3. Holds(t)'
      BY <3>1, <3>2 DEF Holds, SnuckPast
    <3>4. LockByte /\ (LockByte' = TRUE \/ LockByte' = LockByte)
      BY <3>2, <2>5, <1>1 DEF LockByteExclusion, Transfer
    <3> QED BY <2>1, <3>2, <3>3, <3>4 DEF LockByteExclusion
  <2> QED BY <1>2, <1>4, <2>2, <2>3, <2>4, <2>5 DEF HoldKind
<1> QED BY <1>3, <1>4

\* A safepoint step changes neither the lock byte nor who holds it.
LEMMA IdleLockByteStep ==
  ASSUME LockByteExclusion, [Next]_vars, ~\E t \in Threads : Call(t) \/ Step(t)
  PROVE  LockByteExclusion'
<1>1. UNCHANGED <<LockByte, snuck, pc, op>>
  BY IdleFrame
<1>2. \A u \in Threads : Holds(u)' <=> Holds(u)
  BY <1>1 DEF Holds, SnuckPast
<1> QED BY <1>1, <1>2 DEF LockByteExclusion

\* Mutual exclusion of the outer lock, for any number of threads: at most one
\* thread is between taking the lock byte and clearing it, in lock(), wait()
\* and notify() alike, and the byte is set exactly then.
THEOREM OuterLockCorrect == Spec => []LockByteExclusion
<1>1. Init => ControlInv /\ LockByteExclusion
  BY InitControl DEF Init, LockByteExclusion, Holds
<1>2. ControlInv /\ LockByteExclusion /\ [Next]_vars => (ControlInv /\ LockByteExclusion)'
  BY TypeStep, IdleTypeStep, LockByteStep, IdleLockByteStep
<1> QED BY <1>1, <1>2, PTL DEF Spec

-----------------------------------------------------------------------------
(* The inner lock and the OnDeck thread.                                   *)

OnDeckPcs == {"onDeck", "parkOnDeck", "parkedOnDeck", "clearOnDeck"}

\* InnerLockExclusion made inductive: the thread that competes for the lock
\* byte is the OnDeck one, so it never clears _OnDeck under another thread,
\* and the EntryList stays empty from the test that found it so.
InnerInv ==
  /\ InnerLockExclusion
  /\ \A t \in Threads : pc[t] = "drain" => EntryList = <<>>
  /\ \A t \in Threads : pc[t] \in OnDeckPcs => OnDeck = t

\* How a step of t moves it into and out of the inner lock.
LEMMA InnerKind ==
  ASSUME ControlInv, NEW t \in Threads, Call(t) \/ Step(t)
  PROVE  /\ Inner(t)' /\ ~Inner(t) => CasOnDeck(t)
         /\ Inner(t) /\ ~Inner(t)' => SetOnDeck(t) \/ Punt(t)
         /\ pc'[t] \in OnDeckPcs => pc[t] \in OnDeckPcs \/ CheckOnDeck(t)
         /\ pc'[t] = "install" => DrainCxq(t)
         /\ pc'[t] = "drain" => PickHead(t)
<1>1. pc \in [Threads -> Pcs] /\ op \in [Threads -> Ops]
  BY DEF ControlInv, TypeOK
<1> USE DEF Inner, OnDeckPcs, Goto, OpInv
<1>2. CASE Call(t)
  BY <1>1, <1>2 DEF Call, LockCall, LockNoCheckCall, TryLockCall, NotifyCall, WaitCall
<1>3. CASE LockStep(t)
  BY <1>1, <1>3 DEF LockStep, SneakTest, TrySneak, Contend, EnterTB, LeaveTB, SetOwner,
         UnlockCall
<1>4. CASE ILockStep(t)
  BY <1>1, <1>4 DEF ILockStep, ILockSpin, AfterILock, AcquireOrPush, CheckOnDeck,
         ParkOnList, Park, WakeUp, OnDeckSpin, ParkOnDeck, ClearOnDeck
<1>5. CASE IUnlockStep(t)
  BY <1>1, <1>5 DEF IUnlockStep, ReleaseOuter, ReadOnDeck, IUnlockReturn, ReadCxq,
         ReadEntry, CasOnDeck, PickHead, DrainCxq, InstallEntryList,
         SetOnDeck, Recheck, Unpark, Punt, Resample
<1>6. CASE NotifyStep(t)
  BY <1>1, <1>6 DEF NotifyStep, NotifyTest, Transfer, NotifyReturn, SetNotified
<1>7. CASE IWaitStep(t)
  BY <1>1, <1>7 DEF IWaitStep, AddWaiter, WaitLoop, WaitPark, Park, WakeUp, WaitTimeout,
         WaitOut, RemoveSelf, WaitDone, Resume
<1> QED BY <1>2, <1>3, <1>4, <1>5, <1>6, <1>7 DEF Step

\* Every step keeps InnerInv.
LEMMA InnerStep ==
  ASSUME ControlInv, InnerInv, NEW t \in Threads, Call(t) \/ Step(t)
  PROVE  InnerInv'
<1>1. /\ \A u \in Threads \ {t} : pc'[u] = pc[u]
      /\ \A u \in Threads \ {t} : Inner(u)' = Inner(u)
  BY ControlStep DEF ControlInv, TypeOK, Inner
<1>2. /\ Inner(t)' /\ ~Inner(t) => CasOnDeck(t)
      /\ Inner(t) /\ ~Inner(t)' => SetOnDeck(t) \/ Punt(t)
      /\ pc'[t] \in OnDeckPcs => pc[t] \in OnDeckPcs \/ CheckOnDeck(t)
      /\ pc'[t] = "install" => DrainCxq(t)
      /\ pc'[t] = "drain" => PickHead(t)
  BY InnerKind
<1>3. /\ pc \in [Threads -> Pcs] /\ wakee[t] \in Threads \cup {NULL}
      /\ LBIT \notin Threads /\ NULL \notin Threads /\ LBIT # NULL
  BY ThreadAssumption DEF ControlInv, TypeOK
<1>4. CASE UNCHANGED OnDeck
  <2>1. Inner(t)' = Inner(t)
    <3>1. CasOnDeck(t) => ~Inner(t)'
      BY <1>3, <1>4 DEF CasOnDeck, IUnlockReturn, Goto, Inner
    <3>2. ~SetOnDeck(t) /\ ~Punt(t)
      BY <1>3, <1>4 DEF SetOnDeck, Punt, InnerInv, InnerLockExclusion, Inner
    <3>3. Inner(t)' <=> Inner(t)
      BY <1>2, <3>1, <3>2
    <3>4. Inner(t) \in BOOLEAN /\ Inner(t)' \in BOOLEAN
      BY SMTT(60) DEF Inner
    <3> QED BY <3>3, <3>4
  <2>2. CASE EntryList' = EntryList
    <3>1. \A u \in Threads : pc'[u] \in {"install", "drain"} => EntryList' = <<>>
      <4>1. \A u \in Threads \ {t} : pc'[u] \in {"install", "drain"} => EntryList' = <<>>
        BY <1>1, <2>2 DEF InnerInv, InnerLockExclusion
      <4>2. pc'[t] = "install" => EntryList' = <<>>
        BY <1>2, <2>2 DEF InnerInv, DrainCxq
      <4>3. pc'[t] = "drain" => EntryList' = <<>>
        BY <1>2, <1>3, <2>2 DEF PickHead, Goto
      <4> QED BY <4>1, <4>2, <4>3
    <3>2. \A u \in Threads : pc'[u] \in OnDeckPcs => OnDeck' = u
      BY <1>1, <1>2, <1>3, <1>4 DEF InnerInv, CheckOnDeck, Goto, OnDeckPcs
    <3> QED BY <1>1, <1>4, <2>1, <3>1, <3>2 DEF InnerInv, InnerLockExclusion
  <2>3. CASE PickHead(t) \/ InstallEntryList(t)
    <3>1. Inner(t) /\ \A u \in Threads \ {t} : ~Inner(u) /\ pc'[u] \notin {"install", "drain"}
      BY <1>1, <2>3 DEF PickHead, InstallEntryList, InnerInv, InnerLockExclusion, Inner
    <3>2. pc'[t] \in {"install", "drain"} => EntryList' = <<>>
      BY <1>3, <2>3 DEF PickHead, InstallEntryList, Goto
    <3>3. \A u \in Threads : pc'[u] \in OnDeckPcs => OnDeck' = u
      BY <1>1, <1>3, <1>4, <2>3 DEF InnerInv, PickHead, InstallEntryList, Goto, OnDeckPcs
    <3> QED BY <1>1, <1>4, <2>1, <3>1, <3>2, <3>3 DEF InnerInv, InnerLockExclusion
  <2> QED BY <2>2, <2>3, EntryListFrame
<1>5. CASE ClearOnDeck(t)
  <2>1. pc[t] = "clearOnDeck" /\ OnDeck = t /\ OnDeck' = NULL /\ EntryList' = EntryList
        /\ pc'[t] \in {"waitDone", "leaveTB", "exeunt"}
    BY <1>3, <1>5 DEF ClearOnDeck, InnerInv, OnDeckPcs, Goto, AfterILock
  <2>2. \A u \in Threads : ~Inner(u) /\ ~Inner(u)'
    BY <1>1, <1>3, <2>1 DEF InnerInv, InnerLockExclusion, Inner
  <2>3. \A u \in Threads : pc'[u] \notin OnDeckPcs \cup {"install", "drain"}
    BY <1>1, <2>1, <2>2 DEF InnerInv, Inner, OnDeckPcs
  <2> QED BY <1>3, <2>1, <2>2, <2>3 DEF InnerInv, InnerLockExclusion
<1>6. CASE CasOnDeck(t) /\ OnDeck' # OnDeck
  <2>1. pc[t] = "casOnDeck" /\ OnDeck = NULL /\ OnDeck' = LBIT /\ EntryList' = EntryList
        /\ pc'[t] = "pickHead"
    BY <1>3, <1>6 DEF CasOnDeck, Goto
  <2>2. Inner(t)' /\ \A u \in Threads : ~Inner(u)
    BY <1>3, <2>1 DEF InnerInv, InnerLockExclusion, Inner
  <2>3. \A u \in Threads : pc'[u] \notin OnDeckPcs \cup {"install", "drain"}
    BY <1>1, <1>3, <2>1, <2>2 DEF InnerInv, Inner, OnDeckPcs
  <2> QED BY <1>1, <2>1, <2>2, <2>3 DEF InnerInv, InnerLockExclusion
<1>7. CASE SetOnDeck(t) \/ Punt(t)
  <2>1. /\ Inner(t) /\ OnDeck = LBIT /\ OnDeck' \in Threads \cup {NULL} /\ EntryList' = EntryList
        /\ pc'[t] \in {"recheck", "resample"}
    BY <1>3, <1>7 DEF SetOnDeck, Punt, Goto, InnerInv, InnerLockExclusion, Inner
  <2>2. \A u \in Threads : ~Inner(u)'
    BY <1>1, <2>1 DEF InnerInv, InnerLockExclusion, Inner
  <2>3. \A u \in Threads : pc'[u] \notin OnDeckPcs \cup {"install", "drain"}
    BY <1>1, <1>3, <2>1, <2>2 DEF InnerInv, Inner, OnDeckPcs
  <2> QED BY <1>3, <2>1, <2>2, <2>3 DEF InnerInv, InnerLockExclusion
<1> QED BY <1>4, <1>5, <1>6, <1>7, OnDeckFrame

\* The safepoint's steps do as well.
LEMMA IdleInnerStep ==
  ASSUME InnerInv, [Next]_vars, ~\E t \in Threads : Call(t) \/ Step(t)
  PROVE  InnerInv'
BY IdleFrame DEF InnerInv, InnerLockExclusion, Inner

\* What is known of every reachable state.
LockInv == ControlInv /\ LockByteExclusion /\ InnerInv

\* LockInv is an inductive invariant.
LEMMA LockInvariant == Spec => []LockInv
<1>1. Init => LockInv
  BY InitControl, ThreadAssumption
     DEF Init, LockInv, LockByteExclusion, Holds, InnerInv, InnerLockExclusion, Inner, OnDeckPcs
<1>2. LockInv /\ [Next]_vars => LockInv'
  BY TypeStep, IdleTypeStep, LockByteStep, IdleLockByteStep, InnerStep, IdleInnerStep DEF LockInv
<1> QED BY <1>1, <1>2, PTL DEF Spec

\* The inner lock, for any number of threads: _OnDeck is LBIT exactly while
\* one thread is inside IUnlock's succession, and it finds _EntryList empty
\* when it installs the segment it drained from the cxq.
THEOREM InnerLockCorrect == Spec => []InnerLockExclusion
<1>1. LockInv => InnerLockExclusion
  BY DEF LockInv, InnerInv
<1> QED BY <1>1, LockInvariant, PTL

\* A thread that was made OnDeck stays so until it has the lock byte itself:
\* no thread in IUnlock withdraws the designation.
THEOREM OnDeckIsStable == Spec => OnDeckStable
<1>1. LockInv /\ [Next]_vars =>
        [\A t \in Threads : OnDeck = t /\ OnDeck' # t => Holds(t) /\ OnDeck' = NULL]_vars
  <2> SUFFICES ASSUME LockInv, [Next]_vars, NEW u \in Threads, OnDeck = u, OnDeck' # u
               PROVE  Holds(u) /\ OnDeck' = NULL
    OBVIOUS
  <2>1. PICK t \in Threads : Call(t) \/ Step(t)
    BY IdleFrame
  <2>2. CASE ClearOnDeck(t)
    <3>1. pc[t] = "clearOnDeck" /\ OnDeck = t /\ OnDeck' = NULL
      BY <2>2 DEF ClearOnDeck, LockInv, InnerInv, OnDeckPcs
    <3> QED BY <3>1 DEF Holds, SnuckPast, LockInv, ControlInv, SnuckInv
  <2>3. ~CasOnDeck(t) /\ ~SetOnDeck(t) /\ ~Punt(t)
    BY ThreadAssumption
       DEF CasOnDeck, SetOnDeck, Punt, LockInv, InnerInv, InnerLockExclusion, Inner
  <2> QED BY <2>1, <2>2, <2>3, OnDeckFrame
<1> QED BY <1>1, LockInvariant, PTL DEF Spec, OnDeckStable

\* Only the thread that has the inner lock takes threads off the entry
\* queues; every other step on the cxq is a push while the lock is held.
THEOREM InnerLockIsProtection == Spec => InnerLockProtects
<1>1. LockInv /\ [Next]_vars =>
        [/\ EntryList' # EntryList => OnDeck = LBIT /\ OnDeck' = LBIT
         /\ cxq' # cxq => \/ Len(cxq') = Len(cxq) + 1 /\ Tail(cxq') = cxq /\ LockByte
                          \/ cxq' = <<>> /\ OnDeck = LBIT]_vars
  <2> SUFFICES ASSUME LockInv, [Next]_vars
               PROVE  /\ EntryList' # EntryList => OnDeck = LBIT /\ OnDeck' = LBIT
                      /\ cxq' # cxq => \/ Len(cxq') = Len(cxq) + 1 /\ Tail(cxq') = cxq /\ LockByte
                                       \/ cxq' = <<>> /\ OnDeck = LBIT
    OBVIOUS
  <2>1. ASSUME NEW t \in Threads, PickHead(t) \/ InstallEntryList(t)
        PROVE  OnDeck = LBIT /\ OnDeck' = LBIT
    BY <2>1 DEF PickHead, InstallEntryList, LockInv, InnerInv, InnerLockExclusion, Inner
  <2>2. ASSUME NEW t \in Threads, DrainCxq(t), cxq' # cxq PROVE cxq' = <<>> /\ OnDeck = LBIT
    BY <2>2 DEF DrainCxq, LockInv, InnerInv, InnerLockExclusion, Inner
  <2>3. \A e \in Threads : Len(<<e>> \o cxq) = Len(cxq) + 1 /\ Tail(<<e>> \o cxq) = cxq
    <3>1. cxq \in Seq(Threads)
      BY DEF LockInv, ControlInv, TypeOK
    <3> QED BY SMTT(60), <3>1
  <2>4. ASSUME NEW t \in Threads, AcquireOrPush(t), cxq' # cxq
        PROVE  Len(cxq') = Len(cxq) + 1 /\ Tail(cxq') = cxq /\ LockByte
    BY <2>3, <2>4 DEF AcquireOrPush
  <2>5. ASSUME NEW t \in Threads, Transfer(t), cxq' # cxq
        PROVE  Len(cxq') = Len(cxq) + 1 /\ Tail(cxq') = cxq /\ LockByte
    <3>1. WaitSet # <<>> => Head(WaitSet) \in Threads
      BY ListType DEF LockInv, ControlInv, TypeOK
    <3>2. Holds(t)
      BY <2>5 DEF Transfer, Holds, SnuckPast, LockInv, ControlInv, SnuckInv
    <3>3. LockByte
      BY <3>2 DEF LockInv, LockByteExclusion
    <3> QED BY <2>3, <2>5, <3>1, <3>3 DEF Transfer
  <2> QED BY <2>1, <2>2, <2>4, <2>5, EntryListFrame, CxqFrame, IdleFrame
<1> QED BY <1>1, LockInvariant, PTL DEF Spec, InnerLockProtects

-----------------------------------------------------------------------------
(* Sneaking.                                                               *)

\* No thread but Java threads competes with the VM thread for the monitor.
OnlyJavaCompetes == VMThread \in Threads => Threads = JavaThreads \cup {VMThread}

InsidePcs == CriticalPcs \cup {"exeunt"}

\* OwnerExclusion made inductive: during a safepoint the Java threads stay at
\* safe locations, and the VM thread sneaks only during one.
OwnerInv ==
  /\ OwnerExclusion
  /\ \A t \in Threads : owner = t => pc[t] \in CriticalPcs
  /\ safepoint => VMThread \in Threads /\ \A t \in JavaThreads : SafepointSafe(t)
  /\ snuck \/ (\E t \in Threads : pc[t] = "trySneak") => safepoint

\* A stopped Java thread moves only between safe locations.
LEMMA SafeStep ==
  ASSUME ControlInv, safepoint, NEW t \in JavaThreads, SafepointSafe(t), Call(t) \/ Step(t)
  PROVE  SafepointSafe(t)' /\ pc'[t] \notin InsidePcs
<1>1. pc \in [Threads -> Pcs] /\ op \in [Threads -> Ops] /\ OpInv
  BY DEF ControlInv, TypeOK
<1> USE ThreadAssumption
<1> USE DEF SafepointSafe, InsidePcs, CriticalPcs, ILockPcs, IUnlockPcs, IWaitPcs, WaitOps, Goto, OpInv
<1>2. CASE Call(t)
  BY <1>1, <1>2 DEF Call, LockCall, MayPassTransition, LockNoCheckCall, TryLockCall,
         NotifyCall, WaitCall
<1>3. CASE LockStep(t)
  BY <1>1, <1>3 DEF LockStep, SneakTest, TrySneak, Contend, EnterTB, MayPassTransition,
         LeaveTB, SetOwner, UnlockCall
<1>4. CASE ILockStep(t)
  <2>1. CASE ILockSpin(t)
    BY <1>1, <2>1 DEF ILockSpin, AfterILock
  <2>2. CASE AcquireOrPush(t)
    BY <1>1, <2>2 DEF AcquireOrPush, AfterILock
  <2>3. CASE CheckOnDeck(t)
    BY <1>1, <2>3 DEF CheckOnDeck
  <2>4. CASE ParkOnList(t)
    BY <1>1, <2>4 DEF ParkOnList, Park, WakeUp
  <2>5. CASE OnDeckSpin(t)
    BY <1>1, <2>5 DEF OnDeckSpin
  <2>6. CASE ParkOnDeck(t)
    BY <1>1, <2>6 DEF ParkOnDeck, Park, WakeUp
  <2>7. CASE ClearOnDeck(t)
    BY <1>1, <2>7 DEF ClearOnDeck, AfterILock
  <2> QED BY <1>4, <2>1, <2>2, <2>3, <2>4, <2>5, <2>6, <2>7 DEF ILockStep
<1>5. CASE IUnlockStep(t)
  <2>1. CASE ReleaseOuter(t)
    BY <1>1, <2>1 DEF ReleaseOuter
  <2>2. CASE ReadOnDeck(t)
    BY <1>1, <2>2 DEF ReadOnDeck, IUnlockReturn
  <2>3. CASE ReadCxq(t)
    BY <1>1, <2>3 DEF ReadCxq, IUnlockReturn
  <2>4. CASE ReadEntry(t)
    BY <1>1, <2>4 DEF ReadEntry, IUnlockReturn
  <2>5. CASE CasOnDeck(t)
    BY <1>1, <2>5 DEF CasOnDeck, IUnlockReturn
  <2>6. CASE PickHead(t)
    BY <1>1, <2>6 DEF PickHead
  <2>7. CASE DrainCxq(t)
    BY <1>1, <2>7 DEF DrainCxq
  <2>8. CASE InstallEntryList(t)
    BY <1>1, <2>8 DEF InstallEntryList
  <2>9. CASE SetOnDeck(t)
    BY <1>1, <2>9 DEF SetOnDeck
  <2>10. CASE Recheck(t)
    BY <1>1, <2>10 DEF Recheck, IUnlockReturn
  <2>11. CASE Unpark(t)
    BY <1>1, <2>11 DEF Unpark, IUnlockReturn
  <2>12. CASE Punt(t)
    BY <1>1, <2>12 DEF Punt
  <2>13. CASE Resample(t)
    BY <1>1, <2>13 DEF Resample, IUnlockReturn
  <2> QED BY <1>5, <2>1, <2>2, <2>3, <2>4, <2>5, <2>6, <2>7, <2>8, <2>9, <2>10, <2>11, <2>12, <2>13 DEF IUnlockStep
<1>6. CASE NotifyStep(t)
  BY <1>1, <1>6 DEF NotifyStep, NotifyTest, Transfer, NotifyReturn, SetNotified
<1>7. CASE IWaitStep(t)
  <2>1. CASE AddWaiter(t)
    BY <1>1, <2>1 DEF AddWaiter
  <2>2. CASE WaitLoop(t)
    BY <1>1, <2>2 DEF WaitLoop
  <2>3. CASE WaitPark(t)
    BY <1>1, <2>3 DEF WaitPark, Park, WakeUp
  <2>4. CASE WaitTimeout(t)
    BY <1>1, <2>4 DEF WaitTimeout
  <2>5. CASE WaitOut(t)
    BY <1>1, <2>5 DEF WaitOut
  <2>6. CASE RemoveSelf(t)
    BY <1>1, <2>6 DEF RemoveSelf
  <2>7. CASE WaitDone(t)
    BY <1>1, <2>7 DEF WaitDone
  <2>8. CASE Resume(t)
    BY <1>1, <2>8 DEF Resume
  <2> QED BY <1>7, <2>1, <2>2, <2>3, <2>4, <2>5, <2>6, <2>7, <2>8 DEF IWaitStep
<1> QED BY <1>2, <1>3, <1>4, <1>5, <1>6, <1>7 DEF Step

\* Two threads are never past the lock at once.
LEMMA Alone ==
  ASSUME OnlyJavaCompetes, LockInv, OwnerInv, NEW t \in Threads, NEW u \in Threads,
         pc[t] \in InsidePcs \cup {"trySneak"}, pc[u] \in InsidePcs
  PROVE  t = u
<1>1. SUFFICES ASSUME t # u PROVE FALSE
  OBVIOUS
<1>2. \A v \in {t, u} : v \in JavaThreads => ~SafepointSafe(v)
  BY DEF SafepointSafe, InsidePcs, CriticalPcs, ILockPcs, IUnlockPcs, IWaitPcs
<1>3. CASE safepoint
  BY SMTT(60), <1>1, <1>2, <1>3 DEF OnlyJavaCompetes, OwnerInv
<1>4. CASE ~safepoint
  <2>1. ~snuck /\ pc[t] # "trySneak"
    BY <1>4 DEF OwnerInv
  <2>2. Holds(t) /\ Holds(u)
    BY <2>1 DEF Holds, SnuckPast, InsidePcs, CriticalPcs
  <2> QED BY <1>1, <2>2 DEF LockInv, LockByteExclusion
<1> QED BY <1>3, <1>4

\* How a step of t brings it past the lock.
LEMMA InsideKind ==
  ASSUME ControlInv, NEW t \in Threads, Call(t) \/ Step(t)
  PROVE  /\ pc'[t] \in InsidePcs =>
              \/ pc[t] \in InsidePcs
              \/ HoldAcquire(t) /\ pc'[t] = "exeunt"
              \/ Holds(t) /\ pc'[t] = "exeunt"
              \/ SneakTest(t) /\ pc'[t] = "exeunt" /\ owner = NULL
              \/ TrySneak(t)
         /\ pc'[t] = "trySneak" => safepoint
         /\ pc'[t] = "exeunt" => pc[t] # "exeunt" /\ UNCHANGED owner
<1>1. pc \in [Threads -> Pcs] /\ op \in [Threads -> Ops]
      /\ SnuckInv /\ LockByte \in BOOLEAN
  BY DEF ControlInv, TypeOK
<1> USE DEF InsidePcs, CriticalPcs, Goto, HoldAcquire, Holds, SnuckPast, WaitOps, CanSneak, SnuckInv, ownVars
<1>2. CASE Call(t)
  <2>1. CASE LockCall(t)
    BY <1>1, <2>1 DEF LockCall, TryLock
  <2>2. CASE LockNoCheckCall(t)
    BY <1>1, <2>2 DEF LockNoCheckCall
  <2>3. CASE TryLockCall(t)
    BY <1>1, <2>3 DEF TryLockCall, TryLock
  <2>4. CASE NotifyCall(t)
    BY <1>1, <2>4 DEF NotifyCall
  <2>5. CASE WaitCall(t)
    BY <1>1, <2>5 DEF WaitCall
  <2> QED BY <1>2, <2>1, <2>2, <2>3, <2>4, <2>5 DEF Call
<1>3. CASE LockStep(t)
  <2>1. CASE SneakTest(t)
    BY <1>1, <2>1 DEF SneakTest
  <2>2. CASE TrySneak(t)
    BY <1>1, <2>2 DEF TrySneak
  <2>3. CASE Contend(t)
    BY <1>1, <2>3 DEF Contend, TryLock
  <2>4. CASE EnterTB(t)
    BY <1>1, <2>4 DEF EnterTB
  <2>5. CASE LeaveTB(t)
    BY <1>1, <2>5 DEF LeaveTB
  <2>6. CASE SetOwner(t)
    BY <1>1, <2>6 DEF SetOwner
  <2>7. CASE UnlockCall(t)
    BY <1>1, <2>7 DEF UnlockCall
  <2> QED BY <1>3, <2>1, <2>2, <2>3, <2>4, <2>5, <2>6, <2>7 DEF LockStep
<1>4. CASE ILockStep(t)
  <2>1. CASE ILockSpin(t)
    BY <1>1, <2>1 DEF ILockSpin, AfterILock, TryLock
  <2>2. CASE AcquireOrPush(t)
    BY <1>1, <2>2 DEF AcquireOrPush, AfterILock, TryLock
  <2>3. CASE CheckOnDeck(t)
    BY <1>1, <2>3 DEF CheckOnDeck
  <2>4. CASE ParkOnList(t)
    BY <1>1, <2>4 DEF ParkOnList, Park, WakeUp
  <2>5. CASE OnDeckSpin(t)
    BY <1>1, <2>5 DEF OnDeckSpin, TryLock
  <2>6. CASE ParkOnDeck(t)
    BY <1>1, <2>6 DEF ParkOnDeck, Park, WakeUp
  <2>7. CASE ClearOnDeck(t)
    BY <1>1, <2>7 DEF ClearOnDeck, AfterILock
  <2> QED BY <1>4, <2>1, <2>2, <2>3, <2>4, <2>5, <2>6, <2>7 DEF ILockStep
<1>5. CASE IUnlockStep(t)
  BY <1>1, <1>5 DEF IUnlockStep, ReleaseOuter, ReadOnDeck, IUnlockReturn, ReadCxq,
         ReadEntry, CasOnDeck, PickHead, DrainCxq, InstallEntryList,
         SetOnDeck, Recheck, Unpark, Punt, Resample
<1>6. CASE NotifyStep(t)
  BY <1>1, <1>6 DEF NotifyStep, NotifyTest, Transfer, NotifyReturn, SetNotified
<1>7. CASE IWaitStep(t)
  <2>1. CASE AddWaiter(t)
    BY <1>1, <2>1 DEF AddWaiter
  <2>2. CASE WaitLoop(t)
    BY <1>1, <2>2 DEF WaitLoop
  <2>3. CASE WaitPark(t)
    BY <1>1, <2>3 DEF WaitPark, Park, WakeUp
  <2>4. CASE WaitTimeout(t)
    BY <1>1, <2>4 DEF WaitTimeout
  <2>5. CASE WaitOut(t)
    BY <1>1, <2>5 DEF WaitOut
  <2>6. CASE RemoveSelf(t)
    BY <1>1, <2>6 DEF RemoveSelf
  <2>7. CASE WaitDone(t)
    BY <1>1, <2>7 DEF WaitDone
  <2>8. CASE Resume(t)
    BY <1>1, <2>8 DEF Resume
  <2> QED BY <1>7, <2>1, <2>2, <2>3, <2>4, <2>5, <2>6, <2>7, <2>8 DEF IWaitStep
<1> QED BY <1>2, <1>3, <1>4, <1>5, <1>6, <1>7 DEF Step

\* The critical section is entered and left where _owner is set and cleared.
LEMMA CriticalKind ==
  ASSUME ControlInv, NEW t \in Threads, Call(t) \/ Step(t)
  PROVE  /\ pc'[t] \in CriticalPcs => pc[t] \in CriticalPcs \/ SetOwner(t) \/ TrySneak(t)
         /\ pc[t] \in CriticalPcs => pc'[t] \in CriticalPcs \/ UnlockCall(t) \/ WaitCall(t)
<1>1. pc \in [Threads -> Pcs] /\ op \in [Threads -> Ops]
  BY DEF ControlInv, TypeOK
<1> USE DEF CriticalPcs, Goto
<1>2. CASE Call(t)
  BY <1>1, <1>2 DEF Call, LockCall, LockNoCheckCall, TryLockCall, NotifyCall, WaitCall
<1>3. CASE LockStep(t)
  BY <1>1, <1>3 DEF LockStep, SneakTest, TrySneak, Contend, EnterTB, LeaveTB, SetOwner,
         UnlockCall
<1>4. CASE ILockStep(t)
  BY <1>1, <1>4 DEF ILockStep, ILockSpin, AfterILock, AcquireOrPush, CheckOnDeck,
         ParkOnList, Park, WakeUp, OnDeckSpin, ParkOnDeck, ClearOnDeck
<1>5. CASE IUnlockStep(t)
  BY <1>1, <1>5 DEF IUnlockStep, ReleaseOuter, ReadOnDeck, IUnlockReturn, ReadCxq,
         ReadEntry, CasOnDeck, PickHead, DrainCxq, InstallEntryList,
         SetOnDeck, Recheck, Unpark, Punt, Resample
<1>6. CASE NotifyStep(t)
  BY <1>1, <1>6 DEF NotifyStep, NotifyTest, Transfer, NotifyReturn, SetNotified
<1>7. CASE IWaitStep(t)
  BY <1>1, <1>7 DEF IWaitStep, AddWaiter, WaitLoop, WaitPark, Park, WakeUp, WaitTimeout,
         WaitOut, RemoveSelf, WaitDone, Resume
<1> QED BY <1>2, <1>3, <1>4, <1>5, <1>6, <1>7 DEF Step

\* Every step keeps OwnerInv.
LEMMA OwnerStep ==
  ASSUME OnlyJavaCompetes, LockInv, OwnerInv, NEW t \in Threads, Call(t) \/ Step(t)
  PROVE  OwnerInv'
<1>1. /\ \A u \in Threads \ {t} : pc'[u] = pc[u] /\ op'[u] = op[u]
      /\ safepoint' = safepoint /\ JavaThreads \subseteq Threads /\ NULL \notin Threads
      /\ pc \in [Threads -> Pcs] /\ snuck \in BOOLEAN
  BY ControlStep, SafepointFrame, ThreadAssumption DEF LockInv, ControlInv, TypeOK
<1>2. safepoint' => VMThread \in Threads /\ \A u \in JavaThreads : SafepointSafe(u)'
  <2> SUFFICES ASSUME safepoint, NEW u \in JavaThreads PROVE SafepointSafe(u)'
    BY <1>1 DEF OwnerInv
  <2>1. CASE u = t
    BY <2>1, SafeStep DEF OwnerInv, LockInv
  <2>2. CASE u # t
    BY <1>1, <2>2 DEF OwnerInv, SafepointSafe
  <2> QED BY <2>1, <2>2
<1>3. (snuck \/ \E u \in Threads : pc[u] = "trySneak")' => safepoint'
  <2>1. pc'[t] = "trySneak" => safepoint
    BY InsideKind DEF LockInv
  <2>2. snuck' => snuck \/ safepoint
    BY OwnerFrame DEF ownVars, SneakTest, TrySneak, SetOwner, UnlockCall, WaitCall, CanSneak, OwnerInv
  <2> QED BY <1>1, <2>1, <2>2 DEF OwnerInv
<1>4. ASSUME NEW u \in Threads \ {t}, pc[u] \in InsidePcs PROVE pc'[t] \notin InsidePcs
  <2>1. u \in JavaThreads => ~SafepointSafe(u)
    BY <1>4 DEF SafepointSafe, InsidePcs, CriticalPcs, ILockPcs, IUnlockPcs, IWaitPcs
  <2>2. CASE safepoint
    BY <2>1, <2>2, SafeStep DEF OnlyJavaCompetes, OwnerInv, LockInv
  <2>3. CASE ~safepoint
    <3>1. ~snuck /\ ~TrySneak(t)
      BY <2>3 DEF OwnerInv, TrySneak
    <3>2. Holds(u) /\ LockByte
      BY <1>4, <3>1 DEF Holds, SnuckPast, InsidePcs, CriticalPcs, LockInv, LockByteExclusion
    <3>3. ~Holds(t) /\ ~HoldAcquire(t) /\ pc[t] \notin InsidePcs
      BY <1>4, <3>2, Alone DEF LockInv, LockByteExclusion, HoldAcquire
    <3>4. SneakTest(t) => pc'[t] # "exeunt"
      BY <1>1, <2>3 DEF SneakTest, CanSneak, Goto
    <3> QED BY <3>1, <3>3, <3>4, InsideKind DEF LockInv
  <2> QED BY <2>2, <2>3
<1>5. OwnerExclusion' /\ \A u \in Threads : owner' = u => pc'[u] \in CriticalPcs
  <2>1. CASE owner' = owner /\ ~UnlockCall(t) /\ ~WaitCall(t) /\ ~SetOwner(t) /\ ~TrySneak(t)
    <3>1. pc'[t] \in CriticalPcs <=> pc[t] \in CriticalPcs
      BY <2>1, CriticalKind DEF LockInv
    <3>2. pc'[t] = "exeunt" => owner = NULL
      <4>1. SUFFICES ASSUME pc'[t] = "exeunt", owner # NULL PROVE FALSE
        OBVIOUS
      <4>2. PICK u \in Threads : owner = u /\ pc[u] \in CriticalPcs
        BY <4>1 DEF OwnerInv, LockInv, ControlInv, TypeOK
      <4>3. u = t
        BY <1>4, <4>1, <4>2 DEF InsidePcs
      <4> QED BY <3>1, <4>1, <4>2, <4>3 DEF CriticalPcs
    <3> QED BY <1>1, <2>1, <3>1, <3>2 DEF OwnerInv, OwnerExclusion
  <2>2. CASE SetOwner(t) \/ TrySneak(t)
    <3>1. owner' = t /\ pc'[t] = "owned" /\ pc[t] \in {"exeunt", "trySneak"}
      BY <1>1, <2>2 DEF SetOwner, TrySneak, Goto
    <3>2. \A u \in Threads \ {t} : pc'[u] \notin InsidePcs
      BY <1>1, <1>4, <3>1 DEF InsidePcs, CriticalPcs
    <3> QED BY <1>1, <3>1, <3>2 DEF OwnerExclusion, InsidePcs, CriticalPcs
  <2>3. CASE UnlockCall(t) \/ WaitCall(t)
    <3>1. /\ owner' = NULL /\ pc[t] = "owned"
          /\ pc'[t] \in {"idle", "release", "enterTB", "addWaiter"}
      BY <1>1, <2>3 DEF UnlockCall, WaitCall, Goto
    <3>2. \A u \in Threads \ {t} : pc'[u] \notin CriticalPcs
      BY <1>1, <3>1 DEF OwnerInv, OwnerExclusion, CriticalPcs
    <3> QED BY <1>1, <3>1, <3>2 DEF OwnerExclusion, CriticalPcs
  <2>4. owner' = owner \/ SetOwner(t) \/ TrySneak(t) \/ UnlockCall(t) \/ WaitCall(t)
    BY OwnerFrame DEF ownVars, SneakTest
  <2> QED BY <2>1, <2>2, <2>3, <2>4
<1> QED BY <1>2, <1>3, <1>5 DEF OwnerInv

\* A safepoint begins only when every Java thread is safe, and ends only when
\* the VM thread is outside.
LEMMA IdleOwnerStep ==
  ASSUME LockInv, OwnerInv, [Next]_vars, ~\E t \in Threads : Call(t) \/ Step(t)
  PROVE  OwnerInv'
<1>1. UNCHANGED <<owner, snuck, pc, op>>
  BY IdleFrame
<1>2. \A t : SafepointSafe(t)' = SafepointSafe(t)
  BY <1>1 DEF SafepointSafe
<1>3. \/ BeginSafepoint \/ EndSafepoint \/ UNCHANGED safepoint
  BY DEF Next, vars
<1>4. safepoint' => VMThread \in Threads /\ \A t \in JavaThreads : SafepointSafe(t)'
  BY <1>2, <1>3 DEF BeginSafepoint, EndSafepoint, OwnerInv
<1>5. snuck' \/ (\E t \in Threads : pc'[t] = "trySneak") => safepoint'
  BY <1>1, <1>3 DEF BeginSafepoint, EndSafepoint, OwnerInv, LockInv, ControlInv, SnuckInv
<1> QED BY <1>1, <1>4, <1>5 DEF OwnerInv, OwnerExclusion

\* Sneaking is safe when only Java threads compete with the VM thread: _owner
\* always names the one thread in its critical section, even while the VM
\* thread pretends to have a lock that a stopped Java thread has taken.
THEOREM SneakingIsSafe ==
  ASSUME OnlyJavaCompetes
  PROVE  Spec => []OwnerExclusion
<1>1. Init => OwnerInv
  BY SMTT(60), ThreadAssumption DEF Init, OwnerInv, OwnerExclusion, CriticalPcs
<1>2. LockInv /\ OwnerInv /\ [Next]_vars => OwnerInv'
  BY OwnerStep, IdleOwnerStep
<1>3. OwnerInv => OwnerExclusion
  BY DEF OwnerInv
<1> QED BY <1>1, <1>2, <1>3, LockInvariant, PTL DEF Spec

-----------------------------------------------------------------------------
(* Waiters.                                                                *)

\* The thread is in IWait, from its registration on the WaitSet until it
\* knows that it was notified or has unlinked itself.
Waiting(t) == op[t] \in {"wait", "timedwait"} /\ pc[t] \in IUnlockPcs \cup WaitingPcs

BeingNotified(t) == \E u \in Threads : pc[u] = "notified" /\ wakee[u] = t

\* The WaitSet is known exactly from the waiters' Notified flags and the
\* notification in progress, which the WaitLock covers; and a waiter is on
\* the WaitSet before it releases the lock.
WaitInv ==
  /\ Injective(WaitSet)
  /\ \A t \in In(WaitSet) : Waiting(t)
  /\ \A t \in Threads :
       Waiting(t) => (t \in In(WaitSet) <=> ~Notified[t] /\ ~BeingNotified(t))
  /\ \A t \in Threads : pc[t] = "notified" <=> WaitLock = t
  /\ \A t \in Threads : pc[t] = "release" /\ Waiting(t) => t \in In(WaitSet)

\* How a step of t makes it a waiter, ends its wait, or notifies.
LEMMA WaitKind ==
  ASSUME ControlInv, NEW t \in Threads, Call(t) \/ Step(t)
  PROVE  /\ Waiting(t)' /\ ~Waiting(t) => AddWaiter(t)
         /\ Waiting(t) /\ ~Waiting(t)' => RemoveSelf(t) \/ Notified[t]
         /\ pc'[t] = "notified" => Transfer(t)
         /\ pc[t] = "notified" => SetNotified(t)
         /\ pc'[t] = "release" /\ Waiting(t)' => AddWaiter(t)
<1>1. pc \in [Threads -> Pcs] /\ op \in [Threads -> Ops] /\ OpInv
  BY DEF ControlInv, TypeOK
<1> USE DEF Waiting, WaitingPcs, IUnlockPcs, OpInv, Goto
<1>2. CASE Call(t)
  BY SMTT(60), <1>1, <1>2 DEF Call, LockCall, LockNoCheckCall, TryLockCall, NotifyCall, WaitCall
<1>3. CASE LockStep(t)
  BY <1>1, <1>3 DEF LockStep, SneakTest, TrySneak, Contend, EnterTB, LeaveTB, SetOwner,
         UnlockCall
<1>4. CASE ILockStep(t)
  <2>1. CASE ILockSpin(t)
    BY <1>1, <2>1 DEF ILockSpin, AfterILock
  <2>2. CASE AcquireOrPush(t)
    BY <1>1, <2>2 DEF AcquireOrPush, AfterILock
  <2>3. CASE CheckOnDeck(t)
    BY <1>1, <2>3 DEF CheckOnDeck, AfterILock
  <2>4. CASE ParkOnList(t)
    BY <1>1, <2>4 DEF ParkOnList, Park, WakeUp, AfterILock
  <2>5. CASE OnDeckSpin(t)
    BY <1>1, <2>5 DEF OnDeckSpin, AfterILock
  <2>6. CASE ParkOnDeck(t)
    BY <1>1, <2>6 DEF ParkOnDeck, Park, WakeUp, AfterILock
  <2>7. CASE ClearOnDeck(t)
    BY <1>1, <2>7 DEF ClearOnDeck, AfterILock
  <2> QED BY <1>4, <2>1, <2>2, <2>3, <2>4, <2>5, <2>6, <2>7 DEF ILockStep
<1>5. CASE IUnlockStep(t)
  <2>1. CASE ReleaseOuter(t)
    BY <1>1, <2>1 DEF ReleaseOuter
  <2>2. CASE ReadOnDeck(t)
    BY <1>1, <2>2 DEF ReadOnDeck, IUnlockReturn
  <2>3. CASE ReadCxq(t)
    BY <1>1, <2>3 DEF ReadCxq, IUnlockReturn
  <2>4. CASE ReadEntry(t)
    BY <1>1, <2>4 DEF ReadEntry, IUnlockReturn
  <2>5. CASE CasOnDeck(t)
    BY <1>1, <2>5 DEF CasOnDeck, IUnlockReturn
  <2>6. CASE PickHead(t)
    BY <1>1, <2>6 DEF PickHead
  <2>7. CASE DrainCxq(t)
    BY <1>1, <2>7 DEF DrainCxq
  <2>8. CASE InstallEntryList(t)
    BY <1>1, <2>8 DEF InstallEntryList
  <2>9. CASE SetOnDeck(t)
    BY <1>1, <2>9 DEF SetOnDeck
  <2>10. CASE Recheck(t)
    BY <1>1, <2>10 DEF Recheck, IUnlockReturn
  <2>11. CASE Unpark(t)
    BY <1>1, <2>11 DEF Unpark, IUnlockReturn
  <2>12. CASE Punt(t)
    BY <1>1, <2>12 DEF Punt
  <2>13. CASE Resample(t)
    BY <1>1, <2>13 DEF Resample, IUnlockReturn
  <2> QED BY <1>5, <2>1, <2>2, <2>3, <2>4, <2>5, <2>6, <2>7, <2>8, <2>9, <2>10, <2>11, <2>12, <2>13 DEF IUnlockStep
<1>6. CASE NotifyStep(t)
  BY <1>1, <1>6 DEF NotifyStep, NotifyTest, Transfer, NotifyReturn, SetNotified
<1>7. CASE IWaitStep(t)
  <2>1. CASE AddWaiter(t)
    BY <1>1, <2>1 DEF AddWaiter
  <2>2. CASE WaitLoop(t)
    BY <1>1, <2>2 DEF WaitLoop
  <2>3. CASE WaitPark(t)
    BY <1>1, <2>3 DEF WaitPark, Park, WakeUp
  <2>4. CASE WaitTimeout(t)
    BY <1>1, <2>4 DEF WaitTimeout
  <2>5. CASE WaitOut(t)
    BY <1>1, <2>5 DEF WaitOut
  <2>6. CASE RemoveSelf(t)
    BY <1>1, <2>6 DEF RemoveSelf
  <2>7. CASE WaitDone(t)
    BY <1>1, <2>7 DEF WaitDone
  <2>8. CASE Resume(t)
    BY <1>1, <2>8 DEF Resume
  <2> QED BY <1>7, <2>1, <2>2, <2>3, <2>4, <2>5, <2>6, <2>7, <2>8 DEF IWaitStep
<1> QED BY <1>2, <1>3, <1>4, <1>5, <1>6, <1>7 DEF Step

\* Every step keeps WaitInv.
LEMMA WaitStep ==
  ASSUME LockInv, WaitInv, NEW t \in Threads, Call(t) \/ Step(t)
  PROVE  WaitInv'
<1>1. /\ pc \in [Threads -> Pcs] /\ op \in [Threads -> Ops] /\ Notified \in [Threads -> BOOLEAN]
      /\ wakee \in [Threads -> Threads \cup {NULL}]
      /\ WaitLock \in Threads \cup {NULL} /\ NULL \notin Threads
      /\ WaitSet \in Seq(Threads)
  BY ThreadAssumption DEF LockInv, ControlInv, TypeOK
<1>2. \A u \in Threads \ {t} : /\ pc'[u] = pc[u] /\ op'[u] = op[u] /\ wakee'[u] = wakee[u]
                               /\ Waiting(u)' = Waiting(u)
  <2>1. \A u \in Threads \ {t} : pc'[u] = pc[u] /\ op'[u] = op[u]
    BY <1>1, ControlStep
  <2>2. \A u \in Threads \ {t} : wakee'[u] = wakee[u]
    BY <1>1, WakeeFrame DEF ReadOnDeck, PickHead, Recheck, Unpark, Transfer, SetNotified
  <2> QED BY <2>1, <2>2 DEF Waiting
<1>3. /\ Waiting(t)' /\ ~Waiting(t) => AddWaiter(t)
      /\ Waiting(t) /\ ~Waiting(t)' => RemoveSelf(t) \/ Notified[t]
      /\ pc'[t] = "notified" => Transfer(t)
      /\ pc[t] = "notified" => SetNotified(t)
      /\ pc'[t] = "release" /\ Waiting(t)' => AddWaiter(t)
  BY WaitKind DEF LockInv
<1>4. In(WaitSet) \subseteq Threads
  BY SMTT(60), <1>1 DEF In
<1>5. CASE UNCHANGED waitVars /\ ~AddWaiter(t) /\ ~(RemoveSelf(t) /\ ~Notified[t])
  <2>1. WaitSet' = WaitSet /\ WaitLock' = WaitLock /\ Notified' = Notified
    BY <1>5 DEF waitVars
  <2>2. pc[t] # "notified"
    BY <1>1, <1>3, <2>1 DEF WaitInv, SetNotified
  <2>3. pc'[t] # "notified"
    BY <1>1, <1>3, <2>1 DEF Transfer, NotifyReturn, Goto
  <2>4. \A v \in Threads : BeingNotified(v)' = BeingNotified(v)
    BY <1>2, <2>2, <2>3 DEF BeingNotified
  <2>5. Waiting(t) /\ ~Waiting(t)' => t \notin In(WaitSet)
    BY <1>3, <1>5 DEF WaitInv
  <2>6. (Waiting(t)' => Waiting(t)) /\ ~(pc'[t] = "release" /\ Waiting(t)')
    BY <1>3, <1>5
  <2>7. In(WaitSet)' = In(WaitSet) /\ Injective(WaitSet)'
    BY SMTT(60), <2>1 DEF In, Injective, WaitInv
  <2>8. \A u \in In(WaitSet) : Waiting(u)'
    BY <1>2, <1>4, <2>5 DEF WaitInv
  <2>9. \A u \in Threads : Waiting(u)' => (u \in In(WaitSet) <=> ~Notified[u] /\ ~BeingNotified(u))
    BY <1>2, <2>6 DEF WaitInv
  <2>10. \A u \in Threads : pc'[u] = "notified" <=> WaitLock = u
    BY <1>2, <2>2, <2>3 DEF WaitInv
  <2>11. \A u \in Threads : pc'[u] = "release" /\ Waiting(u)' => u \in In(WaitSet)
    BY <1>2, <2>6 DEF WaitInv
  <2> QED BY <2>1, <2>4, <2>7, <2>8, <2>9, <2>10, <2>11 DEF WaitInv
<1>6. CASE Transfer(t) /\ WaitSet # <<>>
  <2> DEFINE h == Head(WaitSet)
  <2>1. /\ pc[t] = "transfer" /\ WaitLock = NULL /\ WaitLock' = t /\ wakee'[t] = h
        /\ WaitSet' = Tail(WaitSet) /\ pc'[t] = "notified" /\ Notified' = Notified
    BY <1>1, <1>6 DEF Transfer, Goto
  <2>2. /\ In(Tail(WaitSet)) = In(WaitSet) \ {h} /\ Injective(Tail(WaitSet))
        /\ h \in In(WaitSet)
    BY <1>1, <1>6, TailFacts DEF WaitInv
  <2>3. /\ \A u \in Threads : pc[u] # "notified"
        /\ \A v \in Threads : ~BeingNotified(v) /\ (BeingNotified(v)' <=> v = h)
    BY <1>1, <1>2, <2>1 DEF WaitInv, BeingNotified
  <2>4. \A u \in Threads : Waiting(u)' = Waiting(u)
    BY <1>2, <2>1 DEF Waiting, IUnlockPcs, WaitingPcs
  <2>5. \A u \in Threads : pc'[u] # "release"
    <3>1. \A u \in Threads : pc[u] = "release" => Holds(u)
      BY DEF Holds, SnuckPast, LockInv, ControlInv, SnuckInv
    <3>2. Holds(t)
      BY <2>1 DEF Holds, SnuckPast, LockInv, ControlInv, SnuckInv
    <3> QED BY <1>2, <2>1, <3>1, <3>2 DEF LockInv, LockByteExclusion
  <2>6. In(WaitSet)' = In(WaitSet) \ {h} /\ Injective(WaitSet)'
    <3> DEFINE T == Tail(WaitSet)
    <3>1. WaitSet' = T /\ In(T) = In(WaitSet) \ {h} /\ Injective(T)
      BY <2>1, <2>2
    <3> HIDE DEF T, h
    <3> QED BY <3>1 DEF In, Injective
  <2>7. \A u \in In(WaitSet)' : Waiting(u)'
    BY <1>4, <2>4, <2>6 DEF WaitInv
  <2>8. \A u \in Threads : Waiting(u)' => (u \in In(WaitSet)' <=> ~Notified'[u] /\ ~BeingNotified(u)')
    BY <2>1, <2>3, <2>4, <2>6 DEF WaitInv
  <2>9. \A u \in Threads : pc'[u] = "notified" <=> WaitLock' = u
    BY <1>2, <2>1, <2>3
  <2> QED BY <2>5, <2>6, <2>7, <2>8, <2>9 DEF WaitInv
<1>7. CASE SetNotified(t)
  <2> DEFINE w == wakee[t]
  <2>1. /\ pc[t] = "notified" /\ WaitLock' = NULL /\ WaitSet' = WaitSet
        /\ Notified' = [Notified EXCEPT ![w] = TRUE] /\ pc'[t] \in {"notify", "owned"}
    BY <1>1, <1>7 DEF SetNotified, NotifyReturn, Goto
  <2>2. \A u \in Threads : pc[u] = "notified" <=> u = t
    BY <2>1 DEF WaitInv
  <2>3. \A v \in Threads : (BeingNotified(v) <=> v = w) /\ ~BeingNotified(v)'
    BY <1>2, <2>1, <2>2 DEF BeingNotified
  <2>4. \A u \in Threads : Waiting(u)' = Waiting(u)
    BY <1>2, <2>1 DEF Waiting, IUnlockPcs, WaitingPcs
  <2>5. In(WaitSet)' = In(WaitSet) /\ Injective(WaitSet)'
    BY <2>1 DEF In, Injective, WaitInv
  <2>6. \A u \in Threads : Notified'[u] = IF u = w THEN TRUE ELSE Notified[u]
    BY <1>1, <2>1
  <2>7. \A u \in Threads : Waiting(u)' => (u \in In(WaitSet)' <=> ~Notified'[u] /\ ~BeingNotified(u)')
    BY <1>1, <2>3, <2>4, <2>5, <2>6 DEF WaitInv
  <2>8. \A u \in Threads : pc'[u] = "notified" <=> WaitLock' = u
    BY <1>1, <1>2, <2>1, <2>2
  <2>9. \A u \in Threads : pc'[u] = "release" /\ Waiting(u)' => u \in In(WaitSet)'
    BY <1>2, <2>1, <2>4, <2>5 DEF WaitInv
  <2> QED BY <1>4, <2>4, <2>5, <2>7, <2>8, <2>9 DEF WaitInv
<1>8. CASE AddWaiter(t)
  <2>1. /\ pc[t] = "addWaiter" /\ WaitLock = NULL /\ WaitLock' = NULL /\ pc'[t] = "release"
        /\ Notified' = [Notified EXCEPT ![t] = FALSE] /\ WaitSet' = <<t>> \o WaitSet
    BY <1>1, <1>8 DEF AddWaiter, Goto
  <2>2. t \notin In(WaitSet)
    BY <2>1 DEF WaitInv, Waiting, IUnlockPcs, WaitingPcs
  <2>3. In(WaitSet)' = In(WaitSet) \cup {t} /\ Injective(WaitSet)'
    <3>1. In(<<t>> \o WaitSet) = In(WaitSet) \cup {t} /\ Injective(<<t>> \o WaitSet)
      BY <1>1, <2>2, PushFacts DEF WaitInv
    <3> QED BY <2>1, <3>1 DEF In, Injective
  <2>4. \A u \in Threads : pc[u] # "notified" /\ pc'[u] # "notified"
    BY <1>1, <1>2, <2>1 DEF WaitInv
  <2>5. Waiting(t)'
    <3>1. op[t] \in {"wait", "timedwait"} /\ op' = op
      BY <1>8, <2>1 DEF AddWaiter, LockInv, ControlInv, OpInv
    <3> QED BY <2>1, <3>1 DEF Waiting, IUnlockPcs
  <2>6. \A u \in Threads : ~BeingNotified(u) /\ ~BeingNotified(u)'
    BY <2>4 DEF BeingNotified
  <2>7. \A u \in Threads : Notified'[u] = IF u = t THEN FALSE ELSE Notified[u]
    BY <1>1, <2>1
  <2>8. \A u \in Threads : Waiting(u)' => (u \in In(WaitSet)' <=> ~Notified'[u] /\ ~BeingNotified(u)')
    BY <1>2, <2>3, <2>6, <2>7 DEF WaitInv
  <2>9. \A u \in Threads : pc'[u] = "release" /\ Waiting(u)' => u \in In(WaitSet)'
    BY <1>2, <2>3 DEF WaitInv
  <2>10. \A u \in In(WaitSet)' : Waiting(u)'
    BY <1>2, <1>4, <2>3, <2>5 DEF WaitInv
  <2> QED BY <1>1, <2>1, <2>3, <2>4, <2>8, <2>9, <2>10 DEF WaitInv
<1>9. CASE RemoveSelf(t) /\ ~Notified[t]
  <2>1. PICK i \in DOMAIN WaitSet : WaitSet[i] = t /\ WaitSet' = Omit(WaitSet, i)
    BY <1>9 DEF RemoveSelf
  <2>2. /\ pc[t] = "removeSelf" /\ pc'[t] = "ilock" /\ WaitLock = NULL /\ WaitLock' = NULL
        /\ Notified' = Notified
    BY <1>1, <1>9 DEF RemoveSelf, Goto
  <2>3. In(WaitSet)' = In(WaitSet) \ {t} /\ Injective(WaitSet)'
    <3>1. In(Omit(WaitSet, i)) = In(WaitSet) \ {t} /\ Injective(Omit(WaitSet, i))
      BY <1>1, <2>1, OmitFacts DEF WaitInv
    <3> QED BY <2>1, <3>1 DEF In, Injective
  <2>4. ~Waiting(t)' /\ pc'[t] # "release"
    BY <2>2 DEF Waiting, IUnlockPcs, WaitingPcs
  <2>5. \A u \in Threads : pc[u] # "notified" /\ pc'[u] # "notified"
    BY <1>1, <1>2, <2>2 DEF WaitInv
  <2>6. \A u \in Threads : BeingNotified(u)' = BeingNotified(u)
    BY <2>5 DEF BeingNotified
  <2>7. \A u \in Threads : Waiting(u)' => (u \in In(WaitSet)' <=> ~Notified'[u] /\ ~BeingNotified(u)')
    BY <1>2, <2>2, <2>3, <2>4, <2>6 DEF WaitInv
  <2>8. \A u \in In(WaitSet)' : Waiting(u)'
    BY <1>2, <1>4, <2>3 DEF WaitInv
  <2>9. \A u \in Threads : pc'[u] = "release" /\ Waiting(u)' => u \in In(WaitSet)'
    BY <1>2, <2>3, <2>4 DEF WaitInv
  <2> QED BY <1>1, <2>2, <2>3, <2>5, <2>7, <2>8, <2>9 DEF WaitInv
<1>10. \/ UNCHANGED waitVars
       \/ Transfer(t) /\ WaitSet # <<>>
       \/ SetNotified(t)
       \/ AddWaiter(t)
       \/ RemoveSelf(t) /\ ~Notified[t]
  <2>1. Transfer(t) => UNCHANGED waitVars \/ WaitSet # <<>>
    BY DEF Transfer, waitVars
  <2>2. RemoveSelf(t) => UNCHANGED waitVars \/ ~Notified[t]
    BY <1>1 DEF RemoveSelf, waitVars
  <2> QED BY <2>1, <2>2, WaitFrame
<1> QED BY <1>5, <1>6, <1>7, <1>8, <1>9, <1>10

\* A safepoint step changes nothing a waiter is about.
LEMMA IdleWaitStep ==
  ASSUME WaitInv, [Next]_vars, ~\E t \in Threads : Call(t) \/ Step(t)
  PROVE  WaitInv'
BY SMTT(60), IdleFrame DEF WaitInv, Waiting, BeingNotified, In, Injective

\* WaitInv is an invariant.
LEMMA WaitInvariant == Spec => []WaitInv
<1>1. Init => WaitInv
  BY SMTT(60), ThreadAssumption
     DEF Init, WaitInv, Waiting, BeingNotified, In, Injective, IUnlockPcs, WaitingPcs
<1>2. LockInv /\ WaitInv /\ [Next]_vars => WaitInv'
  BY WaitStep, IdleWaitStep
<1> QED BY <1>1, <1>2, LockInvariant, PTL DEF Spec

\* Notified is truthful for any number of waiters, notifiers and timeouts: a
\* waiter that finds it set is off the WaitSet, and one that finds it clear
\* under the WaitLock is on the WaitSet, so RemoveSelf can unlink it there.
THEOREM NotifiedIsTruthful == Spec => []NotifiedIffTransferred
<1>1. LockInv /\ WaitInv => NotifiedIffTransferred
  BY DEF LockInv, ControlInv, OpInv, WaitInv, Waiting, BeingNotified, WaitingPcs,
         NotifiedIffTransferred
<1> QED BY <1>1, LockInvariant, WaitInvariant, PTL

-----------------------------------------------------------------------------
(* The entry queues.                                                       *)

QueuePcs == {"chkOnDeck", "parkList", "parkedList"} \cup OnDeckPcs

\* The thread is committed to the entry queue: it stays in ILock, or in IWait
\* after a notify(), until it has been made OnDeck and has taken the lock.
Committed(t) == pc[t] \in QueuePcs \/ (Waiting(t) /\ t \notin In(WaitSet))

\* AtMostOneList and QueueDiscipline made inductive.  The lists behind the
\* lock are disjoint; only the holder of the inner lock has a segment or a
\* thread in its hands.
ListInv ==
  /\ Injective(cxq) /\ Injective(EntryList)
  /\ In(cxq) \cap In(EntryList) = {}
  /\ \A t \in Threads :
       /\ Injective(seg[t]) /\ In(seg[t]) \cap (In(cxq) \cup In(EntryList)) = {}
       /\ pc[t] # "install" => seg[t] = <<>>
       /\ pc[t] = "setOnDeck" => wakee[t] \in Threads
  /\ \A u \in Threads :
       OnDeck = u \/ InTransit(u) => u \notin In(cxq) \cup In(EntryList)

\* The threads on them are the committed ones.
CommitInv == \A u \in Threads : Committed(u) <=> Queued(u) \/ OnDeck = u

\* How a step of t commits it, and moves it to where it holds threads.
LEMMA CommitKind ==
  ASSUME ControlInv, NEW t \in Threads, Call(t) \/ Step(t)
  PROVE  /\ pc'[t] \in QueuePcs /\ pc[t] \notin QueuePcs =>
              AcquireOrPush(t) \/ (Waiting(t) /\ Notified[t] /\ UNCHANGED WaitSet)
         /\ pc[t] \in QueuePcs /\ pc'[t] \notin QueuePcs => ClearOnDeck(t)
         /\ Waiting(t) /\ ~Waiting(t)' =>
              \/ RemoveSelf(t) /\ ~Notified[t]
              \/ pc'[t] = "chkOnDeck" /\ Notified[t] /\ UNCHANGED WaitSet
         /\ pc'[t] = "setOnDeck" => PickHead(t)
         /\ pc[t] = "setOnDeck" => SetOnDeck(t)
         /\ pc[t] = "install" => InstallEntryList(t)
<1>1. /\ pc \in [Threads -> Pcs] /\ op \in [Threads -> Ops] /\ OpInv
      /\ Notified[t] \in BOOLEAN
  BY DEF ControlInv, TypeOK
<1> USE DEF Waiting, WaitingPcs, IUnlockPcs, QueuePcs, OnDeckPcs, OpInv, Goto
<1>2. CASE Call(t)
  BY <1>1, <1>2 DEF Call, LockCall, LockNoCheckCall, TryLockCall, NotifyCall, WaitCall
<1>3. CASE LockStep(t)
  BY <1>1, <1>3 DEF LockStep, SneakTest, TrySneak, Contend, EnterTB, LeaveTB, SetOwner,
         UnlockCall
<1>4. CASE ILockStep(t)
  <2>1. CASE ILockSpin(t)
    BY <1>1, <2>1 DEF ILockSpin, AfterILock
  <2>2. CASE AcquireOrPush(t)
    BY <1>1, <2>2 DEF AcquireOrPush, AfterILock
  <2>3. CASE CheckOnDeck(t)
    BY <1>1, <2>3 DEF CheckOnDeck
  <2>4. CASE ParkOnList(t)
    BY <1>1, <2>4 DEF ParkOnList, Park, WakeUp
  <2>5. CASE OnDeckSpin(t)
    BY <1>1, <2>5 DEF OnDeckSpin
  <2>6. CASE ParkOnDeck(t)
    BY <1>1, <2>6 DEF ParkOnDeck, Park, WakeUp
  <2>7. CASE ClearOnDeck(t)
    BY <1>1, <2>7 DEF ClearOnDeck, AfterILock
  <2> QED BY <1>4, <2>1, <2>2, <2>3, <2>4, <2>5, <2>6, <2>7 DEF ILockStep
<1>5. CASE IUnlockStep(t)
  <2>1. CASE ReleaseOuter(t)
    BY <1>1, <2>1 DEF ReleaseOuter
  <2>2. CASE ReadOnDeck(t)
    BY <1>1, <2>2 DEF ReadOnDeck, IUnlockReturn
  <2>3. CASE ReadCxq(t)
    BY <1>1, <2>3 DEF ReadCxq, IUnlockReturn
  <2>4. CASE ReadEntry(t)
    BY <1>1, <2>4 DEF ReadEntry, IUnlockReturn
  <2>5. CASE CasOnDeck(t)
    BY <1>1, <2>5 DEF CasOnDeck, IUnlockReturn
  <2>6. CASE PickHead(t)
    BY <1>1, <2>6 DEF PickHead
  <2>7. CASE DrainCxq(t)
    BY <1>1, <2>7 DEF DrainCxq
  <2>8. CASE InstallEntryList(t)
    BY <1>1, <2>8 DEF InstallEntryList
  <2>9. CASE SetOnDeck(t)
    BY <1>1, <2>9 DEF SetOnDeck
  <2>10. CASE Recheck(t)
    BY <1>1, <2>10 DEF Recheck, IUnlockReturn
  <2>11. CASE Unpark(t)
    BY <1>1, <2>11 DEF Unpark, IUnlockReturn
  <2>12. CASE Punt(t)
    BY <1>1, <2>12 DEF Punt
  <2>13. CASE Resample(t)
    BY <1>1, <2>13 DEF Resample, IUnlockReturn
  <2> QED BY <1>5, <2>1, <2>2, <2>3, <2>4, <2>5, <2>6, <2>7, <2>8, <2>9, <2>10, <2>11, <2>12, <2>13 DEF IUnlockStep
<1>6. CASE NotifyStep(t)
  BY <1>1, <1>6 DEF NotifyStep, NotifyTest, Transfer, NotifyReturn, SetNotified
<1>7. CASE IWaitStep(t)
  <2>1. CASE AddWaiter(t)
    BY <1>1, <2>1 DEF AddWaiter
  <2>2. CASE WaitLoop(t)
    BY <1>1, <2>2 DEF WaitLoop
  <2>3. CASE WaitPark(t)
    BY <1>1, <2>3 DEF WaitPark, Park, WakeUp
  <2>4. CASE WaitTimeout(t)
    BY <1>1, <2>4 DEF WaitTimeout
  <2>5. CASE WaitOut(t)
    BY <1>1, <2>5 DEF WaitOut, waitVars
  <2>6. CASE RemoveSelf(t)
    BY <1>1, <2>6 DEF RemoveSelf
  <2>7. CASE WaitDone(t)
    BY <1>1, <2>7 DEF WaitDone
  <2>8. CASE Resume(t)
    BY <1>1, <2>8 DEF Resume
  <2> QED BY <1>7, <2>1, <2>2, <2>3, <2>4, <2>5, <2>6, <2>7, <2>8 DEF IWaitStep
<1> QED BY <1>2, <1>3, <1>4, <1>5, <1>6, <1>7 DEF Step

\* All but three kinds of steps leave the set of committed threads alone.
LEMMA CommitSame ==
  ASSUME LockInv, WaitInv, NEW t \in Threads, Call(t) \/ Step(t),
         AcquireOrPush(t) => cxq' = cxq, ~ClearOnDeck(t),
         ~(Transfer(t) /\ WaitSet # <<>>)
  PROVE  \A u \in Threads : Committed(u)' <=> Committed(u)
<1>1. /\ pc \in [Threads -> Pcs] /\ op \in [Threads -> Ops]
      /\ Notified \in [Threads -> BOOLEAN] /\ WaitSet \in Seq(Threads)
  BY DEF LockInv, ControlInv, TypeOK
<1>2. \A u \in Threads \ {t} : pc'[u] = pc[u] /\ op'[u] = op[u]
  BY <1>1, ControlStep
<1>3. /\ pc'[t] \in QueuePcs /\ pc[t] \notin QueuePcs =>
           AcquireOrPush(t) \/ (Waiting(t) /\ Notified[t] /\ UNCHANGED WaitSet)
      /\ pc[t] \in QueuePcs /\ pc'[t] \notin QueuePcs => ClearOnDeck(t)
      /\ Waiting(t) /\ ~Waiting(t)' =>
           \/ RemoveSelf(t) /\ ~Notified[t]
           \/ pc'[t] = "chkOnDeck" /\ Notified[t] /\ UNCHANGED WaitSet
      /\ Waiting(t)' /\ ~Waiting(t) => AddWaiter(t)
  BY CommitKind, WaitKind DEF LockInv
<1>4. AcquireOrPush(t) => pc'[t] \notin QueuePcs
  <2>1. <<t>> \o cxq # cxq
    BY SMTT(30) DEF LockInv, ControlInv, TypeOK
  <2> QED BY <1>1, <2>1 DEF AcquireOrPush, Goto, AfterILock, QueuePcs, OnDeckPcs
<1>5. CASE WaitSet' = WaitSet /\ ~AddWaiter(t) /\ ~(RemoveSelf(t) /\ ~Notified[t])
  <2>1. In(WaitSet)' = In(WaitSet)
    BY <1>5 DEF In
  <2>2. \A u \in Threads \ {t} : Committed(u)' <=> Committed(u)
    BY <1>2, <2>1 DEF Committed, Waiting
  <2>3. Waiting(t) /\ Notified[t] => t \notin In(WaitSet)
    BY DEF WaitInv
  <2>4. Committed(t)' => Committed(t)
    BY <1>3, <1>4, <1>5, <2>1, <2>3 DEF Committed
  <2>5. Committed(t) => Committed(t)'
    <3>1. pc[t] \in QueuePcs => pc'[t] \in QueuePcs
      BY <1>3
    <3>2. Waiting(t) => Waiting(t)' \/ pc'[t] \in QueuePcs
      BY <1>3, <1>5 DEF QueuePcs
    <3> QED BY <2>1, <3>1, <3>2 DEF Committed
  <2> QED BY <2>2, <2>4, <2>5
<1>6. CASE AddWaiter(t)
  <2>1. pc[t] = "addWaiter" /\ pc'[t] = "release" /\ WaitSet' = <<t>> \o WaitSet
    BY <1>1, <1>6 DEF AddWaiter, Goto
  <2>2. t \notin In(WaitSet)
    BY <2>1 DEF WaitInv, Waiting, IUnlockPcs, WaitingPcs
  <2>3. In(WaitSet)' = In(WaitSet) \cup {t}
    <3>1. Injective(WaitSet)
      BY DEF WaitInv
    <3>2. In(<<t>> \o WaitSet) = In(WaitSet) \cup {t} /\ Injective(<<t>> \o WaitSet)
      BY <1>1, <2>2, <3>1, PushFacts
    <3> QED BY <2>1, <3>2 DEF In
  <2>4. ~Committed(t) /\ ~Committed(t)'
    BY <2>1, <2>3 DEF Committed, QueuePcs, OnDeckPcs, Waiting, IUnlockPcs, WaitingPcs
  <2>5. \A u \in Threads \ {t} : Committed(u)' <=> Committed(u)
    BY <1>2, <2>3 DEF Committed, Waiting
  <2> QED BY <2>4, <2>5
<1>7. CASE RemoveSelf(t) /\ ~Notified[t]
  <2>1. PICK i \in DOMAIN WaitSet : WaitSet[i] = t /\ WaitSet' = Omit(WaitSet, i)
    BY <1>7 DEF RemoveSelf
  <2>2. pc[t] = "removeSelf" /\ pc'[t] = "ilock"
    BY <1>1, <1>7 DEF RemoveSelf, Goto
  <2>3. In(WaitSet)' = In(WaitSet) \ {t}
    <3>1. Injective(WaitSet)
      BY DEF WaitInv
    <3>2. In(Omit(WaitSet, i)) = In(WaitSet) \ {t}
      BY <1>1, <2>1, <3>1, OmitFacts
    <3> QED BY <2>1, <3>2 DEF In
  <2>4. t \in In(WaitSet)
    BY <2>1 DEF In
  <2>5. ~Committed(t) /\ ~Committed(t)'
    BY <2>2, <2>4 DEF Committed, QueuePcs, OnDeckPcs, Waiting, IUnlockPcs, WaitingPcs
  <2>6. \A u \in Threads \ {t} : Committed(u)' <=> Committed(u)
    BY <1>2, <2>3 DEF Committed, Waiting
  <2> QED BY <2>5, <2>6
<1>8. WaitSet' = WaitSet \/ AddWaiter(t) \/ (RemoveSelf(t) /\ ~Notified[t])
  <2>1. Transfer(t) => WaitSet' = WaitSet
    BY DEF Transfer
  <2>2. RemoveSelf(t) => WaitSet' = WaitSet \/ ~Notified[t]
    BY <1>1 DEF RemoveSelf
  <2>3. SetNotified(t) => WaitSet' = WaitSet
    BY DEF SetNotified
  <2> QED BY <2>1, <2>2, <2>3, WaitFrame DEF waitVars
<1> QED BY <1>5, <1>6, <1>7, <1>8


\* The steps that leave the lists and the OnDeck thread alone.
LEMMA QuietStep ==
  ASSUME LockInv, WaitInv, ListInv, CommitInv, NEW t \in Threads, Call(t) \/ Step(t),
         UNCHANGED <<cxq, EntryList, seg>>, \A u \in Threads : OnDeck' = u <=> OnDeck = u,
         ~ClearOnDeck(t), ~(Transfer(t) /\ WaitSet # <<>>),
         pc[t] \notin {"setOnDeck", "install"}, pc'[t] # "setOnDeck"
  PROVE  ListInv' /\ CommitInv'
<1>1. \A u \in Threads : Committed(u)' <=> Committed(u)
  BY CommitSame
<1>2. \A u \in Threads \ {t} : pc'[u] = pc[u] /\ wakee'[u] = wakee[u]
  <2>1. /\ pc \in [Threads -> Pcs] /\ op \in [Threads -> Ops]
        /\ wakee \in [Threads -> Threads \cup {NULL}]
    BY DEF LockInv, ControlInv, TypeOK
  <2>2. \A u \in Threads \ {t} : pc'[u] = pc[u]
    BY <2>1, ControlStep
  <2>3. \A u \in Threads \ {t} : wakee'[u] = wakee[u]
    BY <2>1, WakeeFrame DEF ReadOnDeck, PickHead, Recheck, Unpark, Transfer, SetNotified
  <2> QED BY <2>2, <2>3
<1>3. \A u \in Threads : InTransit(u)' <=> InTransit(u)
  BY <1>2 DEF InTransit
<1>4. In(cxq)' = In(cxq) /\ In(EntryList)' = In(EntryList)
      /\ \A u \in Threads : In(seg'[u]) = In(seg[u])
  BY DEF In
<1>5. \A u \in Threads : Queued(u)' <=> Queued(u)
  BY <1>3, <1>4 DEF Queued
<1>6. ListInv'
  <2>1. Injective(cxq)' /\ Injective(EntryList)' /\ \A u \in Threads : Injective(seg'[u])
    BY DEF ListInv, Injective
  <2>2. \A u \in Threads : /\ pc'[u] # "install" => seg'[u] = <<>>
                           /\ pc'[u] = "setOnDeck" => wakee'[u] \in Threads
    BY <1>2 DEF ListInv
  <2>3. In(cxq)' \cap In(EntryList)' = {}
        /\ \A u \in Threads : In(seg'[u]) \cap (In(cxq)' \cup In(EntryList)') = {}
    BY <1>4 DEF ListInv
  <2>4. \A u \in Threads : OnDeck' = u \/ InTransit(u)' => u \notin In(cxq)' \cup In(EntryList)'
    BY <1>3, <1>4 DEF ListInv
  <2> QED BY <2>1, <2>2, <2>3, <2>4 DEF ListInv
<1> QED BY <1>1, <1>5, <1>6 DEF CommitInv

\* A thread joins the cxq, in AcquireOrPush or moved there by a notify().
LEMMA JoinStep ==
  ASSUME LockInv, WaitInv, ListInv, CommitInv, NEW t \in Threads, Call(t) \/ Step(t),
         NEW h \in Threads, cxq' = <<h>> \o cxq, UNCHANGED <<EntryList, seg, OnDeck>>,
         pc[t] \notin {"setOnDeck", "install"}, pc'[t] # "setOnDeck", ~Committed(h),
         \A u \in Threads : Committed(u)' <=> Committed(u) \/ u = h
  PROVE  ListInv' /\ CommitInv'
<1>1. /\ pc \in [Threads -> Pcs] /\ op \in [Threads -> Ops] /\ cxq \in Seq(Threads)
      /\ wakee \in [Threads -> Threads \cup {NULL}]
  BY DEF LockInv, ControlInv, TypeOK
<1>2. \A u \in Threads \ {t} : pc'[u] = pc[u] /\ wakee'[u] = wakee[u]
  <2>1. \A u \in Threads \ {t} : pc'[u] = pc[u]
    BY <1>1, ControlStep
  <2>2. \A u \in Threads \ {t} : wakee'[u] = wakee[u]
    BY <1>1, WakeeFrame DEF ReadOnDeck, PickHead, Recheck, Unpark, Transfer, SetNotified
  <2> QED BY <2>1, <2>2
<1>3. \A u \in Threads : InTransit(u)' <=> InTransit(u)
  BY <1>2 DEF InTransit
<1>4. ~Queued(h) /\ OnDeck # h
  BY DEF CommitInv
<1>5. In(cxq)' = In(cxq) \cup {h} /\ Injective(cxq)'
  <2>1. h \notin In(cxq)
    BY <1>4 DEF Queued
  <2>2. In(<<h>> \o cxq) = In(cxq) \cup {h} /\ Injective(<<h>> \o cxq)
    BY <1>1, <2>1, PushFacts DEF ListInv
  <2> QED BY <2>2 DEF In, Injective
<1>6. In(EntryList)' = In(EntryList) /\ \A u \in Threads : In(seg'[u]) = In(seg[u])
  BY DEF In
<1>7. \A u \in Threads : Queued(u)' <=> Queued(u) \/ u = h
  BY <1>3, <1>5, <1>6 DEF Queued
<1>8. ListInv'
  <2>1. Injective(EntryList)' /\ \A u \in Threads : Injective(seg'[u])
    BY DEF ListInv, Injective
  <2>2. \A u \in Threads : /\ pc'[u] # "install" => seg'[u] = <<>>
                           /\ pc'[u] = "setOnDeck" => wakee'[u] \in Threads
    BY <1>2 DEF ListInv
  <2>3. In(cxq)' \cap In(EntryList)' = {}
        /\ \A u \in Threads : In(seg'[u]) \cap (In(cxq)' \cup In(EntryList)') = {}
    <3>1. h \notin In(EntryList) /\ \A u \in Threads : h \notin In(seg[u])
      BY <1>4 DEF Queued
    <3>2. In(cxq)' \cap In(EntryList)' = {}
      BY <1>5, <1>6, <3>1 DEF ListInv
    <3>3. ASSUME NEW u \in Threads PROVE In(seg'[u]) \cap (In(cxq)' \cup In(EntryList)') = {}
      <4>1. In(seg[u]) \cap (In(cxq) \cup In(EntryList)) = {}
        BY DEF ListInv
      <4> QED BY <1>5, <1>6, <3>1, <4>1
    <3> QED BY <3>2, <3>3
  <2>4. \A u \in Threads : OnDeck' = u \/ InTransit(u)' => u \notin In(cxq)' \cup In(EntryList)'
    BY <1>3, <1>4, <1>5, <1>6 DEF ListInv, Queued
  <2> QED BY <1>5, <2>1, <2>2, <2>3, <2>4 DEF ListInv
<1> QED BY <1>7, <1>8 DEF CommitInv

\* The holder of the inner lock moves threads from one list to the next.
LEMMA MoveStep ==
  ASSUME LockInv, WaitInv, ListInv, CommitInv, NEW t \in Threads,
         \/ DrainCxq(t) /\ cxq' # cxq
         \/ InstallEntryList(t)
         \/ PickHead(t) /\ EntryList # <<>>
         \/ SetOnDeck(t)
  PROVE  ListInv' /\ CommitInv'
<1>1. /\ pc \in [Threads -> Pcs] /\ op \in [Threads -> Ops] /\ cxq \in Seq(Threads)
      /\ EntryList \in Seq(Threads) /\ seg \in [Threads -> Seq(Threads)]
      /\ wakee \in [Threads -> Threads \cup {NULL}] /\ LBIT \notin Threads /\ NULL \notin Threads
  BY ThreadAssumption DEF LockInv, ControlInv, TypeOK
<1>2. Step(t) /\ ~ClearOnDeck(t) /\ ~AcquireOrPush(t) /\ ~Transfer(t)
  BY DEF Step, IUnlockStep, DrainCxq, InstallEntryList, PickHead, SetOnDeck, ClearOnDeck,
         AcquireOrPush, Transfer
<1>3. \A u \in Threads : Committed(u)' <=> Committed(u)
  BY <1>2, CommitSame
<1>4. Inner(t) /\ OnDeck = LBIT /\ \A u \in Threads \ {t} : ~Inner(u)
  BY DEF LockInv, InnerInv, InnerLockExclusion, Inner, DrainCxq, InstallEntryList, PickHead,
         SetOnDeck
<1>5. \A u \in Threads \ {t} :
        /\ pc[u] \notin {"install", "setOnDeck"} /\ seg[u] = <<>>
        /\ pc'[u] \notin {"install", "setOnDeck"} /\ seg'[u] = <<>>
  <2>1. \A u \in Threads \ {t} : pc[u] \notin {"install", "setOnDeck"} /\ seg[u] = <<>>
    BY <1>4 DEF Inner, ListInv
  <2>2. \A u \in Threads \ {t} : pc'[u] = pc[u]
    BY <1>1, <1>2, ControlStep
  <2>3. \A u \in Threads \ {t} : seg'[u] = seg[u]
    BY <1>1, <1>2, SegFrame DEF DrainCxq, InstallEntryList
  <2> QED BY <2>1, <2>2, <2>3
<1>6. In(<<>>) = {} /\ Injective(<<>>)
  BY SMTT(30) DEF In, Injective
<1>7. /\ \A u \in Threads : InTransit(u) <=> pc[t] = "setOnDeck" /\ wakee[t] = u
      /\ \A u \in Threads : InTransit(u)' <=> pc'[t] = "setOnDeck" /\ wakee'[t] = u
  BY <1>5 DEF InTransit
<1>8. /\ \A u \in Threads : Queued(u) <=> u \in In(cxq) \cup In(EntryList) \cup In(seg[t]) \/ InTransit(u)
      /\ \A u \in Threads : Queued(u)' <=>
           u \in In(cxq)' \cup In(EntryList)' \cup In(seg'[t]) \/ InTransit(u)'
  BY <1>5, <1>6 DEF Queued
<1>9. SUFFICES /\ \A u \in Threads : Queued(u) <=> Queued(u)' \/ OnDeck' = u
               /\ Injective(cxq)' /\ Injective(EntryList)' /\ Injective(seg'[t])
               /\ In(cxq)' \cap In(EntryList)' = {}
               /\ In(seg'[t]) \cap (In(cxq)' \cup In(EntryList)') = {}
               /\ pc'[t] # "install" => seg'[t] = <<>>
               /\ pc'[t] = "setOnDeck" => wakee'[t] \in Threads
               /\ \A u \in Threads :
                    OnDeck' = u \/ InTransit(u)' => u \notin In(cxq)' \cup In(EntryList)'
  <2>1. /\ \A u \in Threads \ {t} : seg'[u] = <<>> /\ pc'[u] # "setOnDeck"
        /\ \A u \in Threads \ {t} : Injective(seg'[u]) /\ In(seg'[u]) = {}
    BY <1>5, <1>6
  <2>2. ListInv'
    BY <1>9, <2>1 DEF ListInv
  <2>3. CommitInv'
    BY <1>1, <1>3, <1>4, <1>9 DEF CommitInv
  <2> QED BY <2>2, <2>3
<1>10. CASE DrainCxq(t) /\ cxq' # cxq
  <2>1. /\ pc[t] = "drain" /\ pc'[t] = "install" /\ seg'[t] = cxq /\ cxq' = <<>> /\ seg[t] = <<>>
        /\ EntryList' = EntryList /\ OnDeck' = OnDeck
    BY <1>1, <1>10 DEF DrainCxq, Goto, ListInv
  <2>2. /\ In(cxq)' = {} /\ Injective(cxq)' /\ In(seg'[t]) = In(cxq) /\ Injective(seg'[t])
        /\ In(EntryList)' = In(EntryList) /\ Injective(EntryList)' /\ In(seg[t]) = {}
    <3>1. Injective(cxq) /\ Injective(EntryList) /\ Injective(seg[t])
      BY DEF ListInv
    <3>2. Injective(cxq)' /\ Injective(EntryList)' /\ Injective(seg'[t])
      BY <1>6, <2>1, <3>1 DEF Injective
    <3> QED BY <1>6, <2>1, <3>2 DEF In
  <2>3. \A u \in Threads : ~InTransit(u) /\ ~InTransit(u)' /\ OnDeck' # u
    BY <1>1, <1>4, <1>7, <2>1
  <2> QED BY <1>8, <2>1, <2>2, <2>3 DEF ListInv
<1>11. CASE InstallEntryList(t)
  <2>1. /\ pc[t] = "install" /\ pc'[t] = "pickHead" /\ seg'[t] = <<>> /\ EntryList' = seg[t]
        /\ cxq' = cxq /\ OnDeck' = OnDeck /\ EntryList = <<>>
    BY <1>1, <1>11 DEF InstallEntryList, Goto, LockInv, InnerInv, InnerLockExclusion
  <2>2. /\ In(cxq)' = In(cxq) /\ Injective(cxq)' /\ In(seg'[t]) = {} /\ Injective(seg'[t])
        /\ In(EntryList)' = In(seg[t]) /\ Injective(EntryList)' /\ In(EntryList) = {}
    <3>1. Injective(cxq) /\ Injective(EntryList) /\ Injective(seg[t])
      BY DEF ListInv
    <3>2. Injective(cxq)' /\ Injective(EntryList)' /\ Injective(seg'[t])
      BY <1>6, <2>1, <3>1 DEF Injective
    <3> QED BY <1>6, <2>1, <3>2 DEF In
  <2>3. \A u \in Threads : ~InTransit(u) /\ ~InTransit(u)' /\ OnDeck' # u
    BY <1>1, <1>4, <1>7, <2>1
  <2> QED BY <1>8, <2>1, <2>2, <2>3 DEF ListInv
<1>12. CASE PickHead(t) /\ EntryList # <<>>
  <2>1. PICK h : h = Head(EntryList)
    OBVIOUS
  <2>2. /\ pc[t] = "pickHead" /\ pc'[t] = "setOnDeck" /\ seg' = seg /\ EntryList' = Tail(EntryList)
        /\ cxq' = cxq /\ OnDeck' = OnDeck /\ wakee'[t] = h /\ seg[t] = <<>>
    BY <1>1, <1>12, <2>1 DEF PickHead, Goto, ListInv
  <2>3. h \in Threads /\ h \in In(EntryList) /\ In(EntryList)' = In(EntryList) \ {h} /\ Injective(EntryList)'
    <3>1. /\ In(Tail(EntryList)) = In(EntryList) \ {h} /\ Injective(Tail(EntryList))
          /\ h \in In(EntryList)
      BY <1>1, <1>12, <2>1, TailFacts DEF ListInv
    <3>2. h \in Threads
      BY <1>1, <1>12, <2>1, ListType
    <3> QED BY <2>2, <3>1, <3>2 DEF In, Injective
  <2>4. /\ In(cxq)' = In(cxq) /\ Injective(cxq)' /\ In(seg'[t]) = {} /\ Injective(seg'[t])
        /\ In(seg[t]) = {}
    <3>1. Injective(cxq) /\ Injective(seg[t])
      BY DEF ListInv
    <3>2. Injective(cxq)' /\ Injective(seg'[t])
      BY <1>6, <2>2, <3>1 DEF Injective
    <3> QED BY <1>6, <2>2, <3>2 DEF In
  <2>5. \A u \in Threads : ~InTransit(u) /\ (InTransit(u)' <=> u = h) /\ OnDeck' # u
    BY <1>1, <1>4, <1>7, <2>2
  <2>6. In(cxq) \cap In(EntryList) = {}
    BY DEF ListInv
  <2>7. \A u \in Threads : Queued(u) <=> Queued(u)' \/ OnDeck' = u
    BY <1>8, <2>3, <2>4, <2>5
  <2>8. \A u \in Threads : OnDeck' = u \/ InTransit(u)' => u \notin In(cxq)' \cup In(EntryList)'
    BY <2>3, <2>4, <2>5, <2>6
  <2> QED BY <2>2, <2>3, <2>4, <2>6, <2>7, <2>8
<1>13. CASE SetOnDeck(t)
  <2>1. /\ pc[t] = "setOnDeck" /\ pc'[t] = "recheck" /\ seg' = seg /\ EntryList' = EntryList
        /\ cxq' = cxq /\ OnDeck' = wakee[t] /\ seg[t] = <<>>
    BY <1>1, <1>13 DEF SetOnDeck, Goto, locVars, ListInv
  <2>2. /\ In(cxq)' = In(cxq) /\ Injective(cxq)' /\ In(seg'[t]) = {} /\ Injective(seg'[t])
        /\ In(EntryList)' = In(EntryList) /\ Injective(EntryList)' /\ In(seg[t]) = {}
    <3>1. Injective(cxq) /\ Injective(EntryList) /\ Injective(seg[t])
      BY DEF ListInv
    <3>2. Injective(cxq)' /\ Injective(EntryList)' /\ Injective(seg'[t])
      BY <1>6, <2>1, <3>1 DEF Injective
    <3> QED BY <1>6, <2>1, <3>2 DEF In
  <2>3. \A u \in Threads : (InTransit(u) <=> OnDeck' = u) /\ ~InTransit(u)'
    BY <1>7, <2>1
  <2> QED BY <1>8, <2>1, <2>2, <2>3 DEF ListInv
<1> QED BY <1>10, <1>11, <1>12, <1>13

\* The OnDeck thread has the lock and leaves.
LEMMA LeaveStep ==
  ASSUME LockInv, WaitInv, ListInv, CommitInv, NEW t \in Threads, ClearOnDeck(t)
  PROVE  ListInv' /\ CommitInv'
<1>1. /\ pc \in [Threads -> Pcs] /\ op \in [Threads -> Ops] /\ LBIT \notin Threads /\ NULL \notin Threads
  BY ThreadAssumption DEF LockInv, ControlInv, TypeOK
<1>2. /\ pc[t] = "clearOnDeck" /\ pc'[t] \in {"waitDone", "leaveTB", "exeunt"} /\ OnDeck = t
      /\ OnDeck' = NULL /\ UNCHANGED <<cxq, EntryList, seg, wakee, WaitSet, op>>
      /\ \A u \in Threads \ {t} : pc'[u] = pc[u]
  BY <1>1 DEF ClearOnDeck, Goto, AfterILock, LockInv, InnerInv, OnDeckPcs, waitVars, locVars
<1>3. \A u \in Threads : pc[u] \notin {"install", "setOnDeck"} /\ seg[u] = <<>>
  BY <1>1, <1>2 DEF LockInv, InnerInv, InnerLockExclusion, Inner, ListInv
<1>4. \A u \in Threads : pc'[u] \notin {"install", "setOnDeck"} /\ seg'[u] = <<>>
  BY <1>2, <1>3
<1>5. \A u \in Threads : ~InTransit(u) /\ ~InTransit(u)'
  BY <1>3, <1>4 DEF InTransit
<1>6. /\ In(cxq)' = In(cxq) /\ In(EntryList)' = In(EntryList) /\ In(WaitSet)' = In(WaitSet)
      /\ \A u \in Threads : In(seg[u]) = {} /\ In(seg'[u]) = {} /\ Injective(seg'[u])
      /\ Injective(cxq)' /\ Injective(EntryList)'
  <2>1. In(<<>>) = {} /\ Injective(<<>>)
    BY SMTT(30) DEF In, Injective
  <2>2. \A u \in Threads : In(seg[u]) = {} /\ In(seg'[u]) = {} /\ Injective(seg'[u])
    BY <1>3, <1>4, <2>1
  <2>3. Injective(cxq) /\ Injective(EntryList)
    BY DEF ListInv
  <2>4. Injective(cxq)' /\ Injective(EntryList)'
    BY <1>2, <2>3 DEF Injective
  <2> QED BY <1>2, <2>2, <2>4 DEF In
<1>7. \A u \in Threads : Queued(u)' <=> Queued(u)
  BY <1>5, <1>6 DEF Queued
<1>8. ~Queued(t)
  BY <1>2, <1>5, <1>6 DEF Queued, ListInv
<1>9. ~Committed(t)'
  BY <1>2 DEF Committed, QueuePcs, OnDeckPcs, Waiting, IUnlockPcs, WaitingPcs
<1>10. \A u \in Threads \ {t} : Committed(u)' <=> Committed(u)
  BY <1>2, <1>6 DEF Committed, Waiting
<1>11. ListInv'
  BY <1>1, <1>2, <1>4, <1>5, <1>6 DEF ListInv
<1>12. CommitInv'
  BY <1>1, <1>2, <1>7, <1>8, <1>9, <1>10 DEF CommitInv
<1> QED BY <1>11, <1>12


\* Every step keeps both.
LEMMA QueueStep ==
  ASSUME LockInv, WaitInv, ListInv, CommitInv, NEW t \in Threads, Call(t) \/ Step(t)
  PROVE  ListInv' /\ CommitInv'
<1>1. /\ pc \in [Threads -> Pcs] /\ op \in [Threads -> Ops] /\ WaitSet \in Seq(Threads)
      /\ LBIT \notin Threads /\ NULL \notin Threads
  BY ThreadAssumption DEF LockInv, ControlInv, TypeOK
<1>2. \A u \in Threads \ {t} : pc'[u] = pc[u] /\ op'[u] = op[u]
  BY <1>1, ControlStep
<1>3. /\ pc'[t] = "setOnDeck" => PickHead(t)
      /\ pc[t] = "setOnDeck" => SetOnDeck(t)
      /\ pc[t] = "install" => InstallEntryList(t)
  BY CommitKind DEF LockInv
<1>4. CASE AcquireOrPush(t) /\ cxq' # cxq
  <2>1. /\ pc[t] = "push" /\ pc'[t] = "chkOnDeck" /\ cxq' = <<t>> \o cxq
        /\ UNCHANGED <<EntryList, seg, OnDeck, WaitSet>>
    BY <1>1, <1>4 DEF AcquireOrPush, Goto, locVars, waitVars
  <2>2. ~Committed(t)
    BY <2>1 DEF Committed, QueuePcs, OnDeckPcs, Waiting, IUnlockPcs, WaitingPcs
  <2>3. Committed(t)'
    BY <2>1 DEF Committed, QueuePcs
  <2>4. \A u \in Threads \ {t} : Committed(u)' <=> Committed(u)
    BY <1>2, <2>1 DEF Committed, Waiting, In
  <2> QED BY <2>1, <2>2, <2>3, <2>4, JoinStep
<1>5. CASE Transfer(t) /\ WaitSet # <<>>
  <2>1. PICK h : h = Head(WaitSet)
    OBVIOUS
  <2>2. /\ pc[t] = "transfer" /\ pc'[t] = "notified" /\ cxq' = <<h>> \o cxq
        /\ UNCHANGED <<EntryList, seg, OnDeck>> /\ WaitSet' = Tail(WaitSet)
    BY <1>1, <1>5, <2>1 DEF Transfer, Goto
  <2>3. h \in Threads /\ h \in In(WaitSet) /\ In(WaitSet)' = In(WaitSet) \ {h}
    <3>1. Injective(WaitSet)
      BY DEF WaitInv
    <3>2. In(Tail(WaitSet)) = In(WaitSet) \ {h} /\ Injective(Tail(WaitSet)) /\ h \in In(WaitSet)
      BY <1>1, <1>5, <2>1, <3>1, TailFacts
    <3>3. h \in Threads
      BY <1>1, <1>5, <2>1, ListType
    <3> QED BY <2>2, <3>2, <3>3 DEF In
  <2>4. Waiting(h) /\ h # t
    BY <2>2, <2>3 DEF WaitInv, Waiting, IUnlockPcs, WaitingPcs
  <2>5. ~Committed(h)
    <3>1. pc[h] \notin QueuePcs
      BY <2>4 DEF Waiting, IUnlockPcs, WaitingPcs, QueuePcs, OnDeckPcs
    <3> QED BY <2>3, <3>1 DEF Committed
  <2>6. Committed(h)'
    BY <1>2, <2>3, <2>4 DEF Committed, Waiting
  <2>7. ~Committed(t) /\ ~Committed(t)'
    BY <2>2 DEF Committed, QueuePcs, OnDeckPcs, Waiting, IUnlockPcs, WaitingPcs
  <2>8. \A u \in Threads \ {t, h} : Committed(u)' <=> Committed(u)
    BY <1>2, <2>3 DEF Committed, Waiting
  <2>9. \A u \in Threads : Committed(u)' <=> Committed(u) \/ u = h
    BY <2>4, <2>6, <2>7, <2>8
  <2> QED BY <2>2, <2>3, <2>5, <2>9, JoinStep
<1>6. CASE ClearOnDeck(t)
  BY <1>6, LeaveStep
<1>7. CASE \/ DrainCxq(t) /\ cxq' # cxq
           \/ InstallEntryList(t)
           \/ PickHead(t) /\ EntryList # <<>>
           \/ SetOnDeck(t)
  BY <1>7, MoveStep
<1>8. CASE /\ ~(AcquireOrPush(t) /\ cxq' # cxq)
           /\ ~(Transfer(t) /\ WaitSet # <<>>)
           /\ ~ClearOnDeck(t)
           /\ ~(DrainCxq(t) /\ cxq' # cxq)
           /\ ~InstallEntryList(t)
           /\ ~(PickHead(t) /\ EntryList # <<>>)
           /\ ~SetOnDeck(t)
  <2>1. UNCHANGED <<cxq, EntryList, seg>>
    <3>1. cxq' = cxq
      BY <1>8, CxqFrame DEF Transfer
    <3>2. EntryList' = EntryList
      BY <1>8, EntryListFrame DEF PickHead
    <3>3. seg' = seg
      BY <1>8, SegFrame DEF DrainCxq
    <3> QED BY <3>1, <3>2, <3>3
  <2>2. \A u \in Threads : OnDeck' = u <=> OnDeck = u
    <3>1. CasOnDeck(t) => OnDeck' = OnDeck \/ (OnDeck = NULL /\ OnDeck' = LBIT)
      BY DEF CasOnDeck
    <3>2. Punt(t) => OnDeck = LBIT /\ OnDeck' = NULL
      BY DEF Punt, LockInv, InnerInv, InnerLockExclusion, Inner
    <3> QED BY <1>1, <1>8, <3>1, <3>2, OnDeckFrame
  <2>3. pc[t] \notin {"setOnDeck", "install"} /\ pc'[t] # "setOnDeck"
    BY <1>1, <1>3, <1>8 DEF PickHead, Goto
  <2> QED BY <1>8, <2>1, <2>2, <2>3, QuietStep
<1> QED BY <1>4, <1>5, <1>6, <1>7, <1>8

\* A safepoint step changes nothing a queue is about.
LEMMA IdleQueueStep ==
  ASSUME ListInv, CommitInv, [Next]_vars, ~\E t \in Threads : Call(t) \/ Step(t)
  PROVE  ListInv' /\ CommitInv'
<1>1. /\ UNCHANGED <<cxq, OnDeck, EntryList, WaitSet>>
      /\ UNCHANGED <<pc, op, wakee, seg>>
  BY IdleFrame
<1>2. ListInv'
  BY SMTT(60), <1>1 DEF ListInv, InTransit, In, Injective
<1>3. CommitInv'
  BY SMTT(60), <1>1 DEF CommitInv, Committed, Queued, InTransit, Waiting, In, QueuePcs, OnDeckPcs
<1> QED BY <1>2, <1>3

\* ListInv and CommitInv are invariants.
LEMMA QueueInvariant == Spec => [](ListInv /\ CommitInv)
<1>1. Init => ListInv /\ CommitInv
  <2> SUFFICES ASSUME Init PROVE ListInv /\ CommitInv
    OBVIOUS
  <2>1. In(<<>>) = {} /\ Injective(<<>>)
    BY SMTT(30) DEF In, Injective
  <2>2. /\ cxq = <<>> /\ EntryList = <<>> /\ OnDeck = NULL /\ NULL \notin Threads
        /\ \A t \in Threads : pc[t] = "idle" /\ seg[t] = <<>>
    BY ThreadAssumption DEF Init
  <2>3. \A u \in Threads : ~InTransit(u)
    BY <2>2 DEF InTransit
  <2>4. ListInv
    BY <2>1, <2>2, <2>3 DEF ListInv
  <2>5. \A u \in Threads : ~Queued(u)
    BY <2>1, <2>2, <2>3 DEF Queued
  <2>6. \A u \in Threads : ~Committed(u)
    BY <2>2 DEF Committed, QueuePcs, OnDeckPcs, Waiting, IUnlockPcs, WaitingPcs
  <2> QED BY <2>2, <2>4, <2>5, <2>6 DEF CommitInv
<1>2. LockInv /\ WaitInv /\ (ListInv /\ CommitInv) /\ [Next]_vars => (ListInv /\ CommitInv)'
  BY QueueStep, IdleQueueStep
<1> QED BY <1>1, <1>2, LockInvariant, WaitInvariant, PTL DEF Spec

\* "A thread appears on at most one list at any one time", and once, for any
\* number of threads: cxq, detached segment, EntryList, WaitSet, OnDeck.
THEOREM OneListEach == Spec => []AtMostOneList
<1>1. LockInv /\ WaitInv /\ ListInv /\ CommitInv => AtMostOneList
  <2> SUFFICES ASSUME LockInv, WaitInv, ListInv, CommitInv PROVE AtMostOneList
    OBVIOUS
  <2>1. \A u \in Threads : Committed(u) => u \notin In(WaitSet)
    <3>1. \A u \in In(WaitSet) : pc[u] \notin QueuePcs
      BY DEF WaitInv, Waiting, IUnlockPcs, WaitingPcs, QueuePcs, OnDeckPcs
    <3> QED BY <3>1 DEF Committed
  <2>2. \A u \in Threads : Queued(u) \/ OnDeck = u => u \notin In(WaitSet)
    BY <2>1 DEF CommitInv
  <2>3. In(cxq) \subseteq Threads /\ In(EntryList) \subseteq Threads
        /\ \A t \in Threads : In(seg[t]) \subseteq Threads
    <3>1. \A s \in Seq(Threads) : In(s) \subseteq Threads
      BY SMTT(30) DEF In
    <3> QED BY <3>1 DEF LockInv, ControlInv, TypeOK
  <2>4. In(cxq) \cap In(WaitSet) = {} /\ In(EntryList) \cap In(WaitSet) = {}
        /\ \A t \in Threads : In(seg[t]) \cap In(WaitSet) = {}
    BY <2>2, <2>3 DEF Queued
  <2>5. \A t \in Threads : In(seg[t]) \cap (In(cxq) \cup In(EntryList) \cup In(WaitSet)) = {}
    BY <2>4 DEF ListInv
  <2>6. ASSUME NEW u \in Threads, OnDeck = u \/ InTransit(u)
        PROVE  /\ u \notin In(cxq) \cup In(EntryList) \cup In(WaitSet)
               /\ \A t \in Threads : u \notin In(seg[t])
    <3>1. u \notin In(WaitSet)
      BY <2>2, <2>6 DEF Queued
    <3>2. u \notin In(cxq) \cup In(EntryList)
      BY <2>6 DEF ListInv
    <3>3. \A t \in Threads : pc[t] # "install"
      <4>1. CASE OnDeck = u
        BY <4>1, ThreadAssumption DEF LockInv, InnerInv, InnerLockExclusion, Inner
      <4>2. CASE InTransit(u)
        BY <4>2 DEF InTransit, LockInv, InnerInv, InnerLockExclusion, Inner
      <4> QED BY <2>6, <4>1, <4>2
    <3>4. \A t \in Threads : In(seg[t]) = {}
      <4>1. In(<<>>) = {}
        BY SMTT(30) DEF In
      <4> QED BY <3>3, <4>1 DEF ListInv
    <3> QED BY <3>1, <3>2, <3>4
  <2> QED BY <2>4, <2>5, <2>6 DEF AtMostOneList, ListInv, WaitInv
<1> QED BY <1>1, LockInvariant, WaitInvariant, QueueInvariant, PTL

\* A queued thread does not compete for the lock byte but waits to be made
\* OnDeck; and one that waits for that in ILock is queued or OnDeck, so that
\* IUnlock can find it.
THEOREM QueuesDisciplined == Spec => []QueueDiscipline
<1>1. LockInv /\ WaitInv /\ ListInv /\ CommitInv => QueueDiscipline
  <2> SUFFICES ASSUME LockInv, WaitInv, ListInv, CommitInv PROVE QueueDiscipline
    OBVIOUS
  <2>1. \A u \in Threads : pc[u] \in OnDeckPcs => OnDeck = u
    BY DEF LockInv, InnerInv
  <2>2. ASSUME NEW u \in Threads, Queued(u) PROVE OnDeck # u
    <3> SUFFICES ASSUME OnDeck = u PROVE FALSE
      OBVIOUS
    <3>1. \A t \in Threads : pc[t] \notin {"install", "setOnDeck"}
      BY ThreadAssumption DEF LockInv, InnerInv, InnerLockExclusion, Inner
    <3>2. ~InTransit(u)
      BY <3>1 DEF InTransit
    <3>3. \A t \in Threads : In(seg[t]) = {}
      <4>1. In(<<>>) = {}
        BY SMTT(30) DEF In
      <4> QED BY <3>1, <4>1 DEF ListInv
    <3> QED BY <2>2, <3>2, <3>3 DEF Queued, ListInv
  <2>3. ASSUME NEW u \in Threads, Queued(u) PROVE BlockedOnList(u)
    <3>1. Committed(u) /\ pc[u] \notin OnDeckPcs
      BY <2>1, <2>2, <2>3 DEF CommitInv
    <3>2. CASE pc[u] \in {"chkOnDeck", "parkList", "parkedList"}
      BY <3>2 DEF BlockedOnList
    <3>3. CASE Waiting(u) /\ u \notin In(WaitSet)
      <4>1. pc[u] # "release"
        BY <3>3 DEF WaitInv
      <4> QED BY <3>3, <4>1 DEF BlockedOnList, Waiting, WaitingPcs
    <3> QED BY <3>1, <3>2, <3>3 DEF Committed, QueuePcs
  <2>4. \A u \in Threads :
          pc[u] \in {"chkOnDeck", "parkList", "parkedList"} => Queued(u) \/ OnDeck = u
    BY DEF CommitInv, Committed, QueuePcs
  <2> QED BY <2>1, <2>3, <2>4 DEF QueueDiscipline, OnDeckPcs
<1> QED BY <1>1, LockInvariant, WaitInvariant, QueueInvariant, PTL


-----------------------------------------------------------------------------
(* Succession.                                                             *)

\* Locations of a thread that is about to sleep or sleeps.
SleepPcs == {"parkedList", "parkedOnDeck", "waitParked", "parkList", "parkOnDeck", "waitPark"}

\* Succession made inductive: which threads inside IUnlock will still see
\* the EntryList, the cxq or the OnDeck thread, when the lock is free.
SuccInv ==
  /\ \A t \in Threads : pc[t] = "punt" => EntryList = <<>>
  /\ ~LockByte /\ OnDeck = NULL /\ EntryList # <<>> =>
       \E t \in Threads : pc[t] \in {"readOnDeck", "readCxq", "readEntry", "casOnDeck"}
  /\ ~LockByte /\ OnDeck = NULL /\ cxq # <<>> =>
       \E t \in Threads : pc[t] \in {"readOnDeck", "readCxq", "casOnDeck", "resample"}
  /\ ~LockByte /\ OnDeck \in Threads =>
       \/ WillRun(OnDeck)
       \/ \E t \in Threads : pc[t] = "readOnDeck" \/ (pc[t] = "recheck" /\ wakee[t] = OnDeck)

\* How a step of t lets it sleep, or wakes others.
LEMMA SleepKind ==
  ASSUME ControlInv, NEW t \in Threads, Call(t) \/ Step(t)
  PROVE  /\ pc'[t] \in SleepPcs /\ pc[t] \notin SleepPcs =>
              OnDeck # t \/ LockByte \/ (pc[t] = "waitLoop" /\ ~Notified[t])
         /\ pc[t] \in SleepPcs /\ Event[t] = 1 => pc'[t] \notin SleepPcs
         /\ \A u \in Threads \ {t} : Event'[u] = Event[u] \/ Event'[u] = 1
         /\ pc'[t] = "punt" => DrainCxq(t)
<1>1. /\ pc \in [Threads -> Pcs] /\ op \in [Threads -> Ops] /\ LockByte \in BOOLEAN
      /\ Event \in [Threads -> {-1, 0, 1}]
  BY DEF ControlInv, TypeOK
<1> USE DEF SleepPcs, Goto
<1>2. CASE Call(t)
  BY <1>1, <1>2 DEF Call, LockCall, LockNoCheckCall, TryLockCall, NotifyCall, WaitCall
<1>3. CASE LockStep(t)
  BY <1>1, <1>3 DEF LockStep, SneakTest, TrySneak, Contend, EnterTB, LeaveTB, SetOwner,
         UnlockCall
<1>4. CASE ILockStep(t)
  <2>1. CASE ILockSpin(t)
    BY <1>1, <2>1 DEF ILockSpin, AfterILock
  <2>2. CASE AcquireOrPush(t)
    BY <1>1, <2>2 DEF AcquireOrPush, AfterILock
  <2>3. CASE CheckOnDeck(t)
    BY <1>1, <2>3 DEF CheckOnDeck
  <2>4. CASE ParkOnList(t)
    BY <1>1, <2>4 DEF ParkOnList, Park, WakeUp
  <2>5. CASE OnDeckSpin(t)
    BY <1>1, <2>5 DEF OnDeckSpin
  <2>6. CASE ParkOnDeck(t)
    BY <1>1, <2>6 DEF ParkOnDeck, Park, WakeUp
  <2>7. CASE ClearOnDeck(t)
    BY <1>1, <2>7 DEF ClearOnDeck, AfterILock
  <2> QED BY <1>4, <2>1, <2>2, <2>3, <2>4, <2>5, <2>6, <2>7 DEF ILockStep
<1>5. CASE IUnlockStep(t)
  <2>1. CASE ReleaseOuter(t) \/ PickHead(t) \/ InstallEntryList(t) \/ SetOnDeck(t) \/ Punt(t)
    BY <1>1, <2>1 DEF ReleaseOuter, PickHead, InstallEntryList, SetOnDeck, Punt
  <2>2. CASE ReadOnDeck(t) \/ ReadCxq(t) \/ ReadEntry(t)
    BY <1>1, <2>2 DEF ReadOnDeck, ReadCxq, ReadEntry, IUnlockReturn
  <2>3. CASE CasOnDeck(t) \/ Recheck(t) \/ Resample(t)
    BY <1>1, <2>3 DEF CasOnDeck, Recheck, Resample, IUnlockReturn
  <2>4. CASE Unpark(t)
    BY <1>1, <2>4 DEF Unpark, IUnlockReturn
  <2>5. CASE DrainCxq(t)
    BY <1>1, <2>5 DEF DrainCxq
  <2> QED BY <1>5, <2>1, <2>2, <2>3, <2>4, <2>5 DEF IUnlockStep
<1>6. CASE NotifyStep(t)
  BY <1>1, <1>6 DEF NotifyStep, NotifyTest, Transfer, NotifyReturn, SetNotified
<1>7. CASE IWaitStep(t)
  <2>1. CASE AddWaiter(t) \/ WaitDone(t) \/ Resume(t)
    BY <1>1, <2>1 DEF AddWaiter, WaitDone, Resume
  <2>2. CASE WaitLoop(t)
    BY <1>1, <2>2 DEF WaitLoop
  <2>3. CASE WaitPark(t)
    BY <1>1, <2>3 DEF WaitPark, Park, WakeUp
  <2>4. CASE WaitTimeout(t) \/ WaitOut(t) \/ RemoveSelf(t)
    BY <1>1, <2>4 DEF WaitTimeout, WaitOut, RemoveSelf
  <2> QED BY <1>7, <2>1, <2>2, <2>3, <2>4 DEF IWaitStep
<1> QED BY <1>2, <1>3, <1>4, <1>5, <1>6, <1>7 DEF Step

\* What a thread inside IUnlock does next.
LEMMA IUnlockNext ==
  ASSUME NEW t \in Threads, Call(t) \/ Step(t)
  PROVE  /\ pc[t] = "readOnDeck" => ReadOnDeck(t)
         /\ pc[t] = "readCxq" => ReadCxq(t)
         /\ pc[t] = "readEntry" => ReadEntry(t)
         /\ pc[t] = "casOnDeck" => CasOnDeck(t)
         /\ pc[t] = "recheck" => Recheck(t)
         /\ pc[t] = "unpark" => Unpark(t)
         /\ pc[t] = "resample" => Resample(t)
<1>1. CASE Call(t)
  BY <1>1 DEF Call, LockCall, LockNoCheckCall, TryLockCall, NotifyCall, WaitCall
<1>2. CASE LockStep(t)
  BY <1>2 DEF LockStep, SneakTest, TrySneak, Contend, EnterTB, LeaveTB, SetOwner, UnlockCall
<1>3. CASE ILockStep(t)
  BY <1>3 DEF ILockStep, ILockSpin, AcquireOrPush, CheckOnDeck, ParkOnList, OnDeckSpin,
         ParkOnDeck, ClearOnDeck
<1>4. CASE IUnlockStep(t)
  BY <1>4 DEF IUnlockStep, ReleaseOuter, ReadOnDeck, ReadCxq, ReadEntry, CasOnDeck, PickHead,
         DrainCxq, InstallEntryList, SetOnDeck, Recheck, Unpark, Punt, Resample
<1>5. CASE NotifyStep(t)
  BY <1>5 DEF NotifyStep, NotifyTest, Transfer, SetNotified
<1>6. CASE IWaitStep(t)
  BY <1>6 DEF IWaitStep, AddWaiter, WaitLoop, WaitPark, WaitTimeout, WaitOut, RemoveSelf,
         WaitDone, Resume
<1> QED BY <1>1, <1>2, <1>3, <1>4, <1>5, <1>6 DEF Step

\* Every step keeps SuccInv.
LEMMA SuccStep ==
  ASSUME LockInv, WaitInv, ListInv, CommitInv, SuccInv, NEW t \in Threads, Call(t) \/ Step(t)
  PROVE  SuccInv'
<1>1. /\ pc \in [Threads -> Pcs] /\ op \in [Threads -> Ops] /\ LockByte \in BOOLEAN
      /\ wakee \in [Threads -> Threads \cup {NULL}] /\ Event \in [Threads -> {-1, 0, 1}]
      /\ OnDeck \in Threads \cup {NULL, LBIT}
      /\ LBIT \notin Threads /\ NULL \notin Threads /\ LBIT # NULL
  BY ThreadAssumption DEF LockInv, ControlInv, TypeOK
<1>2. \A u \in Threads \ {t} : pc'[u] = pc[u] /\ wakee'[u] = wakee[u]
  <2>1. \A u \in Threads \ {t} : pc'[u] = pc[u]
    BY <1>1, ControlStep
  <2>2. \A u \in Threads \ {t} : wakee'[u] = wakee[u]
    BY <1>1, WakeeFrame DEF ReadOnDeck, PickHead, Recheck, Unpark, Transfer, SetNotified
  <2> QED BY <2>1, <2>2
<1>3. /\ pc'[t] \in SleepPcs /\ pc[t] \notin SleepPcs =>
           OnDeck # t \/ LockByte \/ (pc[t] = "waitLoop" /\ ~Notified[t])
      /\ pc[t] \in SleepPcs /\ Event[t] = 1 => pc'[t] \notin SleepPcs
      /\ \A u \in Threads \ {t} : Event'[u] = Event[u] \/ Event'[u] = 1
      /\ pc'[t] = "punt" => DrainCxq(t)
  BY SleepKind DEF LockInv
<1>4. /\ pc[t] = "readOnDeck" => ReadOnDeck(t)
      /\ pc[t] = "readCxq" => ReadCxq(t)
      /\ pc[t] = "readEntry" => ReadEntry(t)
      /\ pc[t] = "casOnDeck" => CasOnDeck(t)
      /\ pc[t] = "recheck" => Recheck(t)
      /\ pc[t] = "unpark" => Unpark(t)
      /\ pc[t] = "resample" => Resample(t)
  BY IUnlockNext
<1>5. /\ \A u \in Threads : Inner(u) => OnDeck = LBIT
      /\ \A u \in Threads : Inner(t) /\ Inner(u) => u = t
      /\ \A u \in Threads : Holds(u) => LockByte
  BY DEF LockInv, InnerInv, InnerLockExclusion, LockByteExclusion
<1>6. LockByte /\ ~LockByte' => ReleaseOuter(t)
  BY LockByteFrame DEF LockCall, TryLockCall, Contend, ILockSpin, AcquireOrPush, OnDeckSpin,
         TryLock, Transfer
<1>7. EntryList' # EntryList => Inner(t)
  BY EntryListFrame DEF PickHead, InstallEntryList, Inner
<1>8. ClearOnDeck(t) \/ Transfer(t) => LockByte
  <2>1. ClearOnDeck(t) \/ Transfer(t) => Holds(t)
    BY DEF ClearOnDeck, Transfer, Holds, SnuckPast, LockInv, ControlInv, SnuckInv
  <2> QED BY <1>5, <2>1
<1>9. OnDeck' # OnDeck /\ ~LockByte =>
        \/ OnDeck = NULL /\ OnDeck' = LBIT
        \/ OnDeck = LBIT /\ SetOnDeck(t) /\ OnDeck' \in Threads
        \/ OnDeck = LBIT /\ Punt(t) /\ OnDeck' = NULL
  <2>1. CasOnDeck(t) => OnDeck' = OnDeck \/ (OnDeck = NULL /\ OnDeck' = LBIT)
    BY DEF CasOnDeck
  <2>2. SetOnDeck(t) => OnDeck = LBIT /\ OnDeck' \in Threads
    BY <1>5 DEF SetOnDeck, Inner, ListInv
  <2>3. Punt(t) => OnDeck = LBIT /\ OnDeck' = NULL
    BY <1>5 DEF Punt, Inner
  <2> QED BY <1>8, <2>1, <2>2, <2>3, OnDeckFrame
<1>10. \A u \in Threads : pc'[u] = "punt" => EntryList' = <<>>
  <2>1. pc'[t] = "punt" => EntryList' = <<>>
    BY <1>3 DEF DrainCxq, LockInv, InnerInv
  <2>2. \A u \in Threads \ {t} : pc'[u] = "punt" => EntryList' = <<>>
    BY <1>2, <1>5, <1>7 DEF SuccInv, Inner
  <2> QED BY <2>1, <2>2
<1>11. CASE LockByte'
  BY <1>10, <1>11 DEF SuccInv
<1>12. CASE LockByte /\ ~LockByte'
  <2>1. pc'[t] = "readOnDeck"
    BY <1>1, <1>6, <1>12 DEF ReleaseOuter, Goto
  <2> QED BY <1>10, <2>1 DEF SuccInv
<1>13. CASE ~LockByte /\ ~LockByte'
  <2>1. ASSUME OnDeck' = NULL, EntryList' # <<>>
        PROVE  \E u \in Threads : pc'[u] \in {"readOnDeck", "readCxq", "readEntry", "casOnDeck"}
    <3>1. OnDeck = NULL
      <4>1. Punt(t) => EntryList' = <<>>
        BY DEF Punt, SuccInv
      <4> QED BY <1>1, <1>9, <1>13, <2>1, <4>1
    <3>2. EntryList # <<>>
      BY <1>1, <1>5, <1>7, <2>1, <3>1
    <3>3. PICK u \in Threads : pc[u] \in {"readOnDeck", "readCxq", "readEntry", "casOnDeck"}
      BY <1>13, <3>1, <3>2 DEF SuccInv
    <3>4. CASE u # t
      BY <1>2, <3>3, <3>4
    <3>5. CASE u = t
      <4>1. CASE pc[t] = "readOnDeck"
        BY <1>1, <1>4, <3>1, <4>1 DEF ReadOnDeck, Goto
      <4>2. CASE pc[t] = "readCxq"
        BY <1>1, <1>4, <1>13, <4>2 DEF ReadCxq, Goto
      <4>3. CASE pc[t] = "readEntry"
        BY <1>1, <1>4, <3>2, <4>3 DEF ReadEntry, Goto
      <4>4. CASE pc[t] = "casOnDeck"
        BY <1>1, <1>4, <2>1, <3>1, <4>4 DEF CasOnDeck
      <4> QED BY <3>3, <3>5, <4>1, <4>2, <4>3, <4>4
    <3> QED BY <3>4, <3>5
  <2>2. ASSUME OnDeck' = NULL, cxq' # <<>>
        PROVE  \E u \in Threads : pc'[u] \in {"readOnDeck", "readCxq", "casOnDeck", "resample"}
    <3>1. CASE OnDeck # NULL
      BY <1>1, <1>9, <1>13, <2>2, <3>1 DEF Punt, Goto
    <3>2. CASE OnDeck = NULL
      <4>1. cxq' = cxq
        <5>1. AcquireOrPush(t) => cxq' = cxq
          BY <1>13 DEF AcquireOrPush
        <5>2. DrainCxq(t) => cxq' = cxq
          BY <1>1, <1>5, <3>2 DEF DrainCxq, Inner
        <5> QED BY <1>8, <1>13, <5>1, <5>2, CxqFrame
      <4>2. PICK u \in Threads : pc[u] \in {"readOnDeck", "readCxq", "casOnDeck", "resample"}
        BY <1>13, <2>2, <3>2, <4>1 DEF SuccInv
      <4>3. CASE u # t
        BY <1>2, <4>2, <4>3
      <4>4. CASE u = t
        <5>1. CASE pc[t] = "readOnDeck"
          BY <1>1, <1>4, <3>2, <5>1 DEF ReadOnDeck, Goto
        <5>2. CASE pc[t] = "readCxq"
          BY <1>1, <1>4, <1>13, <2>2, <4>1, <5>2 DEF ReadCxq, Goto
        <5>3. CASE pc[t] = "resample"
          BY <1>1, <1>4, <1>13, <2>2, <4>1, <5>3 DEF Resample, Goto
        <5>4. CASE pc[t] = "casOnDeck"
          BY <1>1, <1>4, <2>2, <3>2, <5>4 DEF CasOnDeck
        <5> QED BY <4>2, <4>4, <5>1, <5>2, <5>3, <5>4
      <4> QED BY <4>3, <4>4
    <3> QED BY <3>1, <3>2
  <2>3. ASSUME OnDeck' \in Threads
        PROVE  \/ WillRun(OnDeck)'
               \/ \E u \in Threads : pc'[u] = "readOnDeck" \/ (pc'[u] = "recheck" /\ wakee'[u] = OnDeck')
    <3>1. CASE OnDeck \notin Threads
      <4>1. SetOnDeck(t)
        BY <1>1, <1>9, <1>13, <2>3, <3>1
      <4>2. pc'[t] = "recheck" /\ wakee'[t] = OnDeck'
        BY <1>1, <4>1 DEF SetOnDeck, Goto, locVars
      <4> QED BY <4>2
    <3>2. CASE OnDeck \in Threads
      <4>1. PICK w \in Threads : w = OnDeck
        BY <3>2
      <4>2. OnDeck' = w
        BY <1>1, <1>9, <1>13, <4>1
      <4>3. SUFFICES \/ pc'[w] \notin SleepPcs
                     \/ Event'[w] = 1
                     \/ \E u \in Threads : \/ pc'[u] = "unpark" /\ wakee'[u] = w
                                           \/ pc'[u] = "readOnDeck"
                                           \/ pc'[u] = "recheck" /\ wakee'[u] = w
        BY <4>2 DEF WillRun, SleepPcs
      <4>4. \/ pc[w] \notin SleepPcs
            \/ pc[w] \in SleepPcs /\ Event[w] = 1
            \/ \E u \in Threads : \/ pc[u] = "unpark" /\ wakee[u] = w
                                  \/ pc[u] = "readOnDeck"
                                  \/ pc[u] = "recheck" /\ wakee[u] = w
        BY <1>13, <3>2, <4>1 DEF SuccInv, WillRun, SleepPcs
      <4>5. CASE pc[w] \notin SleepPcs
        <5>1. CASE w # t
          BY <1>2, <4>5, <5>1
        <5>2. CASE w = t
          <6>1. ASSUME pc[t] = "waitLoop", ~Notified[t] PROVE FALSE
            <7>1. Waiting(t)
              BY <6>1 DEF Waiting, WaitingPcs, LockInv, ControlInv, OpInv
            <7>2. t \notin In(WaitSet)
              BY <4>1, <5>2, <6>1 DEF CommitInv, Committed, QueuePcs, OnDeckPcs
            <7>3. PICK v \in Threads : pc[v] = "notified"
              BY <6>1, <7>1, <7>2 DEF WaitInv, BeingNotified
            <7>4. Holds(v)
              BY <7>3 DEF Holds, SnuckPast, LockInv, ControlInv, SnuckInv
            <7> QED BY <1>5, <1>13, <7>4
          <6> QED BY <1>3, <1>13, <4>1, <4>5, <5>2, <6>1
        <5> QED BY <5>1, <5>2
      <4>6. CASE pc[w] \in SleepPcs /\ Event[w] = 1
        BY <1>2, <1>3, <4>6
      <4>7. ASSUME NEW u \in Threads, \/ pc[u] = "unpark" /\ wakee[u] = w
                                      \/ pc[u] = "readOnDeck"
                                      \/ pc[u] = "recheck" /\ wakee[u] = w
            PROVE \/ Event'[w] = 1
                  \/ \E v \in Threads : \/ pc'[v] = "unpark" /\ wakee'[v] = w
                                        \/ pc'[v] = "readOnDeck"
                                        \/ pc'[v] = "recheck" /\ wakee'[v] = w
        <5>1. CASE u # t
          BY <1>2, <4>7, <5>1
        <5>2. CASE u = t
          <6>1. CASE pc[t] = "unpark" /\ wakee[t] = w
            BY <1>1, <1>4, <6>1 DEF Unpark
          <6>2. CASE pc[t] = "readOnDeck"
            BY <1>1, <1>4, <4>1, <6>2 DEF ReadOnDeck, Goto
          <6>3. CASE pc[t] = "recheck" /\ wakee[t] = w
            BY <1>1, <1>4, <1>13, <6>3 DEF Recheck, Goto
          <6> QED BY <4>7, <5>2, <6>1, <6>2, <6>3
        <5> QED BY <5>1, <5>2
      <4> QED BY <4>4, <4>5, <4>6, <4>7
    <3> QED BY <3>1, <3>2
  <2> QED BY <1>10, <2>1, <2>2, <2>3 DEF SuccInv
<1> QED BY <1>1, <1>11, <1>12, <1>13

\* SuccInv is an invariant.
LEMMA SuccInvariant == Spec => []SuccInv
<1>1. Init => SuccInv
  BY ThreadAssumption DEF Init, SuccInv
<1>2. LockInv /\ WaitInv /\ (ListInv /\ CommitInv) /\ SuccInv /\ [Next]_vars => SuccInv'
  <2> SUFFICES ASSUME LockInv, WaitInv, ListInv, CommitInv, SuccInv, [Next]_vars PROVE SuccInv'
    OBVIOUS
  <2>1. CASE \E t \in Threads : Call(t) \/ Step(t)
    BY <2>1, SuccStep
  <2>2. CASE ~\E t \in Threads : Call(t) \/ Step(t)
    BY <2>2, IdleFrame DEF SuccInv, WillRun
  <2> QED BY <2>1, <2>2
<1> QED BY <1>1, <1>2, LockInvariant, WaitInvariant, QueueInvariant, PTL DEF Spec

\* No thread is stranded, for any number of threads: whenever one is queued
\* or OnDeck, the lock is held, or a thread inside IUnlock has yet to see
\* it, or the OnDeck thread runs or has a permit or an unpark() coming.
THEOREM NobodyStranded == Spec => []Succession
<1>1. LockInv /\ (ListInv /\ CommitInv) /\ SuccInv => Succession
  <2> SUFFICES ASSUME LockInv, ListInv, SuccInv, NEW t \in Threads, Queued(t) \/ OnDeck = t,
                      ~LockByte
               PROVE  \/ \E u \in Threads : pc[u] \in IUnlockPcs \ {"unpark"}
                      \/ OnDeck \in Threads /\ WillRun(OnDeck)
    BY DEF Succession
  <2>1. CASE OnDeck = LBIT
    BY <2>1 DEF LockInv, InnerInv, InnerLockExclusion, Inner, IUnlockPcs
  <2>2. CASE OnDeck \in Threads
    BY <2>2 DEF SuccInv, IUnlockPcs
  <2>3. CASE OnDeck = NULL
    <3>1. \A u \in Threads : pc[u] \notin {"install", "setOnDeck"}
      BY <2>3, ThreadAssumption DEF LockInv, InnerInv, InnerLockExclusion, Inner
    <3>2. In(<<>>) = {}
      BY SMTT(30) DEF In
    <3>3. t \in In(cxq) \cup In(EntryList)
      BY <2>3, <3>1, <3>2, ThreadAssumption DEF Queued, InTransit, ListInv
    <3>4. cxq # <<>> \/ EntryList # <<>>
      BY <3>2, <3>3
    <3> QED BY <2>3, <3>4 DEF SuccInv, IUnlockPcs
  <2> QED BY <2>1, <2>2, <2>3 DEF LockInv, ControlInv, TypeOK
<1> QED BY <1>1, LockInvariant, QueueInvariant, SuccInvariant, PTL

-----------------------------------------------------------------------------
(* Refinement.                                                             *)

InWait(t) == op[t] \in {"wait", "timedwait"}

\* What the abstract variables are when the lock is exclusive.
BarInv ==
  /\ \A t \in Threads : Holds(t) => holderBar = t
  /\ (\A t \in Threads : ~Holds(t)) => holderBar = NULL
  /\ \A t \in Threads :
       t \in returningBar <=> InWait(t) /\ ~Holds(t) /\ t \notin In(WaitSet)

\* They follow from the lock's invariants.
LEMMA BarFacts == LockInv => BarInv
<1> SUFFICES ASSUME LockInv PROVE BarInv
  OBVIOUS
<1>1. \A t, u \in Threads : Holds(t) /\ Holds(u) => t = u
  BY DEF LockInv, LockByteExclusion
<1>2. \A t \in Threads : Holds(t) => holderBar = t
  <2> TAKE t \in Threads
  <2> HAVE Holds(t)
  <2> DEFINE c == CHOOSE u \in Threads : Holds(u)
  <2>1. c \in Threads /\ Holds(c)
    OBVIOUS
  <2>2. c = t
    BY <1>1, <2>1
  <2> QED BY <2>2 DEF holderBar
<1>3. (\A t \in Threads : ~Holds(t)) => holderBar = NULL
  BY DEF holderBar
<1>4. \A t \in Threads : InWait(t) /\ pc[t] = "enterTB" => Holds(t)
  BY DEF InWait, Holds, WaitOps, SnuckPast, LockInv, ControlInv, SnuckInv
<1>5. \A t \in Threads : t \in returningBar <=>
                  InWait(t) /\ ~Holds(t) /\ t \notin In(WaitSet)
  BY <1>4 DEF returningBar, InWait
<1> QED BY <1>2, <1>3, <1>5 DEF BarInv

\* op[t] enters and leaves the wait operations only while t has the lock.
LEMMA InWaitKind ==
  ASSUME ControlInv, NEW t \in Threads, Call(t) \/ Step(t), InWait(t)' # InWait(t)
  PROVE  Holds(t) /\ Holds(t)'
<1>1. pc \in [Threads -> Pcs] /\ op \in [Threads -> Ops] /\ OpInv /\ SnuckInv /\ snuck \in BOOLEAN
  BY DEF ControlInv, TypeOK
<1> USE DEF InWait, Holds, SnuckPast, OpInv, SnuckInv, WaitOps, IUnlockPcs, WaitingPcs, Goto, ownVars
<1>2. CASE Call(t)
  BY SMTT(60), <1>1, <1>2 DEF Call, LockCall, TryLock, LockNoCheckCall, TryLockCall, CanSneak,
         NotifyCall, WaitCall
<1>3. CASE LockStep(t)
  BY SMTT(60), <1>1, <1>3 DEF LockStep, SneakTest, CanSneak, TrySneak, Contend, TryLock, EnterTB,
         LeaveTB, SetOwner, UnlockCall
<1>4. CASE ILockStep(t)
  BY <1>1, <1>4 DEF ILockStep, ILockSpin, AfterILock, TryLock, AcquireOrPush,
         CheckOnDeck, ParkOnList, Park, WakeUp, OnDeckSpin, ParkOnDeck,
         ClearOnDeck
<1>5. CASE IUnlockStep(t)
  BY SMTT(60), <1>1, <1>5 DEF IUnlockStep, ReleaseOuter, ReadOnDeck, IUnlockReturn, ReadCxq,
         ReadEntry, CasOnDeck, PickHead, DrainCxq, InstallEntryList,
         SetOnDeck, Recheck, Unpark, Punt, Resample
<1>6. CASE NotifyStep(t)
  BY SMTT(60), <1>1, <1>6 DEF NotifyStep, NotifyTest, Transfer, NotifyReturn, SetNotified
<1>7. CASE IWaitStep(t)
  BY SMTT(60), <1>1, <1>7 DEF IWaitStep, AddWaiter, WaitLoop, WaitPark, Park, WakeUp, WaitTimeout,
         WaitOut, RemoveSelf, Omit, WaitDone, Resume
<1> QED BY <1>2, <1>3, <1>4, <1>5, <1>6, <1>7 DEF Step

\* What a step of t is to the abstract monitor.
AbstractStep(t) ==
  \/ UNCHANGED <<holderBar, waitingBar, returningBar>>
  \/ Abstract!Enter(t) \/ Abstract!Exit(t) \/ Abstract!Wait(t)
  \/ RemoveSelf(t) /\ Abstract!TimeOut(t)
  \/ \E u \in Threads : Abstract!Notify(t, u)

\* Every step of a thread is a step of the abstract monitor or a stutter.
LEMMA RefinementStep ==
  ASSUME OnlyJavaCompetes, LockInv, LockInv', WaitInv, OwnerInv,
         NEW t \in Threads, Call(t) \/ Step(t)
  PROVE  AbstractStep(t)
<1>1. /\ \A u \in Threads : Holds(u) => holderBar = u
      /\ (\A u \in Threads : ~Holds(u)) => holderBar = NULL
      /\ \A u \in Threads : u \in returningBar <=>
           InWait(u) /\ ~Holds(u) /\ u \notin In(WaitSet)
  BY BarFacts DEF BarInv
<1>2. /\ \A u \in Threads : Holds(u)' => holderBar' = u
      /\ (\A u \in Threads : ~Holds(u)') => holderBar' = NULL
      /\ \A u \in Threads : u \in returningBar' <=>
           InWait(u)' /\ ~Holds(u)' /\ u \notin In(WaitSet)'
  <2>1. BarInv'
    BY BarFacts, PTL
  <2> QED BY <2>1 DEF BarInv
<1>3. returningBar \subseteq Threads /\ returningBar' \subseteq Threads
  BY DEF returningBar
<1>4. waitingBar = {u \in In(WaitSet) : ~Holds(u)} /\ waitingBar' = {u \in In(WaitSet)' : ~Holds(u)'}
  BY DEF waitingBar
<1>5. In(WaitSet) \subseteq Threads /\ In(WaitSet)' \subseteq Threads
  <2>1. WaitSet \in Seq(Threads) /\ WaitSet' \in Seq(Threads)
    BY DEF LockInv, ControlInv, TypeOK
  <2> QED BY SMTT(60), <2>1 DEF In
<1>6. \A u \in Threads \ {t} : InWait(u)' = InWait(u) /\ pc'[u] = pc[u]
  BY ControlStep DEF InWait, LockInv, ControlInv, TypeOK
<1>7. InWait(t)' # InWait(t) => Holds(t) /\ Holds(t)'
  BY InWaitKind DEF LockInv
<1>8. \A u, v \in Threads : Holds(u) /\ Holds(v) => u = v
  BY DEF LockInv, LockByteExclusion
<1>9. LockByte <=> \E u \in Threads : Holds(u)
  BY DEF LockInv, LockByteExclusion
<1>10. LockByte \in BOOLEAN /\ LockByte' \in BOOLEAN
  BY DEF LockInv, ControlInv, TypeOK
<1>11. CASE UnlockCall(t) /\ snuck
  <2>1. VMThread \in Threads /\ pc[VMThread] \in {"exeunt", "owned"} /\ pc[t] = "owned"
    BY <1>11 DEF UnlockCall, LockInv, ControlInv, SnuckInv
  <2>2. t = VMThread
    BY <2>1, Alone DEF InsidePcs, CriticalPcs
  <2>3. pc'[t] = "idle" /\ op' = op /\ WaitSet' = WaitSet
    BY <1>11 DEF UnlockCall, Goto, waitVars, LockInv, ControlInv, TypeOK
  <2>4. \A u \in Threads : Holds(u)' = Holds(u)
    BY <1>6, <1>11, <2>2, <2>3 DEF Holds, SnuckPast
  <2>5. In(WaitSet)' = In(WaitSet)
    BY <2>3 DEF In
  <2>6. \A u \in Threads : InWait(u)' = InWait(u)
    BY <2>3 DEF InWait
  <2>7. holderBar' = holderBar
    BY <1>1, <1>2, <2>4
  <2> QED BY <1>1, <1>2, <1>3, <1>4, <1>5, <2>4, <2>5, <2>6, <2>7 DEF AbstractStep
<1>12. CASE ~(UnlockCall(t) /\ snuck)
  <2>1. \A u \in Threads \ {t} : Holds(u)' = Holds(u)
    BY <1>12, HoldOthers DEF LockInv
  <2>2. HoldSame(t) \/ HoldAcquire(t) \/ HoldRelease(t) \/ Transfer(t)
    BY <1>12, ControlInvStep DEF HoldKind, LockInv, ControlInv, TypeOK
  <2>3. \/ WaitSet' = WaitSet
        \/ Transfer(t) /\ WaitSet # <<>>
        \/ AddWaiter(t)
        \/ RemoveSelf(t) /\ ~Notified[t]
    <3>1. Transfer(t) => WaitSet' = WaitSet \/ WaitSet # <<>>
      BY DEF Transfer
    <3>2. RemoveSelf(t) => WaitSet' = WaitSet \/ ~Notified[t]
      BY DEF RemoveSelf
    <3>3. UNCHANGED waitVars \/ SetNotified(t) => WaitSet' = WaitSet
      BY DEF waitVars, SetNotified
    <3> QED BY <3>1, <3>2, <3>3, WaitFrame
  <2>4. CASE Transfer(t) /\ WaitSet # <<>>
    <3> DEFINE h == Head(WaitSet)
    <3>1. /\ pc[t] = "transfer" /\ WaitSet' = Tail(WaitSet) /\ pc'[t] = "notified"
          /\ snuck' = snuck
      BY <2>4 DEF Transfer, Goto, ownVars, LockInv, ControlInv, TypeOK
    <3>2. Holds(t) /\ Holds(t)'
      BY <3>1 DEF Holds, SnuckPast, LockInv, ControlInv, SnuckInv
    <3>3. h \in In(WaitSet) /\ In(WaitSet)' = In(WaitSet) \ {h}
      <4> DEFINE T == Tail(WaitSet)
      <4>1. WaitSet' = T /\ In(T) = In(WaitSet) \ {h} /\ h \in In(WaitSet)
        BY <2>4, <3>1, TailFacts DEF WaitInv, LockInv, ControlInv, TypeOK
      <4> HIDE DEF T, h
      <4> QED BY <4>1 DEF In
    <3> HIDE DEF h
    <3>4. h \in Threads /\ h # t /\ InWait(h)
      BY <1>5, <3>1, <3>3 DEF WaitInv, Waiting, InWait, IUnlockPcs, WaitingPcs
    <3>5. \A u \in Threads : InWait(u)' = InWait(u) \/ Holds(u)'
      BY <1>6, <1>7
    <3>6. \A u \in Threads : Holds(u)' <=> Holds(u)
      BY <2>1, <3>2
    <3>7. holderBar = t /\ holderBar' = t
      BY <1>1, <1>2, <3>2
    <3>8. waitingBar' = waitingBar \ {h} /\ h \in waitingBar
      BY <1>4, <1>5, <1>8, <3>2, <3>3, <3>4, <3>6
    <3>9. returningBar' = returningBar \cup {h}
      BY <1>1, <1>2, <1>3, <1>6, <1>7, <1>8, <3>2, <3>3, <3>4, <3>6
    <3> QED BY <3>4, <3>7, <3>8, <3>9 DEF AbstractStep, Abstract!Notify, Abstract!EndWait
  <2>5. CASE HoldAcquire(t)
    <3>1. ~LockByte /\ LockByte' /\ ~Holds(t) /\ Holds(t)'
      BY <2>5 DEF HoldAcquire
    <3>2. WaitSet' = WaitSet
      <4>1. Transfer(t) => Holds(t)
        BY DEF Transfer, Holds, SnuckPast, LockInv, ControlInv, SnuckInv
      <4>2. AddWaiter(t) \/ RemoveSelf(t) => LockByte' = LockByte
        BY DEF AddWaiter, RemoveSelf
      <4> QED BY <1>10, <2>3, <3>1, <4>1, <4>2
    <3>3. t \notin In(WaitSet)
      <4>1. SUFFICES ASSUME t \in In(WaitSet) PROVE FALSE
        OBVIOUS
      <4>2. Waiting(t) /\ ~Notified[t]
        BY <4>1 DEF WaitInv
      <4>3. ~AddWaiter(t) /\ ~RemoveSelf(t)
        BY <1>10, <3>1 DEF AddWaiter, RemoveSelf
      <4>4. Waiting(t)' /\ pc'[t] # "release"
        BY <4>2, <4>3, WaitKind DEF LockInv
      <4> QED BY <3>1, <4>4 DEF Waiting, Holds, IUnlockPcs, WaitingPcs
    <3>4. In(WaitSet)' = In(WaitSet)
      BY <3>2 DEF In
    <3>5. \A u \in Threads : ~Holds(u)
      BY <1>9, <3>1
    <3>6. \A u \in Threads \ {t} : ~Holds(u)'
      BY <2>1, <3>5
    <3>7. holderBar = NULL /\ holderBar' = t
      BY <1>1, <1>2, <3>1, <3>5
    <3>8. waitingBar' = waitingBar /\ t \notin waitingBar
      BY <1>4, <1>5, <3>3, <3>4, <3>5, <3>6
    <3>9. returningBar' = returningBar \ {t}
      BY <1>1, <1>2, <1>3, <1>6, <3>1, <3>4, <3>5, <3>6
    <3> QED BY <3>7, <3>8, <3>9 DEF AbstractStep, Abstract!Enter
  <2>6. CASE HoldRelease(t)
    <3>1. Holds(t) /\ ~Holds(t)' /\ ~LockByte' /\ LockByte
      BY <1>9, <2>6 DEF HoldRelease
    <3>2. ReleaseOuter(t)
      <4>1. ~Transfer(t)
        BY <1>10, <3>1 DEF Transfer
      <4>2. ~(LockCall(t) \/ TryLockCall(t) \/ Contend(t) \/ ILockSpin(t) \/ AcquireOrPush(t)
              \/ OnDeckSpin(t))
        BY <1>10, <3>1
           DEF LockCall, TryLockCall, Contend, ILockSpin, AcquireOrPush, OnDeckSpin, TryLock
      <4> QED BY <1>10, <3>1, <4>1, <4>2, LockByteFrame
    <3>3. pc[t] = "release" /\ WaitSet' = WaitSet
      BY <3>2 DEF ReleaseOuter, waitVars
    <3>4. In(WaitSet)' = In(WaitSet)
      BY <3>3 DEF In
    <3>5. InWait(t) => t \in In(WaitSet)
      BY <3>3 DEF WaitInv, Waiting, InWait, IUnlockPcs
    <3>6. \A u \in Threads \ {t} : ~Holds(u) /\ ~Holds(u)'
      BY <1>8, <2>1, <3>1
    <3>7. holderBar = t /\ holderBar' = NULL
      BY <1>1, <1>2, <3>1, <3>6
    <3>8. returningBar' = returningBar
      BY <1>1, <1>2, <1>3, <1>6, <1>7, <3>1, <3>4, <3>5, <3>6
    <3>9. CASE t \in In(WaitSet)
      <4>1. waitingBar' = waitingBar \cup {t}
        BY <1>4, <1>5, <3>1, <3>4, <3>6, <3>9
      <4> QED BY <3>7, <3>8, <4>1 DEF AbstractStep, Abstract!Wait
    <3>10. CASE t \notin In(WaitSet)
      <4>1. waitingBar' = waitingBar
        BY <1>4, <1>5, <3>4, <3>6, <3>10
      <4> QED BY <3>7, <3>8, <4>1 DEF AbstractStep, Abstract!Exit
    <3> QED BY <3>9, <3>10
  <2>7. CASE RemoveSelf(t) /\ ~Notified[t]
    <3>1. pc[t] = "removeSelf" /\ pc'[t] = "ilock" /\ op' = op
      BY <2>7 DEF RemoveSelf, Goto, LockInv, ControlInv, TypeOK
    <3>2. PICK i \in DOMAIN WaitSet : WaitSet[i] = t /\ WaitSet' = Omit(WaitSet, i)
      BY <2>7 DEF RemoveSelf
    <3>3. t \in In(WaitSet) /\ In(WaitSet)' = In(WaitSet) \ {t}
      <4>1. In(Omit(WaitSet, i)) = In(WaitSet) \ {t}
        BY <3>2, OmitFacts DEF WaitInv, LockInv, ControlInv, TypeOK
      <4> QED BY <3>2, <4>1 DEF In
    <3>4. InWait(t) /\ InWait(t)'
      BY <3>1, <3>3 DEF WaitInv, Waiting, InWait
    <3>5. ~Holds(t) /\ ~Holds(t)'
      BY <3>1 DEF Holds
    <3>6. \A u \in Threads : Holds(u)' <=> Holds(u)
      BY <2>1, <3>5
    <3>7. holderBar' = holderBar
      BY <1>1, <1>2, <3>6
    <3>8. waitingBar' = waitingBar \ {t} /\ t \in waitingBar
      BY <1>4, <1>5, <3>3, <3>5, <3>6
    <3>9. returningBar' = returningBar \cup {t}
      BY <1>1, <1>2, <1>3, <1>6, <3>3, <3>4, <3>5, <3>6
    <3> QED BY <2>7, <3>7, <3>8, <3>9 DEF AbstractStep, Abstract!TimeOut, Abstract!EndWait
  <2>8. CASE AddWaiter(t)
    <3>1. /\ pc[t] = "addWaiter" /\ pc'[t] = "release" /\ op' = op /\ snuck' = snuck
          /\ WaitSet' = <<t>> \o WaitSet
      BY <2>8 DEF AddWaiter, Goto, ownVars, LockInv, ControlInv, TypeOK
    <3>2. Holds(t) /\ Holds(t)'
      BY <3>1 DEF Holds, SnuckPast, LockInv, ControlInv, SnuckInv
    <3>3. In(WaitSet)' = In(WaitSet) \cup {t}
      <4>1. t \notin In(WaitSet)
        BY <3>1 DEF WaitInv, Waiting, IUnlockPcs, WaitingPcs
      <4>2. In(<<t>> \o WaitSet) = In(WaitSet) \cup {t}
        <5>1. WaitSet \in Seq(Threads) /\ Injective(WaitSet)
          BY DEF WaitInv, LockInv, ControlInv, TypeOK
        <5> QED BY <4>1, <5>1, PushFacts
      <4> QED BY <3>1, <4>2 DEF In
    <3>4. \A u \in Threads : Holds(u)' <=> Holds(u)
      BY <2>1, <3>2
    <3>5. holderBar' = holderBar
      BY <1>1, <1>2, <3>2
    <3>6. waitingBar' = waitingBar
      BY <1>4, <1>5, <3>2, <3>3, <3>4
    <3>7. returningBar' = returningBar
      BY <1>1, <1>2, <1>3, <1>6, <1>8, <3>2, <3>3, <3>4
    <3> QED BY <3>5, <3>6, <3>7 DEF AbstractStep
  <2>9. CASE WaitSet' = WaitSet /\ (HoldSame(t) \/ Transfer(t))
    <3>1. Holds(t)' <=> Holds(t)
      <4>1. Transfer(t) => pc[t] = "transfer" /\ pc'[t] \in {"notified", "notify", "owned"} /\ snuck' = snuck
        BY DEF Transfer, NotifyReturn, Goto, ownVars, LockInv, ControlInv, TypeOK
      <4>2. Transfer(t) => Holds(t) /\ Holds(t)'
        BY <4>1 DEF Holds, SnuckPast, LockInv, ControlInv, SnuckInv
      <4> QED BY <2>9, <4>2 DEF HoldSame
    <3>2. \A u \in Threads : Holds(u)' <=> Holds(u)
      BY <2>1, <3>1
    <3>3. In(WaitSet)' = In(WaitSet)
      BY <2>9 DEF In
    <3>4. holderBar' = holderBar
      BY <1>1, <1>2, <3>2
    <3>5. waitingBar' = waitingBar
      BY <1>4, <1>5, <3>2, <3>3
    <3>6. returningBar' = returningBar
      BY <1>1, <1>2, <1>3, <1>6, <1>7, <3>2, <3>3
    <3> QED BY <3>4, <3>5, <3>6 DEF AbstractStep
  <2> QED BY <2>2, <2>3, <2>4, <2>5, <2>6, <2>7, <2>8, <2>9
<1> QED BY <1>11, <1>12

\* A safepoint step is invisible.
LEMMA IdleRefinementStep ==
  ASSUME [Next]_vars, ~\E t \in Threads : Call(t) \/ Step(t)
  PROVE  UNCHANGED <<holderBar, waitingBar, returningBar>>
<1>1. UNCHANGED <<pc, op, snuck, WaitSet>>
  BY IdleFrame
<1>2. \A t : Holds(t)' = Holds(t)
  BY <1>1 DEF Holds, SnuckPast
<1>3. In(WaitSet)' = In(WaitSet)
  BY <1>1 DEF In
<1> QED BY <1>1, <1>2, <1>3 DEF holderBar, waitingBar, returningBar

\* The owner is the holder, when only Java threads compete.
LEMMA OwnerInvariant ==
  ASSUME OnlyJavaCompetes
  PROVE  Spec => []OwnerInv
<1>1. Init => OwnerInv
  BY SMTT(60), ThreadAssumption DEF Init, OwnerInv, OwnerExclusion, CriticalPcs
<1>2. LockInv /\ OwnerInv /\ [Next]_vars => OwnerInv'
  BY OwnerStep, IdleOwnerStep
<1> QED BY <1>1, <1>2, LockInvariant, PTL DEF Spec

\* The monitor implements the abstract one for any number of threads, as long
\* as only Java threads compete with a VM thread that may sneak: the lock is
\* exclusive, wait() gives it up and starts waiting in one step, and a waiter
\* returns only after a notify() by the thread inside or a timeout.
THEOREM MonitorRefinement ==
  ASSUME OnlyJavaCompetes
  PROVE  Spec => ImplementsMonitor
<1>1. Init => Abstract!Init
  <2> SUFFICES ASSUME Init PROVE Abstract!Init
    OBVIOUS
  <2>1. \A t \in Threads : ~Holds(t)
    BY DEF Init, Holds
  <2>2. In(WaitSet) = {}
    BY SMTT(60) DEF Init, In
  <2>3. holderBar = NULL
    BY <2>1 DEF holderBar
  <2>4. waitingBar = {}
    BY <2>2 DEF waitingBar
  <2>5. returningBar = {}
    BY DEF returningBar, Init
  <2> QED BY <2>3, <2>4, <2>5 DEF Abstract!Init
<1>2. Spec => []OwnerInv
  BY OwnerInvariant
<1>3. LockInv /\ LockInv' /\ WaitInv /\ OwnerInv /\ [Next]_vars
        => [Abstract!TimedNext]_(Abstract!vars)
  <2> SUFFICES ASSUME LockInv, LockInv', WaitInv, OwnerInv, [Next]_vars
               PROVE  [Abstract!TimedNext]_(Abstract!vars)
    OBVIOUS
  <2>1. CASE \E t \in Threads : Call(t) \/ Step(t)
    <3>1. PICK t \in Threads : Call(t) \/ Step(t)
      BY <2>1
    <3>2. AbstractStep(t)
      BY <3>1, RefinementStep
    <3> QED BY <3>2 DEF AbstractStep, Abstract!TimedNext, Abstract!Next, Abstract!vars
  <2>2. CASE ~\E t \in Threads : Call(t) \/ Step(t)
    BY <2>2, IdleRefinementStep DEF Abstract!vars
  <2> QED BY <2>1, <2>2
<1> QED
  BY <1>1, <1>2, <1>3, LockInvariant, WaitInvariant, PTL
     DEF Spec, ImplementsMonitor, Abstract!TimedSpec

-----------------------------------------------------------------------------
(* Clients that never wait with a timeout.                                 *)

Untimed == \A t \in Threads : "timedwait" \notin Calls[t]

\* Their waiters leave the loop of IWait only when Notified is set.
UntimedInv ==
  \A t \in Threads : /\ op[t] # "timedwait" /\ pc[t] # "removeSelf"
                     /\ pc[t] = "waitOut" => Notified[t]

\* The steps to the end of IWait's loop, and from there.
LEMMA UntimedKind ==
  ASSUME Untimed, ControlInv, NEW t \in Threads, Call(t) \/ Step(t),
         op[t] # "timedwait", pc[t] # "removeSelf", pc[t] = "waitOut" => Notified[t]
  PROVE  /\ op'[t] # "timedwait" /\ pc'[t] # "removeSelf"
         /\ pc'[t] = "waitOut" => Notified[t] /\ UNCHANGED waitVars
<1>1. pc \in [Threads -> Pcs] /\ op \in [Threads -> Ops] /\ "timedwait" \notin Calls[t]
  BY DEF ControlInv, TypeOK, Untimed
<1> USE DEF Goto
<1>2. CASE Call(t)
  BY SMTT(60), <1>1, <1>2 DEF Call, LockCall, TryLock, LockNoCheckCall, TryLockCall, CanSneak,
         NotifyCall, WaitCall
<1>3. CASE LockStep(t)
  BY SMTT(60), <1>1, <1>3 DEF LockStep, SneakTest, CanSneak, TrySneak, Contend, TryLock, EnterTB,
         LeaveTB, SetOwner, UnlockCall
<1>4. CASE ILockStep(t)
  BY SMTT(60), <1>1, <1>4 DEF ILockStep, ILockSpin, AfterILock, TryLock, AcquireOrPush,
         CheckOnDeck, ParkOnList, Park, WakeUp, OnDeckSpin, ParkOnDeck,
         ClearOnDeck
<1>5. CASE IUnlockStep(t)
  BY SMTT(60), <1>1, <1>5 DEF IUnlockStep, ReleaseOuter, ReadOnDeck, IUnlockReturn, ReadCxq,
         ReadEntry, CasOnDeck, PickHead, DrainCxq, InstallEntryList,
         SetOnDeck, Recheck, Unpark, Punt, Resample
<1>6. CASE NotifyStep(t)
  BY SMTT(60), <1>1, <1>6 DEF NotifyStep, NotifyTest, Transfer, NotifyReturn, SetNotified
<1>7. CASE IWaitStep(t)
  BY SMTT(60), <1>1, <1>7 DEF IWaitStep, AddWaiter, WaitLoop, WaitPark, Park, WakeUp, WaitTimeout,
         WaitOut, RemoveSelf, WaitDone, Resume
<1> QED BY <1>2, <1>3, <1>4, <1>5, <1>6, <1>7 DEF Step

\* No step of another thread clears Notified.
LEMMA UntimedStep ==
  ASSUME Untimed, ControlInv, UntimedInv, [Next]_vars
  PROVE  UntimedInv'
<1>0. pc \in [Threads -> Pcs] /\ Notified \in [Threads -> BOOLEAN]
  BY DEF ControlInv, TypeOK
<1>1. ASSUME NEW t \in Threads, Call(t) \/ Step(t)
      PROVE  UntimedInv'
  <2>1. \A u \in Threads \ {t} : pc'[u] = pc[u] /\ op'[u] = op[u]
    BY <1>1, ControlStep DEF ControlInv, TypeOK
  <2>2. \A u \in Threads \ {t} : Notified[u] => Notified'[u]
    <3>1. \/ Notified' = Notified \/ AddWaiter(t) \/ SetNotified(t)
      BY <1>1, WaitFrame DEF waitVars, Transfer, RemoveSelf
    <3> QED BY <1>0, <3>1 DEF AddWaiter, SetNotified
  <2>3. /\ op'[t] # "timedwait" /\ pc'[t] # "removeSelf"
        /\ pc'[t] = "waitOut" => Notified[t] /\ UNCHANGED waitVars
    BY <1>1, UntimedKind DEF UntimedInv
  <2>4. pc'[t] = "waitOut" => Notified'[t]
    BY <2>3 DEF waitVars
  <2> QED BY <2>1, <2>2, <2>3, <2>4 DEF UntimedInv
<1>2. CASE ~\E t \in Threads : Call(t) \/ Step(t)
  <2>1. UNCHANGED <<pc, op, Notified>>
    BY <1>2, IdleFrame
  <2> QED BY <2>1 DEF UntimedInv
<1> QED BY <1>1, <1>2

\* For clients without timeouts a waiter stays until the thread inside
\* notifies it: whatever unparks reach it, it goes back to sleep.
THEOREM UntimedRefinement ==
  ASSUME OnlyJavaCompetes, Untimed
  PROVE  Spec => ImplementsUntimedMonitor
<1>1. Spec => Abstract!Init
  BY MonitorRefinement, PTL DEF ImplementsMonitor, Abstract!TimedSpec
<1>2. Spec => []OwnerInv
  BY OwnerInvariant
<1>3. Spec => []UntimedInv
  <2>1. Init => UntimedInv
    BY DEF Init, UntimedInv
  <2>2. LockInv /\ UntimedInv /\ [Next]_vars => UntimedInv'
    BY UntimedStep DEF LockInv
  <2> QED BY <2>1, <2>2, LockInvariant, PTL DEF Spec
<1>4. LockInv /\ LockInv' /\ WaitInv /\ OwnerInv /\ UntimedInv /\ [Next]_vars
        => [Abstract!Next]_(Abstract!vars)
  <2> SUFFICES ASSUME LockInv, LockInv', WaitInv, OwnerInv, UntimedInv, [Next]_vars
               PROVE  [Abstract!Next]_(Abstract!vars)
    OBVIOUS
  <2>1. CASE \E t \in Threads : Call(t) \/ Step(t)
    <3>1. PICK t \in Threads : Call(t) \/ Step(t)
      BY <2>1
    <3>2. AbstractStep(t) /\ ~RemoveSelf(t)
      BY <3>1, RefinementStep DEF UntimedInv, RemoveSelf
    <3> QED BY <3>2 DEF AbstractStep, Abstract!Next, Abstract!vars
  <2>2. CASE ~\E t \in Threads : Call(t) \/ Step(t)
    BY <2>2, IdleRefinementStep DEF Abstract!vars
  <2> QED BY <2>1, <2>2
<1> QED
  BY <1>1, <1>2, <1>3, <1>4, LockInvariant, WaitInvariant, PTL
     DEF Spec, ImplementsUntimedMonitor, Abstract!Spec
====
