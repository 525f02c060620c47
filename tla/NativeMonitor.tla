---------------------------- MODULE NativeMonitor ----------------------------
(***************************************************************************)
(* The VM-internal lock, class Monitor of runtime/mutex.cpp: one monitor,  *)
(* the threads that lock, try_lock, unlock, wait on and notify it, and the *)
(* VM thread that may "sneak" past it at a safepoint.                      *)
(*                                                                         *)
(* One step is one access to shared memory.  A CAS loop is the step of its *)
(* successful CAS: its decision is taken on the word the CAS ratifies.     *)
(* The lists are sequences of threads (a thread stands for its             *)
(* _MutexEvent), the head first.  Memory is sequentially consistent: every *)
(* store-load pair the code relies on has a fence between the two.         *)
(***************************************************************************)
EXTENDS Integers, Sequences, Lists

CONSTANTS Threads,      \* the threads that use the monitor
          JavaThreads,  \* those that stop at safepoints
          VMThread,     \* the thread that runs safepoints, if it is in Threads
          Calls,        \* thread -> the operations it calls, a subset of AllCalls
          NULL,         \* the null pointer
          LBIT          \* _LBIT as a value of _OnDeck: the inner lock is held

AllCalls == {"lock", "lockNoCheck", "tryLock", "wait", "timedwait", "notify", "notifyAll"}

ASSUME ThreadAssumption ==
  /\ Calls \in [Threads -> SUBSET AllCalls]
  /\ JavaThreads \subseteq Threads
  /\ VMThread \notin JavaThreads
  /\ NULL \notin Threads
  /\ LBIT \notin Threads
  /\ LBIT # NULL

VARIABLES
  LockByte,   \* low byte of _LockWord: TRUE when the outer lock is held
  cxq,        \* rest of _LockWord: the contention queue
  OnDeck,     \* _OnDeck: NULL, a thread, or LBIT
  EntryList,  \* _EntryList
  WaitSet,    \* _WaitSet
  WaitLock,   \* holder of _WaitLock, or NULL
  owner,      \* _owner
  snuck,      \* _snuck
  Event,      \* thread -> _Event of its ParkEvent: 1, 0, or -1 (parked)
  Notified,   \* thread -> ParkEvent::Notified
  pc,         \* thread -> where it is
  op,         \* thread -> the public operation it is in
  wakee,      \* thread -> local w of IUnlock
  seg,        \* thread -> local List of IUnlock: the detached cxq segment
  safepoint   \* SafepointSynchronize::is_at_safepoint()

entryVars == <<cxq, OnDeck, EntryList>>
waitVars  == <<WaitSet, WaitLock, Notified>>
ownVars   == <<owner, snuck>>
locVars   == <<wakee, seg>>
vars      == <<LockByte, entryVars, waitVars, ownVars, Event, pc, op, locVars, safepoint>>

-----------------------------------------------------------------------------
(* Locations.  A waiting thread is between wait() and its return.          *)

ILockPcs   == {"ilock", "push", "chkOnDeck", "parkList", "parkedList",
               "onDeck", "parkOnDeck", "parkedOnDeck", "clearOnDeck"}
IUnlockPcs == {"release", "readOnDeck", "readCxq", "readEntry", "casOnDeck",
               "pickHead", "drain", "install", "setOnDeck", "recheck",
               "unpark", "punt", "resample"}
IWaitPcs   == {"addWaiter", "waitLoop", "waitPark", "waitParked",
               "waitOut", "removeSelf", "waitDone"}
Pcs        == {"idle", "sneakTest", "trySneak", "contend", "enterTB", "leaveTB",
               "exeunt", "owned", "notify", "transfer", "notified", "suspended"}
              \cup ILockPcs \cup IUnlockPcs \cup IWaitPcs
Ops        == {"none", "lock", "lockNoCheck", "unlock", "wait", "timedwait",
               "suspend", "notify", "notifyAll"}
WaitOps    == {"wait", "timedwait", "suspend"}

\* A Java thread here is stopped, or is in state _thread_blocked and runs on
\* inside ILock/IWait/IUnlock without stopping a safepoint.
SafepointSafe(t) ==
  \/ pc[t] \in {"idle", "enterTB", "leaveTB", "suspended"}
  \/ /\ pc[t] \in ILockPcs \cup IUnlockPcs \cup IWaitPcs
     /\ op[t] \in WaitOps \cup {"lock"}

\* The thread state transitions of ThreadBlockInVM stop a Java thread while
\* a safepoint is in force.
MayPassTransition(t) == t \in JavaThreads => ~safepoint

Goto(t, l) == pc' = [pc EXCEPT ![t] = l]

TypeOK ==
  /\ LockByte \in BOOLEAN
  /\ cxq \in Seq(Threads) /\ EntryList \in Seq(Threads) /\ WaitSet \in Seq(Threads)
  /\ OnDeck \in Threads \cup {NULL, LBIT}
  /\ WaitLock \in Threads \cup {NULL}
  /\ owner \in Threads \cup {NULL}
  /\ snuck \in BOOLEAN
  /\ Event \in [Threads -> {-1, 0, 1}]
  /\ Notified \in [Threads -> BOOLEAN]
  /\ pc \in [Threads -> Pcs]
  /\ op \in [Threads -> Ops]
  /\ wakee \in [Threads -> Threads \cup {NULL}]
  /\ seg \in [Threads -> Seq(Threads)]
  /\ safepoint \in BOOLEAN

Init ==
  /\ LockByte = FALSE /\ cxq = <<>>
  /\ OnDeck = NULL /\ EntryList = <<>>
  /\ WaitSet = <<>> /\ WaitLock = NULL
  /\ owner = NULL /\ snuck = FALSE
  /\ Event = [t \in Threads |-> 0]
  /\ Notified = [t \in Threads |-> FALSE]
  /\ pc = [t \in Threads |-> "idle"]
  /\ op = [t \in Threads |-> "none"]
  /\ wakee = [t \in Threads |-> NULL]
  /\ seg = [t \in Threads |-> <<>>]
  /\ safepoint = FALSE

-----------------------------------------------------------------------------
(* Monitor::lock, lock_without_safepoint_check, try_lock and unlock.       *)

\* Mutant: a plain store instead of the CAS.
TryLockStores == LockByte' = TRUE

\* TryLock, TryFast and each probe of TrySpin: CAS the lock byte from 0.
TryLock == ~LockByte /\ LockByte' = TRUE

\* Mutant: sneaks also when there is no safepoint.
CanSneakAlways(t) == t = VMThread /\ owner = NULL

CanSneak(t) == t = VMThread /\ safepoint /\ owner = NULL

LockCall(t) ==
  /\ "lock" \in Calls[t]
  /\ pc[t] = "idle" /\ MayPassTransition(t)
  /\ op' = [op EXCEPT ![t] = "lock"]
  /\ \/ TryLock /\ Goto(t, "exeunt")
     \/ /\ LockByte /\ UNCHANGED LockByte
        /\ Goto(t, IF t = VMThread THEN "sneakTest" ELSE "contend")
  /\ UNCHANGED <<entryVars, waitVars, ownVars, Event, locVars, safepoint>>

\* The VM thread pretends to have the lock, or contends like any other.
SneakTest(t) ==
  /\ pc[t] = "sneakTest"
  /\ \/ CanSneak(t) /\ snuck' = TRUE /\ Goto(t, "exeunt")
     \/ ~CanSneak(t) /\ Goto(t, "contend") /\ UNCHANGED snuck
  /\ UNCHANGED <<LockByte, entryVars, waitVars, owner, Event, op, locVars, safepoint>>

\* lock() spins before it passes through ThreadBlockInVM to ILock.
Contend(t) ==
  /\ pc[t] = "contend"
  /\ \/ TryLock /\ Goto(t, "exeunt")
     \/ /\ LockByte /\ UNCHANGED LockByte
        /\ Goto(t, IF t \in JavaThreads THEN "enterTB" ELSE "ilock")
  /\ UNCHANGED <<entryVars, waitVars, ownVars, Event, op, locVars, safepoint>>

LockNoCheckCall(t) ==
  /\ "lockNoCheck" \in Calls[t]
  /\ pc[t] = "idle" /\ MayPassTransition(t)
  /\ op' = [op EXCEPT ![t] = "lockNoCheck"]
  /\ Goto(t, "ilock")
  /\ UNCHANGED <<LockByte, entryVars, waitVars, ownVars, Event, locVars, safepoint>>

\* try_lock() tests for the sneak before it tries the lock byte.
TryLockCall(t) ==
  /\ "tryLock" \in Calls[t]
  /\ pc[t] = "idle" /\ MayPassTransition(t)
  /\ \/ CanSneak(t) /\ Goto(t, "trySneak") /\ UNCHANGED LockByte
     \/ ~CanSneak(t) /\ TryLock /\ Goto(t, "exeunt")
  /\ op' = [op EXCEPT ![t] = "lock"]
  /\ UNCHANGED <<entryVars, waitVars, ownVars, Event, locVars, safepoint>>

TrySneak(t) ==
  /\ pc[t] = "trySneak"
  /\ owner' = t /\ snuck' = TRUE
  /\ Goto(t, "owned") /\ op' = [op EXCEPT ![t] = "none"]
  /\ UNCHANGED <<LockByte, entryVars, waitVars, Event, locVars, safepoint>>

EnterTB(t) ==
  /\ pc[t] = "enterTB" /\ MayPassTransition(t)
  /\ Goto(t, IF op[t] = "lock" THEN "ilock" ELSE "addWaiter")
  /\ UNCHANGED <<LockByte, entryVars, waitVars, ownVars, Event, op, locVars, safepoint>>

LeaveTB(t) ==
  /\ pc[t] = "leaveTB" /\ MayPassTransition(t)
  /\ Goto(t, "exeunt")
  /\ UNCHANGED <<LockByte, entryVars, waitVars, ownVars, Event, op, locVars, safepoint>>

SetOwner(t) ==
  /\ pc[t] = "exeunt"
  /\ owner' = t
  /\ Goto(t, "owned") /\ op' = [op EXCEPT ![t] = "none"]
  /\ UNCHANGED <<LockByte, entryVars, waitVars, snuck, Event, locVars, safepoint>>

\* The VM thread pretends to own the lock.  It then only unlocks: wait() and
\* notify() assert that the caller really holds the lock byte.
SnuckPast(t) == t = VMThread /\ snuck

\* Mutant: really releases a lock that was only snuck past.
UnlockSnuck(t) ==
  /\ pc[t] = "owned"
  /\ owner' = NULL /\ snuck' = FALSE
  /\ Goto(t, "release") /\ op' = [op EXCEPT ![t] = "unlock"]
  /\ UNCHANGED <<LockByte, entryVars, waitVars, Event, locVars, safepoint>>

\* unlock(): a lock that was snuck past is only pretended to be released.
UnlockCall(t) ==
  /\ pc[t] = "owned"
  /\ owner' = NULL
  /\ IF snuck
       THEN snuck' = FALSE /\ Goto(t, "idle") /\ UNCHANGED op
       ELSE /\ Goto(t, "release") /\ op' = [op EXCEPT ![t] = "unlock"]
            /\ UNCHANGED snuck
  /\ UNCHANGED <<LockByte, entryVars, waitVars, Event, locVars, safepoint>>

-----------------------------------------------------------------------------
(* ParkEvent::park, from the platform's PlatformEvent: a permit in _Event. *)

\* The CAS of park(): take the permit and return, or block at parkedPc.
Park(t, parkedPc, returnPc) ==
  /\ Event' = [Event EXCEPT ![t] = @ - 1]
  /\ Goto(t, IF Event[t] = 1 THEN returnPc ELSE parkedPc)

\* A blocked thread returns once unpark() has raised _Event.
WakeUp(t, returnPc) ==
  /\ Event[t] >= 0
  /\ Event' = [Event EXCEPT ![t] = 0]
  /\ Goto(t, returnPc)

-----------------------------------------------------------------------------
(* Monitor::ILock.                                                         *)

AfterILock(t) ==
  IF op[t] \in {"wait", "timedwait"} THEN "waitDone"
  ELSE IF t \in JavaThreads /\ op[t] # "lockNoCheck" THEN "leaveTB"
  ELSE "exeunt"

\* TryFast, TrySpin, then the reset of the park event.
ILockSpin(t) ==
  /\ pc[t] = "ilock"
  /\ \/ TryLock /\ Goto(t, AfterILock(t)) /\ UNCHANGED Event
     \/ /\ LockByte /\ UNCHANGED LockByte
        /\ Event' = [Event EXCEPT ![t] = 0] /\ Goto(t, "push")
  /\ UNCHANGED <<entryVars, waitVars, ownVars, op, locVars, safepoint>>

AcquireOrPush(t) ==
  /\ pc[t] = "push"
  /\ \/ TryLock /\ Goto(t, AfterILock(t)) /\ UNCHANGED cxq
     \/ /\ LockByte /\ UNCHANGED LockByte
        /\ cxq' = <<t>> \o cxq /\ Goto(t, "chkOnDeck")
  /\ UNCHANGED <<OnDeck, EntryList, waitVars, ownVars, Event, op, locVars, safepoint>>

\* Mutant: a queued thread that wakes up competes for the lock byte.
CheckOnDeckCompetes(t) ==
  /\ pc[t] = "chkOnDeck"
  /\ \/ TryLock /\ Goto(t, AfterILock(t))
     \/ LockByte /\ UNCHANGED LockByte /\ Goto(t, IF OnDeck = t THEN "onDeck" ELSE "parkList")
  /\ UNCHANGED <<entryVars, waitVars, ownVars, Event, op, locVars, safepoint>>

\* while (_OnDeck != ESelf) ParkCommon(ESelf, 0)
CheckOnDeck(t) ==
  /\ pc[t] = "chkOnDeck"
  /\ Goto(t, IF OnDeck = t THEN "onDeck" ELSE "parkList")
  /\ UNCHANGED <<LockByte, entryVars, waitVars, ownVars, Event, op, locVars, safepoint>>

ParkOnList(t) ==
  /\ \/ pc[t] = "parkList" /\ Park(t, "parkedList", "chkOnDeck")
     \/ pc[t] = "parkedList" /\ WakeUp(t, "chkOnDeck")
  /\ UNCHANGED <<LockByte, entryVars, waitVars, ownVars, op, locVars, safepoint>>

\* OnDeck_LOOP: only the OnDeck thread contends for the lock byte.
OnDeckSpin(t) ==
  /\ pc[t] = "onDeck"
  /\ \/ TryLock /\ Goto(t, "clearOnDeck")
     \/ LockByte /\ UNCHANGED LockByte /\ Goto(t, "parkOnDeck")
  /\ UNCHANGED <<entryVars, waitVars, ownVars, Event, op, locVars, safepoint>>

ParkOnDeck(t) ==
  /\ \/ pc[t] = "parkOnDeck" /\ Park(t, "parkedOnDeck", "onDeck")
     \/ pc[t] = "parkedOnDeck" /\ WakeUp(t, "onDeck")
  /\ UNCHANGED <<LockByte, entryVars, waitVars, ownVars, op, locVars, safepoint>>

ClearOnDeck(t) ==
  /\ pc[t] = "clearOnDeck"
  /\ OnDeck' = NULL /\ Goto(t, AfterILock(t))
  /\ UNCHANGED <<LockByte, cxq, EntryList, waitVars, ownVars, Event, op, locVars, safepoint>>

-----------------------------------------------------------------------------
(* Monitor::IUnlock.                                                       *)

IUnlockReturn(t) ==
  /\ Goto(t, CASE op[t] = "unlock" -> "idle"
               [] op[t] = "suspend" -> "suspended"
               [] OTHER -> "waitLoop")
  /\ op' = IF op[t] = "unlock" THEN [op EXCEPT ![t] = "none"] ELSE op

\* release_store of 0 to the lock byte; the cxq is untouched.
ReleaseOuter(t) ==
  /\ pc[t] = "release"
  /\ LockByte' = FALSE /\ Goto(t, "readOnDeck")
  /\ UNCHANGED <<entryVars, waitVars, ownVars, Event, op, locVars, safepoint>>

\* An OnDeck thread is unparked; a held inner lock leaves succession to its
\* holder; otherwise this thread looks for a successor.
ReadOnDeck(t) ==
  /\ pc[t] = "readOnDeck"
  /\ \/ /\ OnDeck \in Threads
        /\ wakee' = [wakee EXCEPT ![t] = OnDeck]
        /\ Goto(t, "unpark") /\ UNCHANGED op
     \/ OnDeck = LBIT /\ IUnlockReturn(t) /\ UNCHANGED wakee
     \/ OnDeck = NULL /\ Goto(t, "readCxq") /\ UNCHANGED <<op, wakee>>
  /\ UNCHANGED <<LockByte, entryVars, waitVars, ownVars, Event, seg, safepoint>>

\* The word is read first, then _EntryList; when the word shows the lock
\* taken again the return does not depend on _EntryList.
ReadCxq(t) ==
  /\ pc[t] = "readCxq"
  /\ \/ LockByte /\ IUnlockReturn(t)
     \/ ~LockByte /\ cxq = <<>> /\ Goto(t, "readEntry") /\ UNCHANGED op
     \/ ~LockByte /\ cxq # <<>> /\ Goto(t, "casOnDeck") /\ UNCHANGED op
  /\ UNCHANGED <<LockByte, entryVars, waitVars, ownVars, Event, locVars, safepoint>>

ReadEntry(t) ==
  /\ pc[t] = "readEntry"
  /\ \/ EntryList = <<>> /\ IUnlockReturn(t)
     \/ EntryList # <<>> /\ Goto(t, "casOnDeck") /\ UNCHANGED op
  /\ UNCHANGED <<LockByte, entryVars, waitVars, ownVars, Event, locVars, safepoint>>

\* Mutant: a plain store instead of the CAS.
CasOnDeckStores(t) ==
  /\ pc[t] = "casOnDeck"
  /\ OnDeck' = LBIT /\ Goto(t, "pickHead")
  /\ UNCHANGED <<LockByte, cxq, EntryList, waitVars, ownVars, Event, op, locVars, safepoint>>

\* Succession: CAS the inner lock, or leave succession to its holder.
CasOnDeck(t) ==
  /\ pc[t] = "casOnDeck"
  /\ \/ OnDeck = NULL /\ OnDeck' = LBIT /\ Goto(t, "pickHead") /\ UNCHANGED op
     \/ OnDeck # NULL /\ IUnlockReturn(t) /\ UNCHANGED OnDeck
  /\ UNCHANGED <<LockByte, cxq, EntryList, waitVars, ownVars, Event, locVars, safepoint>>

\* WakeOne: unlink the head of the EntryList.
PickHead(t) ==
  /\ pc[t] = "pickHead"
  /\ \/ /\ EntryList # <<>>
        /\ wakee' = [wakee EXCEPT ![t] = Head(EntryList)]
        /\ EntryList' = Tail(EntryList)
        /\ Goto(t, "setOnDeck")
     \/ EntryList = <<>> /\ Goto(t, "drain") /\ UNCHANGED <<wakee, EntryList>>
  /\ UNCHANGED <<LockByte, cxq, OnDeck, waitVars, ownVars, Event, op, seg, safepoint>>

\* Detach the whole cxq with CAS, unless the lock has a new owner or the
\* cxq is empty.
DrainCxq(t) ==
  /\ pc[t] = "drain"
  /\ \/ /\ ~LockByte /\ cxq # <<>>
        /\ seg' = [seg EXCEPT ![t] = cxq] /\ cxq' = <<>>
        /\ Goto(t, "install")
     \/ (LockByte \/ cxq = <<>>) /\ Goto(t, "punt") /\ UNCHANGED <<seg, cxq>>
  /\ UNCHANGED <<LockByte, OnDeck, EntryList, waitVars, ownVars, Event, op, wakee, safepoint>>

InstallEntryList(t) ==
  /\ pc[t] = "install"
  /\ EntryList' = seg[t] /\ seg' = [seg EXCEPT ![t] = <<>>]
  /\ Goto(t, "pickHead")
  /\ UNCHANGED <<LockByte, cxq, OnDeck, waitVars, ownVars, Event, op, wakee, safepoint>>

SetOnDeck(t) ==
  /\ pc[t] = "setOnDeck"
  /\ OnDeck' = wakee[t] /\ Goto(t, "recheck")
  /\ UNCHANGED <<LockByte, cxq, EntryList, waitVars, ownVars, Event, op, locVars, safepoint>>

\* A new owner takes over the duty to unpark the OnDeck thread.
Recheck(t) ==
  /\ pc[t] = "recheck"
  /\ \/ /\ LockByte /\ IUnlockReturn(t)
        /\ wakee' = [wakee EXCEPT ![t] = NULL]
     \/ ~LockByte /\ Goto(t, "unpark") /\ UNCHANGED <<op, wakee>>
  /\ UNCHANGED <<LockByte, entryVars, waitVars, ownVars, Event, seg, safepoint>>

\* Mutant: a counting semaphore instead of a permit.
UnparkCounts(t) ==
  /\ pc[t] = "unpark"
  /\ Event' = [Event EXCEPT ![wakee[t]] = @ + 1]
  /\ wakee' = [wakee EXCEPT ![t] = NULL]
  /\ IUnlockReturn(t)
  /\ UNCHANGED <<LockByte, entryVars, waitVars, ownVars, seg, safepoint>>

Unpark(t) ==
  /\ pc[t] = "unpark"
  /\ Event' = [Event EXCEPT ![wakee[t]] = 1]
  /\ wakee' = [wakee EXCEPT ![t] = NULL]
  /\ IUnlockReturn(t)
  /\ UNCHANGED <<LockByte, entryVars, waitVars, ownVars, seg, safepoint>>

\* Mutant: returns without looking at the cxq again.
PuntReturns(t) ==
  /\ pc[t] = "punt"
  /\ OnDeck' = NULL /\ IUnlockReturn(t)
  /\ UNCHANGED <<LockByte, cxq, EntryList, waitVars, ownVars, Event, locVars, safepoint>>

Punt(t) ==
  /\ pc[t] = "punt"
  /\ OnDeck' = NULL /\ Goto(t, "resample")
  /\ UNCHANGED <<LockByte, cxq, EntryList, waitVars, ownVars, Event, op, locVars, safepoint>>

\* A thread may have pushed itself while this one held the inner lock.
Resample(t) ==
  /\ pc[t] = "resample"
  /\ \/ cxq # <<>> /\ ~LockByte /\ Goto(t, "casOnDeck") /\ UNCHANGED op
     \/ (cxq = <<>> \/ LockByte) /\ IUnlockReturn(t)
  /\ UNCHANGED <<LockByte, entryVars, waitVars, ownVars, Event, locVars, safepoint>>

-----------------------------------------------------------------------------
(* Monitor::notify and notify_all: from the WaitSet to the cxq.            *)

NotifyCall(t) ==
  /\ pc[t] = "owned" /\ ~SnuckPast(t)
  /\ \E o \in Calls[t] \cap {"notify", "notifyAll"} : op' = [op EXCEPT ![t] = o]
  /\ Goto(t, "notify")
  /\ UNCHANGED <<LockByte, entryVars, waitVars, ownVars, Event, locVars, safepoint>>

\* The test of _WaitSet outside the WaitLock, which ends both operations.
NotifyTest(t) ==
  /\ pc[t] = "notify"
  /\ \/ WaitSet = <<>> /\ Goto(t, "owned") /\ op' = [op EXCEPT ![t] = "none"]
     \/ WaitSet # <<>> /\ Goto(t, "transfer") /\ UNCHANGED op
  /\ UNCHANGED <<LockByte, entryVars, waitVars, ownVars, Event, locVars, safepoint>>

NotifyReturn(t) ==
  IF op[t] = "notifyAll" THEN Goto(t, "notify") /\ UNCHANGED op
  ELSE Goto(t, "owned") /\ op' = [op EXCEPT ![t] = "none"]

\* Under the WaitLock: unlink the head and push it on the cxq, with a CAS
\* that writes the lock byte as held.
Transfer(t) ==
  /\ pc[t] = "transfer" /\ WaitLock = NULL
  /\ \/ /\ WaitSet # <<>>
        /\ WaitLock' = t
        /\ wakee' = [wakee EXCEPT ![t] = Head(WaitSet)]
        /\ WaitSet' = Tail(WaitSet)
        /\ cxq' = <<Head(WaitSet)>> \o cxq /\ LockByte' = TRUE
        /\ Goto(t, "notified") /\ UNCHANGED op
     \/ /\ WaitSet = <<>> /\ NotifyReturn(t)
        /\ UNCHANGED <<WaitLock, wakee, WaitSet, cxq, LockByte>>
  /\ UNCHANGED <<OnDeck, EntryList, Notified, ownVars, Event, seg, safepoint>>

\* nfy->Notified = 1, then the WaitLock is released.
SetNotified(t) ==
  /\ pc[t] = "notified"
  /\ Notified' = [Notified EXCEPT ![wakee[t]] = TRUE]
  /\ WaitLock' = NULL
  /\ wakee' = [wakee EXCEPT ![t] = NULL]
  /\ NotifyReturn(t)
  /\ UNCHANGED <<LockByte, entryVars, WaitSet, ownVars, Event, seg, safepoint>>

-----------------------------------------------------------------------------
(* Monitor::wait and IWait.                                                *)

\* wait() clears _owner while the lock byte is still held.
WaitCall(t) ==
  /\ pc[t] = "owned" /\ ~SnuckPast(t)
  /\ \E o \in Calls[t] \cap {"wait", "timedwait"} : op' = [op EXCEPT ![t] = o]
  /\ owner' = NULL
  /\ Goto(t, IF t \in JavaThreads THEN "enterTB" ELSE "addWaiter")
  /\ UNCHANGED <<LockByte, entryVars, waitVars, snuck, Event, locVars, safepoint>>

\* Mutant: Notified is not reset.
AddWaiterStale(t) ==
  /\ pc[t] = "addWaiter" /\ WaitLock = NULL
  /\ Event' = [Event EXCEPT ![t] = 0]
  /\ WaitSet' = <<t>> \o WaitSet
  /\ Goto(t, "release")
  /\ UNCHANGED <<LockByte, entryVars, WaitLock, Notified, ownVars, op, locVars, safepoint>>

AddWaiter(t) ==
  /\ pc[t] = "addWaiter" /\ WaitLock = NULL
  /\ Notified' = [Notified EXCEPT ![t] = FALSE]
  /\ Event' = [Event EXCEPT ![t] = 0]
  /\ WaitSet' = <<t>> \o WaitSet
  /\ Goto(t, "release")
  /\ UNCHANGED <<LockByte, entryVars, WaitLock, ownVars, op, locVars, safepoint>>

WaitLoop(t) ==
  /\ pc[t] = "waitLoop"
  /\ Goto(t, IF Notified[t] THEN "waitOut" ELSE "waitPark")
  /\ UNCHANGED <<LockByte, entryVars, waitVars, ownVars, Event, op, locVars, safepoint>>

\* Mutant: every return from park() ends the wait.
WaitParkOnce(t) ==
  /\ \/ pc[t] = "waitPark" /\ Park(t, "waitParked", "waitOut")
     \/ pc[t] = "waitParked" /\ WakeUp(t, "waitOut")
  /\ UNCHANGED <<LockByte, entryVars, waitVars, ownVars, op, locVars, safepoint>>

WaitPark(t) ==
  /\ \/ pc[t] = "waitPark" /\ Park(t, "waitParked", "waitLoop")
     \/ pc[t] = "waitParked" /\ WakeUp(t, "waitLoop")
  /\ UNCHANGED <<LockByte, entryVars, waitVars, ownVars, op, locVars, safepoint>>

\* The timed park gives up.  It stores 0 in _Event after its last look at
\* it, so it can also swallow an unpark that came in between.
WaitTimeout(t) ==
  /\ pc[t] = "waitParked" /\ op[t] = "timedwait"
  /\ Event' = [Event EXCEPT ![t] = 0]
  /\ Goto(t, "waitOut")
  /\ UNCHANGED <<LockByte, entryVars, waitVars, ownVars, op, locVars, safepoint>>

WaitOut(t) ==
  /\ pc[t] = "waitOut"
  /\ Goto(t, IF Notified[t] THEN "chkOnDeck" ELSE "removeSelf")
  /\ UNCHANGED <<LockByte, entryVars, waitVars, ownVars, Event, op, locVars, safepoint>>

\* Mutant: Notified is not tested again under the WaitLock.
RemoveSelfUnchecked(t) ==
  /\ pc[t] = "removeSelf" /\ WaitLock = NULL
  /\ WaitSet' = SelectSeq(WaitSet, LAMBDA u : u # t)
  /\ Goto(t, "ilock")
  /\ UNCHANGED <<LockByte, entryVars, WaitLock, Notified, ownVars, Event, op, locVars, safepoint>>

\* Under the WaitLock, Notified is tested again: a thread that timed out
\* unlinks itself and locks anew, one that was notified is on a queue.
RemoveSelf(t) ==
  /\ pc[t] = "removeSelf" /\ WaitLock = NULL
  /\ \/ /\ ~Notified[t]
        /\ \E i \in DOMAIN WaitSet : WaitSet[i] = t /\ WaitSet' = Omit(WaitSet, i)
        /\ Goto(t, "ilock")
     \/ Notified[t] /\ Goto(t, "chkOnDeck") /\ UNCHANGED WaitSet
  /\ UNCHANGED <<LockByte, entryVars, WaitLock, Notified, ownVars, Event, op, locVars, safepoint>>

\* A Java thread suspended while it waited as_suspend_equivalent drops the
\* lock again before it suspends itself.
WaitDone(t) ==
  /\ pc[t] = "waitDone"
  /\ \/ /\ Goto(t, IF t \in JavaThreads THEN "leaveTB" ELSE "exeunt")
        /\ UNCHANGED op
     \/ /\ t \in JavaThreads
        /\ op' = [op EXCEPT ![t] = "suspend"] /\ Goto(t, "release")
  /\ UNCHANGED <<LockByte, entryVars, waitVars, ownVars, Event, locVars, safepoint>>

Resume(t) ==
  /\ pc[t] = "suspended" /\ Goto(t, "ilock")
  /\ UNCHANGED <<LockByte, entryVars, waitVars, ownVars, Event, op, locVars, safepoint>>

-----------------------------------------------------------------------------
(* The safepoint, as far as this monitor sees it.                          *)

BeginSafepoint ==
  /\ VMThread \in Threads /\ pc[VMThread] = "idle"
  /\ ~safepoint /\ \A t \in JavaThreads : SafepointSafe(t)
  /\ safepoint' = TRUE
  /\ UNCHANGED <<LockByte, entryVars, waitVars, ownVars, Event, pc, op, locVars>>

EndSafepoint ==
  /\ safepoint /\ pc[VMThread] = "idle"
  /\ safepoint' = FALSE
  /\ UNCHANGED <<LockByte, entryVars, waitVars, ownVars, Event, pc, op, locVars>>

\* What a client asks of the monitor.
Call(t) ==
  \/ LockCall(t) \/ LockNoCheckCall(t) \/ TryLockCall(t)
  \/ NotifyCall(t) \/ WaitCall(t)

LockStep(t) ==
  \/ SneakTest(t) \/ TrySneak(t) \/ Contend(t) \/ EnterTB(t) \/ LeaveTB(t)
  \/ SetOwner(t) \/ UnlockCall(t)

ILockStep(t) ==
  \/ ILockSpin(t) \/ AcquireOrPush(t) \/ CheckOnDeck(t) \/ ParkOnList(t)
  \/ OnDeckSpin(t) \/ ParkOnDeck(t) \/ ClearOnDeck(t)

IUnlockStep(t) ==
  \/ ReleaseOuter(t) \/ ReadOnDeck(t) \/ ReadCxq(t) \/ ReadEntry(t)
  \/ CasOnDeck(t) \/ PickHead(t) \/ DrainCxq(t) \/ InstallEntryList(t)
  \/ SetOnDeck(t) \/ Recheck(t) \/ Unpark(t) \/ Punt(t) \/ Resample(t)

NotifyStep(t) == NotifyTest(t) \/ Transfer(t) \/ SetNotified(t)

IWaitStep(t) ==
  \/ AddWaiter(t) \/ WaitLoop(t) \/ WaitPark(t) \/ WaitTimeout(t)
  \/ WaitOut(t) \/ RemoveSelf(t) \/ WaitDone(t) \/ Resume(t)

\* What the code then does by itself; unlock() is among it, since every
\* client gives the lock back.
Step(t) == LockStep(t) \/ ILockStep(t) \/ IUnlockStep(t) \/ NotifyStep(t) \/ IWaitStep(t)

Next == (\E t \in Threads : Call(t) \/ Step(t)) \/ BeginSafepoint \/ EndSafepoint

Spec == Init /\ [][Next]_vars

-----------------------------------------------------------------------------
(* Correctness.                                                            *)

\* The thread is inside the outer lock: it made the lock byte TRUE and has
\* not cleared it yet.
Holds(t) ==
  /\ \/ pc[t] \in {"clearOnDeck", "leaveTB", "exeunt", "owned", "notify", "transfer",
                  "notified", "addWaiter", "release", "waitDone"}
     \/ pc[t] = "enterTB" /\ op[t] \in WaitOps
  /\ ~SnuckPast(t)

Inner(t) == pc[t] \in {"pickHead", "drain", "install", "setOnDeck", "punt"}

\* At most one thread is inside the outer lock, and the lock byte is set
\* exactly when there is one (ILock, AcquireOrPush, IUnlock).
LockByteExclusion ==
  /\ LockByte <=> \E t \in Threads : Holds(t)
  /\ \A t, u \in Threads : Holds(t) /\ Holds(u) => t = u

\* OnDeck holds LBIT exactly while one thread is inside the inner lock, and
\* that thread finds _EntryList empty when it installs a drained segment
\* there (the asserts of IUnlock).
InnerLockExclusion ==
  /\ OnDeck = LBIT <=> \E t \in Threads : Inner(t)
  /\ \A t, u \in Threads : Inner(t) /\ Inner(u) => t = u
  /\ \A t \in Threads : pc[t] = "install" => EntryList = <<>>

\* The thread that holds the inner lock has unlinked u and not yet made it
\* the OnDeck thread.
InTransit(u) == \E t \in Threads : pc[t] = "setOnDeck" /\ wakee[t] = u

\* "A thread appears on at most one list -- cxq, EntryList or WaitSet -- at
\* any one time" (and once only, and not while it is OnDeck or on its way
\* there), whatever the order of timeouts, notifies and drains.
AtMostOneList ==
  /\ Injective(cxq) /\ Injective(EntryList) /\ Injective(WaitSet)
  /\ In(cxq) \cap In(EntryList) = {}
  /\ In(cxq) \cap In(WaitSet) = {}
  /\ In(EntryList) \cap In(WaitSet) = {}
  /\ \A t \in Threads :
       /\ Injective(seg[t])
       /\ In(seg[t]) \cap (In(cxq) \cup In(EntryList) \cup In(WaitSet)) = {}
  /\ \A u \in Threads :
       OnDeck = u \/ InTransit(u) =>
         /\ u \notin In(cxq) \cup In(EntryList) \cup In(WaitSet)
         /\ \A t \in Threads : u \notin In(seg[t])

\* Resident on the entry queue, between the push and OnDeck.
Queued(u) ==
  \/ u \in In(cxq) \cup In(EntryList)
  \/ \E t \in Threads : u \in In(seg[t])
  \/ InTransit(u)

\* Locations of a thread that waits to be made OnDeck.
BlockedOnList(t) ==
  \/ pc[t] \in {"chkOnDeck", "parkList", "parkedList"}
  \/ /\ op[t] \in {"wait", "timedwait"}
     /\ pc[t] \in (IUnlockPcs \ {"release"}) \cup
                   {"waitLoop", "waitPark", "waitParked", "waitOut", "removeSelf"}

\* "Threads on the EntryList or cxq are not allowed to attempt lock
\* acquisition": a queued thread waits to be made OnDeck, and conversely a
\* thread that waits for that in ILock is queued or is OnDeck.
QueueDiscipline ==
  /\ \A t \in Threads : Queued(t) => BlockedOnList(t)
  /\ \A t \in Threads :
       pc[t] \in {"chkOnDeck", "parkList", "parkedList"} => Queued(t) \/ OnDeck = t
  /\ \A t \in Threads :
       pc[t] \in {"onDeck", "parkOnDeck", "parkedOnDeck", "clearOnDeck"} => OnDeck = t

\* Notified tells a thread in IWait truthfully whether notify() moved it to
\* a queue: with the WaitLock free it is on the WaitSet iff not Notified, so
\* the timeout path unlinks it from the list it really is on.
NotifiedIffTransferred ==
  \A t \in Threads :
    pc[t] \in {"waitLoop", "waitPark", "waitParked", "waitOut", "removeSelf"}
      => (t \in In(WaitSet) <=> ~Notified[t] /\ ~(\E u \in Threads :
                                     pc[u] = "notified" /\ wakee[u] = t))

\* The OnDeck thread is awake, or a permit is there or about to come.
WillRun(t) ==
  \/ pc[t] \notin {"parkedList", "parkedOnDeck", "waitParked", "parkList",
                   "parkOnDeck", "waitPark"}
  \/ Event[t] = 1
  \/ \E u \in Threads : pc[u] = "unpark" /\ wakee[u] = t

\* No thread is stranded: while a thread is queued or OnDeck, the lock is
\* held, or some thread is still inside IUnlock and sees to succession, or
\* the OnDeck thread runs or will be woken.
Succession ==
  (\E t \in Threads : Queued(t) \/ OnDeck = t) =>
    \/ LockByte
    \/ \E t \in Threads : pc[t] \in IUnlockPcs \ {"unpark"}
    \/ OnDeck \in Threads /\ WillRun(OnDeck)

CriticalPcs == {"owned", "notify", "transfer", "notified"}

\* _owner names the one thread inside the critical section, and is NULL when
\* a thread is about to record itself (the asserts of lock(), wait() and
\* try_lock()), also when the VM thread sneaks past a lock that a stopped
\* Java thread has taken.
OwnerExclusion ==
  /\ \A t \in Threads : pc[t] \in CriticalPcs => owner = t
  /\ \A t \in Threads : pc[t] = "exeunt" => owner = NULL

\* "Once a thread has been designated the OnDeck thread it will remain so
\* until it manages to acquire the lock."
OnDeckStable ==
  [][\A t \in Threads :
       OnDeck = t /\ OnDeck' # t => Holds(t) /\ OnDeck' = NULL]_vars

\* Only the holder of the inner lock changes _EntryList or takes threads off
\* the cxq; all others only push at its head.
InnerLockProtects ==
  [][/\ EntryList' # EntryList => OnDeck = LBIT /\ OnDeck' = LBIT
     /\ cxq' # cxq => \/ Len(cxq') = Len(cxq) + 1 /\ Tail(cxq') = cxq /\ LockByte
                      \/ cxq' = <<>> /\ OnDeck = LBIT]_vars

-----------------------------------------------------------------------------
(* The monitor implements the abstract one.                                *)

holderBar == IF \E t \in Threads : Holds(t) THEN CHOOSE t \in Threads : Holds(t) ELSE NULL

waitingBar == {t \in In(WaitSet) : ~Holds(t)}

\* Threads in IWait that are off the WaitSet and do not have the lock yet.
returningBar ==
  {t \in Threads : /\ op[t] \in {"wait", "timedwait"}
                   /\ pc[t] # "enterTB" /\ ~Holds(t) /\ t \notin In(WaitSet)}

Abstract == INSTANCE MonitorSpec WITH
              holder <- holderBar, waiting <- waitingBar, returning <- returningBar

\* Through pushes, drains, OnDeck handovers and late unparks, this monitor
\* only ever takes the steps of the abstract one; in particular wait()
\* releases and starts waiting atomically as far as any notify() can tell.
ImplementsMonitor == Abstract!TimedSpec

\* The same for clients that never wait with a timeout: a waiter stays until
\* the thread inside notifies it.
ImplementsUntimedMonitor == Abstract!Spec

=============================================================================
