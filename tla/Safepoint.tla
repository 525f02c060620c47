------------------------------ MODULE Safepoint ------------------------------
(***************************************************************************)
(* Safepoints: SafepointSynchronize::begin and end (runtime/safepoint.cpp) *)
(* run by the VM thread, against the thread state transitions of           *)
(* runtime/interfaceSupport.hpp and the external suspension of             *)
(* runtime/thread.cpp run by the Java threads.                             *)
(*                                                                         *)
(* A thread's state store goes through its store buffer: the VM thread     *)
(* examines vis, which lags behind what the thread has stored.  A fence, a *)
(* locked instruction or the mprotect of serialize_thread_states drains    *)
(* it.  Threads_lock and Safepoint_lock are taken by a Java thread for one *)
(* step only, so who holds them is a function of the VM thread's location. *)
(***************************************************************************)
EXTENDS Integers, Sequences, FiniteSets

CONSTANTS Threads,        \* the Java threads
          UseMembar,      \* the flag: a fence after each transition store
          MaxStores,      \* capacity of a store buffer
          MaxSafepoints,  \* bound on the number of safepoints
          Suspendable,    \* threads a debugger may suspend
          Critical,       \* threads that enter JNI critical regions
          MaxRegions,     \* bound on the nesting of those regions
          NoThread        \* NULL

ASSUME SafepointAssumption ==
  /\ IsFiniteSet(Threads)
  /\ UseMembar \in BOOLEAN
  /\ MaxStores \in Nat \ {0}
  /\ MaxSafepoints \in Nat
  /\ MaxRegions \in Nat
  /\ NoThread \notin Threads

VARIABLES
  syncState,     \* _state
  waiting,       \* _waiting_to_block
  jniActive,     \* _current_jni_active_count
  jniLockCount,  \* GC_locker::_jni_lock_count, as the last safepoint set it
  counter,       \* _safepoint_counter
  armed,         \* PageArmed
  vpc,           \* where the VM thread is
  seen,          \* locals of examine_state_of_thread: the thread and its state
  notified,      \* the VM thread's wait on Safepoint_lock has been notified
  threads,       \* the Threads list
  type,          \* thread -> ThreadSafepointState::_type
  calledBack,    \* thread -> _has_called_back
  vis,           \* thread -> _thread_state as other processors see it
  buf,           \* thread -> its stores of _thread_state that are not visible
  pc,            \* thread -> where it is
  dest,          \* thread -> local `to` of the transition it is in
  orig,          \* thread -> local `state` of block()
  external,      \* thread -> is_external_suspend()
  suspended,     \* thread -> is_ext_suspended()
  crit,          \* thread -> _jni_active_critical
  lazy,          \* thread -> it runs a lazy critical native
  unlockFlag     \* thread -> do_critical_native_unlock()

vmVars    == <<syncState, waiting, jniActive, jniLockCount, counter, armed, vpc, seen, notified>>
stopVars  == <<type, calledBack>>
storeVars == <<vis, buf>>
locVars   == <<dest, orig>>
suspVars  == <<external, suspended>>
critVars  == <<crit, lazy, unlockFlag>>
vars      == <<vmVars, threads, stopVars, storeVars, pc, locVars, suspVars, critVars>>

-----------------------------------------------------------------------------
(* Thread states, the store buffer and the two locks.                      *)

Stable == {"new", "native", "vm", "Java", "blocked"}
Trans(s) == CASE s = "new" -> "new_trans"
              [] s = "vm" -> "vm_trans"
              [] s = "blocked" -> "blocked_trans"
States == Stable \cup {"new_trans", "native_trans", "vm_trans", "blocked_trans"}

\* The thread's own view of its state: the last value it stored.
own(t) == IF buf[t] = << >> THEN vis[t] ELSE buf[t][Len(buf[t])]

\* set_thread_state; a store waits for a free slot of the buffer.
Store(t, s) ==
  /\ Len(buf[t]) < MaxStores
  /\ buf' = [buf EXCEPT ![t] = Append(@, s)]
  /\ vis' = vis

\* A store that a fence or a locked instruction makes visible at once.
StoreFence(t, s) ==
  /\ vis' = [vis EXCEPT ![t] = s]
  /\ buf' = [buf EXCEPT ![t] = << >>]

\* The store of a transition state, then fence or write_memory_serialize_page.
StoreTrans(t, s) == IF UseMembar THEN StoreFence(t, s) ELSE Store(t, s)

\* A locked instruction that stores something else.
Fence(t) == StoreFence(t, own(t))

\* The oldest store of a buffer reaches memory.
Drain(t) ==
  /\ buf[t] # << >>
  /\ vis' = [vis EXCEPT ![t] = Head(buf[t])]
  /\ buf' = [buf EXCEPT ![t] = Tail(@)]
  /\ UNCHANGED <<vmVars, threads, stopVars, pc, locVars, suspVars, critVars>>

\* Mutant: only a safepoint that is reached makes a thread block.
CallBackLate == syncState = "synchronized"

do_call_back == syncState # "not_synchronized"

ThreadsLockFree   == vpc = "idle"
SafepointLockFree == vpc \in {"idle", "locked", "waiting", "stopped", "disarmed"}

Goto(t, l) == pc' = [pc EXCEPT ![t] = l]

-----------------------------------------------------------------------------
(* Thread state transitions.                                               *)

\* Threads::add, under Threads_lock.
Start(t) ==
  /\ pc[t] = "none"
  /\ ThreadsLockFree
  /\ threads' = threads \cup {t}
  /\ Goto(t, "run")
  /\ UNCHANGED <<vmVars, stopVars, storeVars, locVars, suspVars, critVars>>

\* Mutant: Threads_lock is not taken.
ExitUnlocked(t) ==
  /\ pc[t] = "run" /\ own(t) = "vm"
  /\ t \in threads
  /\ ~external[t] /\ crit[t] = 0
  /\ threads' = threads \ {t}
  /\ Fence(t)
  /\ UNCHANGED <<vmVars, stopVars, pc, locVars, suspVars, critVars>>

\* Threads::remove, under Threads_lock.  A thread that is exiting is not
\* suspended; afterwards it may still take locks.
Exit(t) ==
  /\ pc[t] = "run" /\ own(t) = "vm"
  /\ t \in threads
  /\ ~external[t] /\ crit[t] = 0
  /\ ThreadsLockFree
  /\ threads' = threads \ {t}
  /\ Fence(t)
  /\ UNCHANGED <<vmVars, stopVars, pc, locVars, suspVars, critVars>>

\* transition_from_java(_thread_in_vm).
EnterVM(t) ==
  /\ pc[t] = "run" /\ own(t) = "Java"
  /\ Store(t, "vm")
  /\ UNCHANGED <<vmVars, threads, stopVars, pc, locVars, suspVars, critVars>>

\* The native wrapper: Java code calls a native, perhaps a lazy critical one.
JavaToNative(t, isLazy) ==
  /\ pc[t] = "run" /\ own(t) = "Java"
  /\ isLazy => t \in Critical
  /\ Store(t, "native")
  /\ lazy' = [lazy EXCEPT ![t] = isLazy]
  /\ UNCHANGED <<vmVars, threads, stopVars, pc, locVars, suspVars, crit, unlockFlag>>

\* Regions a thread entered with GetPrimitiveArrayCritical and has not left.
JniRegions(t) == crit[t] - (IF unlockFlag[t] THEN 1 ELSE 0)

Targets(s) == CASE s = "new" -> {"vm"}
                [] s = "vm" -> {"Java", "native", "blocked"}
                [] s = "blocked" -> {"vm"}
                [] OTHER -> {}

\* transition and transition_and_fence up to the poll of _state.
Leave(t, to) ==
  /\ pc[t] = "run"
  /\ to \in Targets(own(t))
  /\ to = "Java" => JniRegions(t) = 0
  /\ t \notin threads => to \in {"blocked", "vm"}
  /\ StoreTrans(t, Trans(own(t)))
  /\ dest' = [dest EXCEPT ![t] = to]
  /\ Goto(t, "check")
  /\ UNCHANGED <<vmVars, threads, stopVars, orig, suspVars, critVars>>

\* The last store of a transition.
Finish(t) ==
  /\ Store(t, dest[t])
  /\ \/ /\ own(t) = "vm_trans" /\ dest[t] \in {"Java", "native"}
        /\ Goto(t, "special")
     \/ /\ ~(own(t) = "vm_trans" /\ dest[t] = "Java")
        /\ ~(own(t) = "native_trans" /\ lazy[t])
        /\ Goto(t, "run")
     \/ /\ own(t) = "native_trans" /\ lazy[t]
        /\ Goto(t, "lazyExit")

\* if (do_call_back()) block(thread); set_thread_state(to)
Check(t) ==
  /\ pc[t] = "check"
  /\ \/ /\ do_call_back
        /\ Goto(t, "block")
        /\ UNCHANGED storeVars
     \/ ~do_call_back /\ Finish(t)
  /\ UNCHANGED <<vmVars, threads, stopVars, locVars, suspVars, critVars>>

\* set_thread_state(to) after block() or the slow path.
SetTo(t) ==
  /\ pc[t] = "setTo"
  /\ Finish(t)
  /\ UNCHANGED <<vmVars, threads, stopVars, locVars, suspVars, critVars>>

\* transition_from_native, and the return path of the native wrapper.
FromNative(t, to) ==
  /\ pc[t] = "run" /\ own(t) = "native"
  /\ to = "Java" => JniRegions(t) = 0
  /\ lazy[t] => to = "Java"
  /\ StoreTrans(t, "native_trans")
  /\ dest' = [dest EXCEPT ![t] = to]
  /\ Goto(t, "checkNative")
  /\ UNCHANGED <<vmVars, threads, stopVars, orig, suspVars, critVars>>

CheckNative(t) ==
  /\ pc[t] = "checkNative"
  /\ Goto(t, IF do_call_back THEN "suspTest" ELSE "checkFlags")
  /\ UNCHANGED <<vmVars, threads, stopVars, storeVars, locVars, suspVars, critVars>>

\* The wrapper tests all suspend flags, transition_from_native the request.
\* On the fast path of the wrapper a lazy critical native just returns.
CheckFlags(t) ==
  /\ pc[t] = "checkFlags"
  /\ LET slow == external[t] \/ (dest[t] = "Java" /\ unlockFlag[t]) IN
     \/ /\ slow
        /\ Goto(t, "suspTest")
        /\ UNCHANGED <<storeVars, lazy>>
     \/ /\ ~slow
        /\ Store(t, dest[t])
        /\ lazy' = [lazy EXCEPT ![t] = FALSE]
        /\ Goto(t, "run")
  /\ UNCHANGED <<vmVars, threads, stopVars, locVars, suspVars, crit, unlockFlag>>

-----------------------------------------------------------------------------
(* External suspension.                                                    *)

\* check_safepoint_and_suspend_for_native_trans up to java_suspend_self.
SuspendTest(t) ==
  /\ pc[t] = "suspTest"
  /\ \/ /\ external[t]
        /\ Store(t, "blocked")
        /\ Goto(t, "suspend")
     \/ /\ ~external[t]
        /\ Goto(t, "check2")
        /\ UNCHANGED storeVars
  /\ UNCHANGED <<vmVars, threads, stopVars, locVars, suspVars, critVars>>

\* Where java_suspend_self returns to.
AfterSuspend(s) == CASE s = "blocked" -> "restore"
                     [] s \in {"native_trans", "new_trans"} -> "setTo"
                     [] OTHER -> "run"

\* java_suspend_self, under SR_lock, up to its wait.
SuspendSelf(t) ==
  /\ pc[t] = "suspend"
  /\ Fence(t)
  /\ suspended' = [suspended EXCEPT ![t] = external[t]]
  /\ Goto(t, IF external[t] THEN "suspended" ELSE AfterSuspend(own(t)))
  /\ UNCHANGED <<vmVars, threads, stopVars, locVars, external, critVars>>

\* Its wait returns when java_resume cleared the flag; a new request suspends again.
SuspendReturn(t) ==
  /\ pc[t] = "suspended"
  /\ ~suspended[t]
  /\ suspended' = [suspended EXCEPT ![t] = external[t]]
  /\ Goto(t, IF external[t] THEN "suspended" ELSE AfterSuspend(own(t)))
  /\ UNCHANGED <<vmVars, threads, stopVars, storeVars, locVars, external, critVars>>

\* Mutant: _state is not polled again after the suspension.
RestoreNoPoll(t) ==
  /\ pc[t] = "restore"
  /\ StoreTrans(t, "native_trans")
  /\ Goto(t, "setTo")
  /\ UNCHANGED <<vmVars, threads, stopVars, locVars, suspVars, critVars>>

\* Back in native_trans after the suspension, with a fence or page write.
RestoreState(t) ==
  /\ pc[t] = "restore"
  /\ StoreTrans(t, "native_trans")
  /\ Goto(t, "check2")
  /\ UNCHANGED <<vmVars, threads, stopVars, locVars, suspVars, critVars>>

\* The second poll of check_safepoint_and_suspend_for_native_trans.
CheckAgain(t) ==
  /\ pc[t] = "check2"
  /\ Goto(t, IF do_call_back THEN "block" ELSE "setTo")
  /\ UNCHANGED <<vmVars, threads, stopVars, storeVars, locVars, suspVars, critVars>>

\* has_special_runtime_exit_condition, handle_special_runtime_exit_condition.
SpecialExit(t) ==
  /\ pc[t] = "special"
  /\ Goto(t, IF external[t] THEN "suspend" ELSE AfterSuspend(own(t)))
  /\ UNCHANGED <<vmVars, threads, stopVars, storeVars, locVars, suspVars, critVars>>

\* A thread in the VM asks for the suspension of t.
RequestSuspend(u, t) ==
  /\ pc[u] = "run" /\ own(u) = "vm" /\ u \in threads
  /\ t \in threads \cap Suspendable
  /\ external' = [external EXCEPT ![t] = TRUE]
  /\ UNCHANGED <<vmVars, threads, stopVars, storeVars, pc, locVars, suspended, critVars>>

\* Mutant: Threads_lock is not taken.
ResumeUnlocked(u, t) ==
  /\ pc[u] = "run" /\ own(u) = "vm" /\ u \in threads
  /\ t \in threads /\ external[t]
  /\ external' = [external EXCEPT ![t] = FALSE]
  /\ suspended' = [suspended EXCEPT ![t] = FALSE]
  /\ Fence(u)
  /\ UNCHANGED <<vmVars, threads, stopVars, pc, locVars, critVars>>

\* java_resume, by a thread in the VM that holds Threads_lock.
Resume(u, t) ==
  /\ pc[u] = "run" /\ own(u) = "vm" /\ u \in threads
  /\ ThreadsLockFree
  /\ t \in threads /\ external[t]
  /\ external' = [external EXCEPT ![t] = FALSE]
  /\ suspended' = [suspended EXCEPT ![t] = FALSE]
  /\ Fence(u)
  /\ UNCHANGED <<vmVars, threads, stopVars, pc, locVars, critVars>>

-----------------------------------------------------------------------------
(* SafepointSynchronize::block and the polling page.                       *)

\* Compiled code reads the polling page and traps.
Poll(t) ==
  /\ pc[t] = "run" /\ own(t) = "Java"
  /\ armed
  /\ Goto(t, "block")
  /\ UNCHANGED <<vmVars, threads, stopVars, storeVars, locVars, suspVars, critVars>>

\* Where block() returns to: the poll, or the transition that called it.
\* A thread that was in the VM or blocked does not suspend itself there.
AfterBlock(s) == IF s \in {"Java", "native_trans", "new_trans"} THEN "special" ELSE "setTo"

Block(t) ==
  /\ pc[t] = "block"
  /\ orig' = [orig EXCEPT ![t] = own(t)]
  /\ \/ /\ t \notin threads
        /\ Goto(t, AfterBlock(own(t)))
        /\ UNCHANGED storeVars
     \/ /\ t \in threads
        /\ own(t) \in {"vm_trans", "Java"}
        /\ Store(t, "vm")
        /\ Goto(t, "blockLock")
     \/ /\ t \in threads
        /\ own(t) \in {"native_trans", "blocked_trans", "new_trans"}
        /\ Store(t, "blocked")
        /\ Goto(t, "blockThreads")
  /\ UNCHANGED <<vmVars, threads, stopVars, dest, suspVars, critVars>>

\* Mutant: the thread's critical region is not counted.
BlockUncounted(t) ==
  /\ pc[t] = "blockLock"
  /\ SafepointLockFree
  /\ IF syncState = "synchronizing"
     THEN /\ waiting' = waiting - 1
          /\ calledBack' = [calledBack EXCEPT ![t] = TRUE]
          /\ jniActive' = jniActive + 0
          /\ notified' = (notified \/ waiting' = 0)
     ELSE UNCHANGED <<waiting, calledBack, jniActive, notified>>
  /\ StoreFence(t, "blocked")
  /\ Goto(t, "blockThreads")
  /\ UNCHANGED <<syncState, jniLockCount, counter, armed, vpc, seen, threads, type,
                 locVars, suspVars, critVars>>

\* The section under Safepoint_lock.
BlockUnderLock(t) ==
  /\ pc[t] = "blockLock"
  /\ SafepointLockFree
  /\ IF syncState = "synchronizing"
     THEN /\ waiting' = waiting - 1
          /\ calledBack' = [calledBack EXCEPT ![t] = TRUE]
          /\ jniActive' = jniActive + (IF crit[t] > 0 THEN 1 ELSE 0)
          /\ notified' = (notified \/ waiting' = 0)
     ELSE UNCHANGED <<waiting, calledBack, jniActive, notified>>
  /\ StoreFence(t, "blocked")
  /\ Goto(t, "blockThreads")
  /\ UNCHANGED <<syncState, jniLockCount, counter, armed, vpc, seen, threads, type,
                 locVars, suspVars, critVars>>

\* Mutant: the thread does not line up on Threads_lock.
BlockNoWait(t) ==
  /\ pc[t] = "blockThreads"
  /\ StoreFence(t, orig[t])
  /\ Goto(t, AfterBlock(orig[t]))
  /\ UNCHANGED <<vmVars, threads, stopVars, locVars, suspVars, critVars>>

\* Threads_lock is taken, the state restored, Threads_lock released.
BlockReturn(t) ==
  /\ pc[t] = "blockThreads"
  /\ ThreadsLockFree
  /\ StoreFence(t, orig[t])
  /\ Goto(t, AfterBlock(orig[t]))
  /\ UNCHANGED <<vmVars, threads, stopVars, locVars, suspVars, critVars>>

-----------------------------------------------------------------------------
(* JNI critical regions, GC_locker::lock_critical and unlock_critical, as  *)
(* far as the thread's own count is concerned.                             *)

EnterCritical(t) ==
  /\ pc[t] = "run" /\ own(t) = "vm" /\ t \in threads
  /\ t \in Critical /\ JniRegions(t) < MaxRegions
  /\ crit' = [crit EXCEPT ![t] = @ + 1]
  /\ UNCHANGED <<vmVars, threads, stopVars, storeVars, pc, locVars, suspVars, lazy, unlockFlag>>

LeaveCritical(t) ==
  /\ pc[t] = "run" /\ own(t) = "vm" /\ t \in threads
  /\ JniRegions(t) > 0
  /\ crit' = [crit EXCEPT ![t] = @ - 1]
  /\ UNCHANGED <<vmVars, threads, stopVars, storeVars, pc, locVars, suspVars, lazy, unlockFlag>>

\* Mutant: unlocks whether or not the VM thread locked.
LazyExitAlways(t) ==
  /\ pc[t] = "lazyExit"
  /\ Store(t, "vm")
  /\ Goto(t, "lazyUnlock")
  /\ UNCHANGED <<vmVars, threads, stopVars, locVars, suspVars, critVars>>

\* check_special_condition_for_native_trans_and_transition after set Java.
LazyExit(t) ==
  /\ pc[t] = "lazyExit"
  /\ \/ /\ unlockFlag[t]
        /\ Store(t, "vm")
        /\ Goto(t, "lazyUnlock")
        /\ UNCHANGED lazy
     \/ /\ ~unlockFlag[t]
        /\ lazy' = [lazy EXCEPT ![t] = FALSE]
        /\ Goto(t, "run")
        /\ UNCHANGED storeVars
  /\ UNCHANGED <<vmVars, threads, stopVars, locVars, suspVars, crit, unlockFlag>>

\* unlock_critical in the VM, then the transition back to Java.
LazyUnlock(t) ==
  /\ pc[t] = "lazyUnlock"
  /\ crit' = [crit EXCEPT ![t] = @ - 1]
  /\ unlockFlag' = [unlockFlag EXCEPT ![t] = FALSE]
  /\ lazy' = [lazy EXCEPT ![t] = FALSE]
  /\ StoreTrans(t, "vm_trans")
  /\ dest' = [dest EXCEPT ![t] = "Java"]
  /\ Goto(t, "check")
  /\ UNCHANGED <<vmVars, threads, stopVars, orig, suspVars>>

-----------------------------------------------------------------------------
(* SafepointSynchronize::begin, run by the VM thread.                      *)

thrVars == <<threads, pc, locVars, suspVars, lazy>>

\* Threads_lock->lock().
Begin ==
  /\ vpc = "idle"
  /\ counter < 2 * MaxSafepoints
  /\ vpc' = "locked"
  /\ UNCHANGED <<syncState, waiting, jniActive, jniLockCount, counter, armed, seen, notified,
                 thrVars, stopVars, storeVars, crit, unlockFlag>>

\* Safepoint_lock is taken, the counts are set, then _state and the fence.
Synchronize ==
  /\ vpc = "locked"
  /\ jniActive' = 0
  /\ waiting' = Cardinality(threads)
  /\ syncState' = "synchronizing"
  /\ vpc' = "serialize"
  /\ UNCHANGED <<jniLockCount, counter, armed, seen, notified, thrVars, stopVars, storeVars,
                 crit, unlockFlag>>

\* Mutant: no mprotect.
NoSerialize ==
  UNCHANGED storeVars

\* os::serialize_thread_states: two mprotects drain every store buffer.
serialize_thread_states ==
  IF UseMembar
  THEN UNCHANGED storeVars
  ELSE /\ vis' = [t \in Threads |-> own(t)]
       /\ buf' = [t \in Threads |-> << >>]

\* Mutant: the polling page is not armed.
ArmNot ==
  /\ vpc = "serialize"
  /\ serialize_thread_states
  /\ armed' = FALSE
  /\ vpc' = "spin"
  /\ UNCHANGED <<syncState, waiting, jniActive, jniLockCount, counter, seen, notified,
                 thrVars, stopVars, crit, unlockFlag>>

\* Then notice_safepoints and the polling page.
Arm ==
  /\ vpc = "serialize"
  /\ serialize_thread_states
  /\ armed' = TRUE
  /\ vpc' = "spin"
  /\ UNCHANGED <<syncState, waiting, jniActive, jniLockCount, counter, seen, notified,
                 thrVars, stopVars, crit, unlockFlag>>

\* examine_state_of_thread reads the thread's state.
Examine(t) ==
  /\ vpc = "spin"
  /\ t \in threads /\ type[t] = "running"
  /\ seen' = [thread |-> t, state |-> vis[t]]
  /\ vpc' = "decide"
  /\ UNCHANGED <<syncState, waiting, jniActive, jniLockCount, counter, armed, notified,
                 thrVars, stopVars, storeVars, crit, unlockFlag>>

safepoint_safe(s) == s \in {"native", "blocked"}

\* Mutant: entered again at every safepoint.
LazyEverySafepoint(t, s) == s = "native" /\ lazy[t]

\* check_for_lazy_critical_native has something to do.
LazyCritical(t, s) == s = "native" /\ lazy[t] /\ ~unlockFlag[t]

\* roll_forward(_at_safepoint), with the critical count the thread then has.
AtSafepoint(t, c) ==
  /\ type' = [type EXCEPT ![t] = "at_safepoint"]
  /\ waiting' = waiting - 1
  /\ jniActive' = jniActive + (IF c > 0 THEN 1 ELSE 0)

\* The rest of examine_state_of_thread: the decision on the state it read.
RollForward(t) ==
  /\ vpc = "decide" /\ seen.thread = t
  /\ vpc' = "spin"
  /\ seen' = [thread |-> NoThread, state |-> "new"]
  /\ \/ /\ suspended[t]
        /\ AtSafepoint(t, crit[t])
        /\ UNCHANGED <<calledBack, crit, unlockFlag>>
     \/ /\ ~suspended[t] /\ safepoint_safe(seen.state)
        /\ LazyCritical(t, seen.state)
        /\ crit' = [crit EXCEPT ![t] = @ + 1]
        /\ unlockFlag' = [unlockFlag EXCEPT ![t] = TRUE]
        /\ AtSafepoint(t, crit[t] + 1)
        /\ UNCHANGED calledBack
     \/ /\ ~suspended[t] /\ safepoint_safe(seen.state)
        /\ ~LazyCritical(t, seen.state)
        /\ AtSafepoint(t, crit[t])
        /\ UNCHANGED <<calledBack, crit, unlockFlag>>
     \/ /\ ~suspended[t] /\ seen.state = "vm"
        /\ type' = [type EXCEPT ![t] = "call_back"]
        /\ calledBack' = [calledBack EXCEPT ![t] = FALSE]
        /\ UNCHANGED <<waiting, jniActive, crit, unlockFlag>>
     \/ /\ ~suspended[t] /\ ~safepoint_safe(seen.state) /\ seen.state # "vm"
        /\ UNCHANGED <<stopVars, waiting, jniActive, crit, unlockFlag>>
  /\ UNCHANGED <<syncState, jniLockCount, counter, armed, notified, thrVars, storeVars>>

\* while (_waiting_to_block > 0) Safepoint_lock->wait(true)
WaitToBlock ==
  /\ vpc = "spin"
  /\ \A t \in threads : type[t] # "running"
  /\ waiting > 0
  /\ vpc' = "waiting"
  /\ UNCHANGED <<syncState, waiting, jniActive, jniLockCount, counter, armed, seen, notified,
                 thrVars, stopVars, storeVars, crit, unlockFlag>>

Notified ==
  /\ vpc = "waiting"
  /\ notified
  /\ notified' = FALSE
  /\ vpc' = "spin"
  /\ UNCHANGED <<syncState, waiting, jniActive, jniLockCount, counter, armed, seen,
                 thrVars, stopVars, storeVars, crit, unlockFlag>>

\* All threads are stopped.
Stopped ==
  /\ vpc = "spin"
  /\ \A t \in threads : type[t] # "running"
  /\ waiting <= 0
  /\ counter' = counter + 1
  /\ syncState' = "synchronized"
  /\ jniLockCount' = jniActive
  /\ vpc' = "stopped"
  /\ UNCHANGED <<waiting, jniActive, armed, seen, notified, thrVars, stopVars, storeVars,
                 crit, unlockFlag>>

-----------------------------------------------------------------------------
(* SafepointSynchronize::end.                                              *)

\* Mutant: the polling page stays armed.
DisarmNot ==
  /\ vpc = "stopped"
  /\ counter' = counter + 1
  /\ UNCHANGED armed
  /\ vpc' = "disarmed"
  /\ UNCHANGED <<syncState, waiting, jniActive, jniLockCount, seen, notified,
                 thrVars, stopVars, storeVars, crit, unlockFlag>>

Disarm ==
  /\ vpc = "stopped"
  /\ counter' = counter + 1
  /\ armed' = FALSE
  /\ vpc' = "disarmed"
  /\ UNCHANGED <<syncState, waiting, jniActive, jniLockCount, seen, notified,
                 thrVars, stopVars, storeVars, crit, unlockFlag>>

\* Safepoint_lock is taken and _state reset.
EndState ==
  /\ vpc = "disarmed"
  /\ syncState' = "not_synchronized"
  /\ vpc' = "restart"
  /\ UNCHANGED <<waiting, jniActive, jniLockCount, counter, armed, seen, notified,
                 thrVars, stopVars, storeVars, crit, unlockFlag>>

\* restart() of one thread of the list.
Restart(t) ==
  /\ vpc = "restart"
  /\ t \in threads /\ type[t] # "running"
  /\ type' = [type EXCEPT ![t] = "running"]
  /\ calledBack' = [calledBack EXCEPT ![t] = FALSE]
  /\ UNCHANGED <<vmVars, thrVars, storeVars, crit, unlockFlag>>

\* Threads_lock->unlock().
End ==
  /\ vpc = "restart"
  /\ \A t \in threads : type[t] = "running"
  /\ vpc' = "idle"
  /\ UNCHANGED <<syncState, waiting, jniActive, jniLockCount, counter, armed, seen, notified,
                 thrVars, stopVars, storeVars, crit, unlockFlag>>

-----------------------------------------------------------------------------

Init ==
  /\ syncState = "not_synchronized"
  /\ waiting = 0 /\ jniActive = 0 /\ jniLockCount = 0 /\ counter = 0
  /\ armed = FALSE /\ notified = FALSE
  /\ vpc = "idle"
  /\ seen = [thread |-> NoThread, state |-> "new"]
  /\ threads = {}
  /\ type = [t \in Threads |-> "running"]
  /\ calledBack = [t \in Threads |-> FALSE]
  /\ vis = [t \in Threads |-> "new"]
  /\ buf = [t \in Threads |-> << >>]
  /\ pc = [t \in Threads |-> "none"]
  /\ dest = [t \in Threads |-> "new"]
  /\ orig = [t \in Threads |-> "new"]
  /\ external = [t \in Threads |-> FALSE]
  /\ suspended = [t \in Threads |-> FALSE]
  /\ crit = [t \in Threads |-> 0]
  /\ lazy = [t \in Threads |-> FALSE]
  /\ unlockFlag = [t \in Threads |-> FALSE]

\* The steps a thread inside a transition, a suspension or block() takes.
Inner(t) ==
  \/ Check(t) \/ SetTo(t) \/ CheckNative(t) \/ CheckFlags(t)
  \/ SuspendTest(t) \/ SuspendSelf(t) \/ SuspendReturn(t) \/ RestoreState(t) \/ CheckAgain(t)
  \/ SpecialExit(t) \/ Block(t) \/ BlockUnderLock(t) \/ BlockReturn(t)
  \/ LazyExit(t) \/ LazyUnlock(t)

\* The steps a running thread chooses to take.
Outer(t) ==
  \/ Start(t) \/ Exit(t) \/ EnterVM(t) \/ Poll(t)
  \/ \E isLazy \in BOOLEAN : JavaToNative(t, isLazy)
  \/ \E to \in Stable : Leave(t, to)
  \/ \E to \in {"vm", "Java"} : FromNative(t, to)
  \/ \E u \in Threads : RequestSuspend(t, u) \/ Resume(t, u)
  \/ EnterCritical(t) \/ LeaveCritical(t)

VMStep ==
  \/ Begin \/ Synchronize \/ Arm \/ WaitToBlock \/ Notified \/ Stopped
  \/ Disarm \/ EndState \/ End
  \/ \E t \in Threads : Examine(t) \/ RollForward(t) \/ Restart(t)

Next == VMStep \/ \E t \in Threads : Inner(t) \/ Outer(t) \/ Drain(t)

Spec == Init /\ [][Next]_vars

-----------------------------------------------------------------------------
(* Properties.                                                             *)

Pcs == {"none", "run", "check", "setTo", "checkNative", "checkFlags", "suspTest", "suspend",
        "suspended", "restore", "check2", "special", "block", "blockLock", "blockThreads",
        "lazyExit", "lazyUnlock"}

\* The type invariant.
TypeOK ==
  /\ syncState \in {"not_synchronized", "synchronizing", "synchronized"}
  /\ waiting \in Int /\ jniActive \in Nat /\ jniLockCount \in Nat /\ counter \in Nat
  /\ armed \in BOOLEAN /\ notified \in BOOLEAN
  /\ vpc \in {"idle", "locked", "serialize", "spin", "decide", "waiting", "stopped",
              "disarmed", "restart"}
  /\ seen \in [thread : Threads \cup {NoThread}, state : States]
  /\ threads \subseteq Threads
  /\ type \in [Threads -> {"running", "at_safepoint", "call_back"}]
  /\ calledBack \in [Threads -> BOOLEAN]
  /\ vis \in [Threads -> States] /\ buf \in [Threads -> Seq(States)]
  /\ pc \in [Threads -> Pcs]
  /\ dest \in [Threads -> Stable] /\ orig \in [Threads -> States]
  /\ external \in [Threads -> BOOLEAN] /\ suspended \in [Threads -> BOOLEAN]
  /\ crit \in [Threads -> Nat]
  /\ lazy \in [Threads -> BOOLEAN] /\ unlockFlag \in [Threads -> BOOLEAN]

\* The thread is where it may touch the heap: it runs Java code, VM code, the
\* start of a thread, or the end of a transition into one of these.
Mutating(t) ==
  \/ pc[t] = "run" /\ own(t) \in {"vm", "Java", "new"}
  \/ pc[t] \in {"lazyExit", "lazyUnlock", "setTo", "checkFlags"}
  \/ pc[t] = "special" /\ own(t) # "native"

\* While _state is _synchronized every thread of the list is stopped: none
\* runs Java or VM code, whatever state the VM thread saw it in.
StoppedWorld ==
  syncState = "synchronized" => \A t \in threads : ~Mutating(t)

\* _waiting_to_block is exact: from the moment it is set it counts the threads
\* still running and those that have to call back and have not done so yet.
WaitingExact ==
  vpc \in {"serialize", "spin", "decide", "waiting"} =>
    waiting = Cardinality({t \in threads : \/ type[t] = "running"
                                           \/ type[t] = "call_back" /\ ~calledBack[t]})

\* The GC locker gets the true number of threads in critical regions, the
\* lazy critical natives among them, and it stays true during the safepoint.
JniCountExact ==
  syncState = "synchronized" =>
    jniLockCount = Cardinality({t \in threads : crit[t] > 0})

\* A thread that polls does so while a safepoint is being synchronized and has
\* not been judged yet, and one that blocks coming from native code or from a
\* lock is not one the VM thread expects to call back: the asserts and the
\* "Deadlock in safepoint code" of block() and handle_polling_page_exception.
BlockAsserts ==
  \A t \in threads : pc[t] = "block" =>
    /\ own(t) = "Java" => syncState = "synchronizing" /\ type[t] = "running"
    /\ own(t) # "Java" => own(t) \in {"vm_trans", "native_trans", "blocked_trans", "new_trans"}
    /\ own(t) \in {"native_trans", "blocked_trans", "new_trans"} => type[t] # "call_back"

\* A thread back in Java code has left every critical region, those the VM
\* thread entered on its behalf, over any number of safepoints, included.
NoCriticalLeak ==
  \A t \in Threads : pc[t] = "run" /\ own(t) = "Java" => crit[t] = 0 /\ ~unlockFlag[t]

\* A thread that the VM thread has judged does not get away: it keeps its
\* type, and cannot start mutating, until the safepoint ends.
NoEscape ==
  [][\A t \in threads :
       type[t] = "at_safepoint" /\ syncState = "synchronizing" /\ syncState' # "not_synchronized"
         => type'[t] = "at_safepoint" /\ ~Mutating(t)']_vars

\* A thread keeps leaving the VM and polling in Java code, the VM thread keeps
\* scanning its list, and stores drain: what the scheduler and the code give.
Fairness ==
  /\ WF_vars(Synchronize) /\ WF_vars(Arm) /\ WF_vars(WaitToBlock) /\ WF_vars(Notified)
  /\ WF_vars(Stopped) /\ WF_vars(Disarm) /\ WF_vars(EndState) /\ WF_vars(End)
  /\ \A t \in Threads :
       /\ SF_vars(Examine(t)) /\ WF_vars(RollForward(t)) /\ WF_vars(Restart(t))
       /\ WF_vars(Inner(t)) /\ WF_vars(Drain(t)) /\ WF_vars(Poll(t))
       /\ WF_vars(own(t) \in {"vm", "new"} /\ \E to \in Stable : Leave(t, to))

FairSpec == Spec /\ Fairness

\* A safepoint that is begun is reached: no thread can keep the VM thread
\* spinning or waiting for ever, a lost notification included.
SafepointReached == syncState = "synchronizing" ~> syncState = "synchronized"

\* A thread that stopped for the safepoint goes on after it.
ThreadsReleased == \A t \in Threads : pc[t] = "blockThreads" ~> pc[t] # "blockThreads"
=============================================================================
