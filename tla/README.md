# Verification of HotSpot's synchronization subsystem

TLA+ models, TLC runs and TLAPS proofs for the part of the HotSpot VM
(`src/src/share/vm`) on which everything concurrent in it rests: the VM's own
locks, safepoints, Java monitors, the VM operation queue and the work-stealing
queues of the collectors. Paths below are relative to `src/src/share/vm` unless
they start with `os/`.

The modules are translations of the code. A module keeps every guard, early
return and state change of the functions it models, in the order of the code,
and abstracts data: a thread stands for its `ParkEvent`, a list is a sequence of
threads, an operation or a task is a record or a model value.

## The system and its models

| Part | What is hard about it | Module | Promise |
|---|---|---|---|
| VM-internal locks, `runtime/mutex.cpp`, with `park`/`unpark` of `os/linux/vm/os_linux.cpp` | competitive succession without a lock, timeouts against notifications, the VM thread sneaking past a lock | `NativeMonitor` | `MonitorSpec` |
| Safepoints, `runtime/safepoint.cpp`, and thread states, `runtime/interfaceSupport.hpp`, `runtime/thread.cpp` | threads change state while they are examined, a store that is not visible yet, a counter that must reach zero exactly | `Safepoint` | `StoppedWorld`, `NoEscape` |
| Java monitors, `runtime/objectMonitor.cpp` | the heir presumptive `_succ`, stranding, suspension in the middle | `ObjectMonitor` | `MonitorSpec` |
| VM operations, `runtime/vmThread.cpp` | nested operations, coalescing of safepoints, termination | `VMOperations` | `VMOperationsSpec` |
| Task queues, `gc/shared/taskqueue.*` | the last element, wrap-around and the ABA tag, early termination | `TaskQueue` | `WorkPool` |

Who uses whom: every component takes VM-internal locks; the VM thread runs
safepoint operations with `SafepointSynchronize::begin/end`; a Java thread that
blocks on any lock goes through a thread state transition and may stop for a
safepoint there; deflation of Java monitors relies on the safepoint; the
collectors are driven by VM operations. `VMOperations` is the composition: its
locks are `MonitorSpec`, its safepoints what `Safepoint` establishes.

`Lists` has the few operators on linked lists that the models share, and
`ListFacts` the lemmas about them (what pushing, popping, unlinking, appending
and concatenating do to the members of a list without repetitions). `MC*`
modules hold the instances for TLC; `*Proofs`, `TaskQueueFacts` and `TaskQueueSteps`
the proofs.

## VM-internal locks: `NativeMonitor`, `MonitorSpec`

`NativeMonitor` models one `Monitor`. One step is one access to shared memory;
a CAS loop is the step of its successful CAS. Memory is sequentially consistent
because each store followed by a load that matters has a fence in the code
(`ILock`, `IUnlock`, `Punt`). `NativeMonitorFlags` has its default 0.

| Code | Model |
|---|---|
| `_LockWord` | `LockByte` (its low byte) and `cxq` |
| `_OnDeck`, `_LBIT` | `OnDeck`, `LBIT` |
| `lock()` | `LockCall` (TryFast), `SneakTest`, `Contend` (TrySpin), `EnterTB` (ThreadBlockInVM), the `ILock` steps, `LeaveTB`, `SetOwner` |
| `ILock` | `ILockSpin`, `AcquireOrPush`, `CheckOnDeck`, `ParkOnList`, `OnDeckSpin`, `ParkOnDeck`, `ClearOnDeck` |
| `IUnlock` | `ReleaseOuter`, `ReadOnDeck`, `ReadCxq`, `ReadEntry`, `CasOnDeck`, `PickHead`, `DrainCxq`, `InstallEntryList`, `SetOnDeck`, `Recheck`, `Unpark`, `Punt`, `Resample` |
| `notify`, `notify_all` | `NotifyCall`, `NotifyTest`, `Transfer`, `SetNotified` |
| `wait`, `IWait` | `WaitCall`, `AddWaiter`, the `IUnlock` steps, `WaitLoop`, `WaitPark`, `WaitTimeout`, `WaitOut`, `RemoveSelf`, `WaitDone`, `Resume` |
| `PlatformEvent::park`, `unpark` | `Park`, `WakeUp`, `Unpark`, `WaitTimeout` on `Event` |
| safepoint | `BeginSafepoint`, `EndSafepoint`, `SafepointSafe`, `MayPassTransition` |

Clients obey the asserts of the code: a thread unlocks, waits and notifies only
while it owns the monitor; the VM thread that sneaked only unlocks, and it does
not hold the monitor when it begins or ends a safepoint. Java threads wait with
a safepoint check, and do not stop for a safepoint inside the critical section.
A timed park may lose against an unpark and swallow it, as `os_linux.cpp` allows.

`MonitorSpec` is what a monitor promises: one holder, `wait` that gives the lock
up and registers in one step, `notify` by the holder, timeouts. `NativeMonitor`
maps its holder to the thread inside the lock byte, the waiters to the threads
on `_WaitSet` that no longer hold it, and the returning threads to those off the
`_WaitSet` that do not hold it yet.

Runs:

- `nm_safe`: three threads that lock and notify, one of them with `try_lock`, two
  with timed waits. Both locks exclude; whoever sits on a list is somebody's
  successor (`Succession`); only the holder of the inner lock moves threads; a
  thread once on deck stays there until it has the lock; and a thread is on one
  list, the right one, whatever a timeout and a notification do to it at once.
  With three threads the owner, the thread on deck and one of the two lists are
  occupied at once; that both lists are takes a fourth thread, which only the
  theorems have. As every wait ends by itself, deadlock is checked.
- `nm_java`: a Java thread that calls everything (suspension included), another
  one that locks, and the VM thread, with safepoints: sneaking. The monitor
  implements `MonitorSpec`.
- `nm_live`: three threads under weak fairness of each thread's steps (the
  operating system schedules every runnable thread; a spin is bounded). After at
  most five calls (`MaxCalls`) every `lock()` and every notified `wait()` ends.
  Without timeouts the monitor implements the untimed `MonitorSpec`. That a timed
  park may swallow an unpark is therefore a matter of `nm_safe`, and that a
  suspended waiter gives the lock up and takes it again, of `nm_java`.
- `nm_sneak` (violation): the first finding below.

## Safepoints and thread states: `Safepoint`

The VM thread runs `begin()`, examines the threads, waits for the rest, and runs
`end()`; the Java threads change state, poll, block, are suspended and resumed,
and enter critical regions meanwhile. A thread's stores of its own state go
through a store buffer (`buf`, of `MaxStores` entries) before others see them
(`vis`): with `UseMembar` each transition drains it, without it only
`serialize_thread_states` does, as in the code.

| Code | Model |
|---|---|
| `_state`, `_waiting_to_block`, `_safepoint_counter` | `syncState`, `waiting`, `counter` |
| `PageArmed`, the polling page | `armed`, `Poll` |
| `begin()` | the VM thread's steps from taking `Threads_lock` to `synchronized`, one for each store, each thread's state read and the decision on it |
| `examine_state_of_thread`, `roll_forward` | `Examine` and the decision, `RollForward` |
| `end()`, `restart` | the steps from `synchronized` to idle |
| `transition`, `transition_and_fence`, `transition_from_java`, `transition_from_native` | `Leave`, `Check`, `SetTo`, `Finish`, `EnterVM`, `FromNative`, `CheckNative`, `CheckFlags` |
| `block()` | `Block`, `BlockUnderLock`, `BlockReturn`, and at its end the suspension of a thread that was not blocked or in the VM (`AfterBlock`) |
| `java_suspend_self`, `java_resume`, the native slow path | `SuspendTest`, `SuspendSelf`, `SuspendReturn`, `RestoreState`, `CheckAgain`, `RequestSuspend`, `Resume` |
| JNI critical regions, lazy critical natives | `EnterCritical`, `LeaveCritical`, `LazyExit`, `LazyUnlock` |

What is assumed of the surroundings: a thread asks for a suspension, and resumes
another, only while it is in the VM; it does not return to Java inside a JNI
critical region; the frames of a thread in native are walkable; the interpreter,
whose dispatch table `begin()` switches, polls by entering the VM at some time;
`DeferPollingPageLoopCount` has its default. The threads of the concurrent
collectors, which `SuspendibleThreadSet` stops, are not part of the model.

Runs:

- `sp_safe`: `UseMembar` off, two threads, a store buffer of one entry, at most
  two safepoints. The constraint `Focus` keeps the instance small: both threads
  see one safepoint, with suspension or with critical regions; one thread alone
  sees both safepoints with everything. Stale judgements, a count that must reach
  zero exactly, and the count handed to the GC locker need no more. Deadlock is
  not checked: a suspended thread need not be resumed.
- `sp_live`: both threads under weak fairness of the threads and of the VM
  thread, strong fairness of examining each thread (the loop over the list
  reaches each in turn): every safepoint is reached, every stopped thread goes on.
  It has one safepoint.

## Java monitors: `ObjectMonitor`

One inflated monitor. A step is one access to shared memory; the knobs of
`objectMonitor.cpp` have their defaults (`Knob_ExitPolicy` 0, `Knob_QMode` 0,
`Knob_MoveNotifyee` 2); memory is sequentially consistent because the accesses
that must not pass each other are separated by fences or by a CAS.

| Code | Model |
|---|---|
| `_owner`, `_recursions`, `_count`, `_waiters` | `owner`, `recursions`, and the sets `count` and `waiters` of the threads counted |
| `_EntryList`, `_cxq`, `_WaitSet`, `TState` | sequences of threads; `TState` |
| `_succ`, `_Responsible` | `succ`, `Responsible` |
| `enter`, `EnterI` | `EnterCall`, `RecursiveEnter`, `IncCount`, `TryEnter`, `Enqueue`, `ReadEntry`, `Claim`, `Retry`, `ChoosePark`, `Park`, `ParkTimeout`, `Woken`, `TestSucc`, `ClearSucc`, `Unlink`, `DropResponsible`, `Acquired`, `SuspendReturn` |
| `TrySpin_VaryDuration` | `SpinStart`, `SetSucc`, `Spin`, `SpinGiveUp`, `SpinAbort`, `AbortClear`, `AbortTry` |
| `exit`, `ExitEpilog` | `ExitCall`, `Exit`, `Release`, `ReadList`, `ReadCxq`, `ReadSucc`, `Reacquire`, `Pick`, `Drained`, `SetHeir`, `Drop`, `Wake` |
| `fast_unlock` of the compiled code (x86) | `FastExitCall`, `FastList`, `FastRelease`, `FastSucc`, `FastDrop`, `FastRatify`, `FastReacquire` |
| `wait`, `ReenterI` | `WaitCall`, `AddWaiter`, `CompleteExit` and the exit steps, `WaitTest`, `WaitTState`, `WaitUnlink`, `ReadNotified`, `WaitEnter`, `ReenterTry`, `ReenterSusp`, `ReenterWoken`, `Reentered`, `WaitDone` |
| `notify`, `notifyAll`, `INotify` | `NotifyCall`, `Notify`, `NotifyMark`, `NotifyLink` |
| `os::interrupt`, external suspension | `Interrupt`, `InterruptUnpark`, `Suspend` |

Left out: waits that cannot be interrupted; the second unpark after a JVMTI
monitor-waited event; an owner that is still the address of a `BasicLock` (the
synchronizer's part). `ThreadBlockInVM` is an arbitrary delay. A failed CAS push
is the `TryLock` the code makes before it tries again.

Runs:

- `om_safe`: two threads, a multiprocessor (`MP`, so they spin), one of them
  making every call, being suspended and interrupted, and entering twice
  (`MaxRec`). Whoever acts as the owner is the owner; the lists and `TState`
  agree; the asserts hold; a monitor that some thread still has to touch is busy
  when deflation looks; and the monitor implements `MonitorSpec`. A safepoint, and
with it deflation, may find a thread in any place where it is `_thread_blocked`
(`MaySafepoint`): all of `EnterI`, the `exit()` with which a suspended thread gives
the lock up again (`objectMonitor.cpp:352`), and around the parks of `wait` and
`ReenterI`. That `notify` puts a waiter on the cxq, because `_EntryList` is not
empty, takes three threads and is covered by the theorems only.
- `om_live`: no free monitor stays free while threads are queued, under weak
  fairness of each thread's steps and of a started interrupt's unpark, and strong
  fairness of giving up a spin (it counts down). Two threads, no suspension.
- `om_notify` (violation): the second finding below.

`NoStranding` is checked without suspension. With it, it fails: a thread that
suspends itself between `park` and re-entering in `wait()` remains the heir
presumptive `_succ`, and an exit that sees an heir wakes nobody. The code
names the omission at `objectMonitor.cpp:1509` ("TODO-FIXME: add -- if succ ==
Self then succ = null.") and clears `_succ` for that reason in `enter`.

## VM operations: `VMOperations`, `VMOperationsSpec`

`VMOperations` composes `runtime/vmThread.cpp` with two of the parts above: its
three locks are instances of `MonitorSpec`, which `NativeMonitor` implements, and
its safepoints are what `Safepoint` establishes (from `begin` on no Java thread
leaves a safe place; it is reached when all are in one).

| Code | Model |
|---|---|
| `_queue`, `_queue_counter`, `_drain_list` | `queue`, `counter`, `drain_list` |
| `_cur_vm_operation`, `prev_vm_operation` | `cur`, `outer` |
| the ticket and the completed count of a thread | their difference, `debt` |
| allocation and deletion of operations | `live` |
| `execute` by a client | `Submit`, `LockQueue`, `Add`, `UnlockQueue`, `LockRequest`, `Released`, `Check`, `Epilogue` |
| `execute` by the VM thread | `Nest`, `NestReturn` |
| `loop` | `LockLoop`, `Take`, `Timeout`, `Woken`, `ForceSafepoint`, `Retake`, `Run`, `Batch`, `Drain`, `Trace` (the report of `TraceLongCompiles`), `LockNotify`, `NotifyAll`, and `Begin`, `Reach`, `End` of its safepoints |
| `evaluate_operation` | `Complete`, `Delete` |
| `wait_for_vm_thread_exit`, the end of `run` | `Terminate`, `AwaitExit`, `Exit` |

`VMOperationsSpec` is the promise of `execute`: an operation runs once, alone,
and is released only when it is over.

Memory is the subtle part of it: once `evaluate_operation` has incremented the
completed count, the operation may be gone with its caller's frame. `NoDangling`
says that what the VM thread and the submitters still touch is allocated. It
leaves out one access, on purpose: with `TraceLongCompiles`, a develop flag and a
constant of the module, `loop()` prints the name of an operation after it has run.
That access is a step of the model, `Trace`, and `TracedAllocated` is the property
about it, which holds only without the flag (the third finding below).

Left out: what operations do; before the VM exits, the wait for compilers and for
threads in native code (`VM_Exit::wait_for_threads_in_native_to_block`), which is
bounded and gives up whatever these threads do, so that `Exit` is one step.

The run `vo_ops` has a Java thread, a GC thread that submits `MaxOther`
operations (with more, its operations alone could keep one safepoint going for
ever, the draining loop has no limit), nested operations with and without a
safepoint, `TraceLongCompiles` on, and `MaxCounter` 1 in place of 10, so that the
preferred queue changes on every second call. It checks the safety properties, the refinement of
`VMOperationsSpec`, and liveness under weak fairness of the VM thread, the
clients and the terminating thread. Weak fairness does not promise a client the
lock; the liveness properties do not depend on that. Deadlock is not checked: the
VM exits. An operation that the VM thread dequeued just before it sees
`should_terminate` is dropped (`vmThread.cpp:453`), which is why the liveness
property makes an exception for a terminating VM.

`vo_trace` (violation) has the same threads without nested operations: the third
finding below.

## Work stealing: `TaskQueue`, `WorkPool`

The deques of the parallel collectors, their overflow stacks, the terminator,
and the loop that drives them in the parallel scavenger (`StealTask::do_it`,
`drain_stacks_depth`). The memory is that of x86, the build for which the code
leaves a fence out (`taskqueue.inline.hpp:195`): stores of a worker wait in a
buffer and reach memory in order; fences and atomic operations wait for it.

| Code | Model |
|---|---|
| `_bottom`, `_age`, `_elems`, `_overflow_stack` | `_bottom`, `_age` (a record of top and tag), `_elems`, `overflow`, for each worker's queue |
| `push`, `push_slow`, `pop_overflow` | `Push`, `pop_overflow` |
| `pop_local`, `pop_local_slow` | `pop_local` up to the fence, `Reread`, `ReadAge`, `pop_local_slow` |
| `steal`, `steal_best_of_2`, `pop_global` | `steal` (any other queue: the sizes it compares are estimates; none if there is one queue), `ReadBottom`, `ReadElem`, `pop_global` |
| `offer_termination`, `peek` | `offer_termination`, `Check`, `PeekBottom`, `PeekTop`, `Withdraw` |

`WorkPool` is what the collectors rely on: the owner takes the newest task,
thieves the oldest, no task twice, and nobody is told to stop while a task is
left or being worked on. The refinement mapping reads a queue as its owner sees
it, with the task that `pop_local` is after still in it; the task is taken in the
step that decides about it.


The run `tq_steal` has two workers, one of which finds four tasks and the other
one (`MaxFound`), in arrays of four (`N`): two tasks fill a queue, a third goes to
the overflow stack, and the indexes wrap around. `TagValues` is large enough for
the tag never to wrap (`TagsLast` below holds of the instance). Each worker's
steps and the draining of each store buffer are weakly fair: a processor does not
keep a store for ever, and every worker runs. Deadlock is not checked: in the end all workers have stopped. With two
workers a queue has one thief; thieves that race each other, and a set of one
queue, where `steal` fails at once, are covered by the theorems only.

## Findings

- `nm_sneak`, `mutex.cpp:926`: `lock()` lets the VM thread sneak at a safepoint
  whenever the lock byte is taken and `_owner` is still `NULL`. The comment at
  line 927 justifies it by "a java thread has locked the lock but has not entered
  the critical region", but the code does not test that it is a Java thread: a
  non-Java thread that has just taken the lock byte goes on to set `_owner`, and
  two threads are inside. Where only Java threads compete with the VM thread
  (`OwnerInv` below needs exactly this) sneaking is safe, which `nm_java` checks
  and `SneakingIsSafe` proves.
- `om_notify`, `objectMonitor.cpp:1658`: `INotify` stores `TState = TS_ENTER` and
  only then `_notified = 1`. A waiter that woke from an interrupt or a timeout and
  reads `TState` in between reads `_notified` 0 and throws `InterruptedException`
  although `notify()` took it from the wait set. The comment at line 1634 says
  "Monitor notify has precedence over thread interrupt."
- `vo_trace`, `vmThread.cpp:532`: with `TraceLongCompiles`, `loop()` reads
  `_cur_vm_operation->name()` for its report after `evaluate_operation()` has
  incremented the caller's completed count or deleted the operation. A blocking
  caller may have returned from `execute()` by then. The comment in front of the
  line says so itself: "_cur_vm_operation should not be accessed after the
  completed count has been incremented; the waiting thread may have already freed
  this memory" (line 529). `NothingDangles` proves that this is the only such
  access, and that without the flag there is none.
- An observation without a run: `try_lock()` (`mutex.cpp:988`) sneaks before it
  tries the lock byte, so the VM thread may sneak past a lock that is free.

## Proofs

TLC looks at the instances above; the theorems hold for every value of the
constants that satisfies the `ASSUME` of the module: any set of threads (finite
for `Safepoint` and `TaskQueue`, where threads are counted), any calls and modes,
any bounds, any length of a task queue's array.
The assumptions only say that `NULL` and the like are nobody's name, that the
kinds of threads are disjoint and that bounds are natural numbers; TLC evaluates
them in every run. Each invariant was found and checked with TLC before it was
proved.

| Theorem | States | Rests on |
|---|---|---|
| `NativeMonitorProofs`: `TypeCorrect` | `TypeOK` | `ControlInv` |
| `OuterLockCorrect`, `InnerLockCorrect` | `LockByteExclusion`, `InnerLockExclusion` | `LockInv` |
| `OnDeckIsStable`, `InnerLockIsProtection` | the action properties `OnDeckStable`, `InnerLockProtects` | `LockInv` |
| `SneakingIsSafe` (assumes `OnlyJavaCompetes`) | `OwnerExclusion` | `OwnerInv` |
| `NotifiedIsTruthful` | `NotifiedIffTransferred` | `WaitInv` |
| `OneListEach`, `QueuesDisciplined` | `AtMostOneList`, `QueueDiscipline` | `WaitInv`, `ListInv`, `CommitInv` |
| `NobodyStranded` | `Succession` | `ListInv`, `CommitInv`, `SuccInv` |
| `MonitorRefinement` (assumes `OnlyJavaCompetes`) | `ImplementsMonitor` | `LockInv`, `OwnerInv`, `WaitInv` |
| `UntimedRefinement` (assumes `OnlyJavaCompetes`, `Untimed`) | `ImplementsUntimedMonitor` | the same and `UntimedInv` |
| `SafepointProofs`: `StopInvariant`, `TypeCorrect`, `WorldIsStopped`, `WaitingIsExact`, `BlockAssertsHold` | `StopInv`, `TypeOK`, `StoppedWorld`, `WaitingExact`, `BlockAsserts` | `StopInv` |
| `NobodyEscapes` | the action property `NoEscape` | `StopInv` |
| `JniCountIsExact` | `JniCountExact` | `StopInv`, `CountInv` |
| `NothingLeaks` | `NoCriticalLeak` | `StopInv`, `LeakInv` |
| `ObjectMonitorProofs`: `TypeCorrect`, `OwnerIsExact` | `TypeOK`, `OwnerExact` | `ControlInv` |
| `ListsDisciplined`, `AssertsHold`, `DeflationIsSafe` | `QueueDiscipline`, `Asserts`, `DeflationSafe` | `MonitorInv` |
| `MonitorRefinement` | `ImplementsMonitor` | `MonitorInv` |
| `VMOperationsProofs`: `TypeCorrect`, `EverythingScanned`, `ModesRespected` | `TypeOK`, `AllScanned`, `SafepointModes` | `OpsInv` |
| `NothingDangles` | `NoDangling`, and with it `TracedAllocated` if `TraceLongCompiles` is off | `OpsInv` |
| `OperationsRefinement` | `ImplementsOperations` | `OpsInv` |
| `TaskQueueProofs`: `AssertsHold` (assumes `TagsLast`) | `Asserts` | `Inv` |
| `PoolRefinement` (assumes `TagsLast`) | `ImplementsWorkPool` | `Inv` |

The arguments, and why the invariants are stronger than what they prove:

- `NativeMonitor`. That the lock byte excludes is inductive once the locations of
  a thread say in which operation it is (`ControlInv`). The inner lock needs the
  thread that drains the cxq to find `_EntryList` empty when it installs the
  segment (`InnerInv`). Sneaking needs the safepoint: while there is one, Java
  threads stay in places where they cannot set `_owner` (`OwnerInv`), and so that
  only Java threads compete is a hypothesis of the theorem; `nm_sneak` shows that
  it cannot be dropped. `WaitInv` says where a waiter is from its `Notified` flag
  and the notification in progress, which `_WaitLock` covers; it is what makes
  "release and wait" one step of `MonitorSpec`. A thread is *committed* to the
  entry queue from its push, or from its notification, until it has the lock as
  the OnDeck thread; `CommitInv` says that the lists, the segment a draining
  thread has in its hands and `_OnDeck` hold exactly the committed threads, so
  that no thread sleeps outside the lists. For the succession (`SuccInv`) it is
  not enough that somebody is in `IUnlock`: a thread there that has read a list
  empty does not look at it again. The invariant names, for each of the cxq,
  `_EntryList` and `_OnDeck`, the locations from which it will still be seen.
  Without timed waits a waiter leaves its loop only with `Notified` set
  (`UntimedInv`), so the step in which a waiter unlinks itself never happens.
- `Safepoint`. `StoppedWorld` needs an account of what the VM thread may see of a
  thread whose stores are delayed: all values in its store buffer are states that
  allow the same judgement (`LocalInv`), a judgement stays true until the
  safepoint ends (`JudgeInv`), and `_waiting_to_block` counts exactly the threads
  that are still awaited (`WaitingExact`, whose cardinalities need the finiteness
  of the thread set). `NoCriticalLeak` needs to know, of every thread whose
  transition or blocked poll leads back to Java code, that it holds no region of
  its own, and that the region the VM thread entered for it belongs to a lazy
  native it has not left (`LeakInv`).
- `ObjectMonitor`. A thread that spins, tests `_succ` or exits does so on behalf
  of a caller; its *place* `At(t)` is where that caller is. The place determines
  `TState`, `_count`, `_waiters` and `_Responsible` (`PlaceAt`), `TState`
  determines the list (`ListAt`), and `INotify` holds `_WaitSetLock` while a
  thread is on none. For each of the steps it is proved once how it changes the
  place (`KeepsPlaces` in the module); the few steps that write a list are then
  treated one by one. The refinement classifies steps by what they do to the
  abstract monitor (`AbstractKind`).
- `VMOperations`. `OpsInv` places each operation: it is pending, in one list or in
  the hands of the VM thread, and then it is allocated and its blocked submitter
  has an open ticket; or it is being deleted; and the place of the VM thread
  determines `sync`, the drain list and the nested operation. The abstract state
  of `VMOperationsSpec` is a function of these places (`AbstractState`), and each
  step is shown to submit, start, finish or release one operation or to change
  nothing (`VMRefines`, `ClientRefines`).
- `TaskQueue`. `TaskQueueFacts` looks at one queue with the locals of its owner
  (the record `Q(w)`) and proves of each thing that can happen to it that `QueueInv`
  stays true and that the queue keeps what it owes to its thieves (`Kept`);
  `TaskQueueSteps` takes this to the steps of the workers. `QueueInv` reads the queue as
  its owner sees it, through the store buffer. Its bottom never gets more than
  `N - 2` ahead of its top (`SizeInv`), which is why a bottom just below the top
  can only be the lost last task of a pop. The stores that wait are ordered:
  reaching memory, they never lower the bottom below what thieves may count on,
  and no element waits behind a bottom that covers it (`OrderInv`). An age that
  waits is the repair after a lost pop: it is the oldest store, and until it
  arrives thieves find bottom below top (`AgeInv`). `PopInv` follows a pop from
  its store to its CAS. `ThiefInv` says what three reads at different times are
  worth: the age a thief has read is the victim's or an earlier one, and if it is
  still the victim's, the queue has a task, and the element read is the one at its
  top. That ages never come back needs the tag not to wrap. Each time the tag is
  counted a task has left the queue, and no task pays for more than two counts
  (one for the top that wrapped, one for a pop of the last task), so the tag stays
  at or below twice the number of tasks found, and `TagsLast`, a hypothesis of both
  theorems, says that this is below the number of tags: with the 32 bits of a tag
  on a 64-bit VM, fewer than 2^31 tasks for each queue. The code relies on less,
  that no tag comes back *while a thief is inside `pop_global`*, which is a matter
  of time and not of any state. For the terminator, a worker that offers has
  emptied its queue and its stack (`OwnerInv`), only the owner adds to them, and
  `_offered_termination` counts the offers (`OfferInv`); so when the last worker
  offers nothing is left. `PoolStep` then names the step of `WorkPool` that each
  step is: a pop takes its task in the re-read after the fence or in the CAS,
  a steal in the CAS, and every other step, a store that reaches memory included,
  changes nothing.

Leaves are proved by Zenon unless they name SMT, which is used where arithmetic,
sequences or many string cases occur.

Model-checked only:

- liveness (`CallsEnd`, `SafepointReached`, `ThreadsReleased`, `NoStranding`,
  `OperationsRun`, `SubmittersWoken`, `VMExits`, `Terminates`): fairness is beyond
  the prover.

## Not modelled

- `ObjectSynchronizer` (mark words, inflation, hash codes) and biased locking: a
  protocol of its own over object headers and the stacks of other threads. Only
  what it needs of a monitor is covered (`DeflationSafe`).
- The GC locker and `SuspendibleThreadSet`: small uses of the monitors. The count
  that a safepoint hands to the GC locker is covered (`JniCountExact`,
  `NoCriticalLeak`).
- The collectors beyond their task queues, class loading, the compile broker,
  code cache and sweeper: they need models of the heap, of stacks and of code that
  is patched while it runs.
- The compilers, the interpreter and the CPU ports, metaspace, utilities, JNI,
  JVMTI, services: sequential code, generated code, or I/O.
- Inside the modelled parts: rank checks and other debug code, statistics, events,
  the non-default policies of the `Knob_` variables, `jvm_raw_lock`,
  `TerminatorTerminator`. `PROJECT.json` lists them for each part.
