---------------------------- MODULE ObjectMonitor ----------------------------
(***************************************************************************)
(* The Java monitor, class ObjectMonitor of runtime/objectMonitor.cpp,     *)
(* with the exit that compiled code has inlined (fast_unlock of the x86_64 *)
(* macro assembler): one inflated monitor and the Java threads that enter, *)
(* exit, wait on and notify it while other threads suspend, resume and     *)
(* interrupt them.  All knobs have their defaults: Knob_ExitPolicy 0,      *)
(* Knob_QMode 0, Knob_MoveNotifyee 2, Knob_SpinSetSucc 1, SyncFlags 0.     *)
(*                                                                         *)
(* One step is one access to memory that another thread may change at the  *)
(* same time; what only the owner touches goes with the step before it.  A *)
(* thread stands for its ObjectWaiter and its ParkEvent.  Park is the step *)
(* that consumes the permit: NativeMonitor has its inside.                 *)
(***************************************************************************)
EXTENDS Naturals, Sequences, Lists

CONSTANTS Threads,    \* the Java threads
          NULL,
          Calls,      \* thread -> the operations it calls
          Suspends,   \* threads that others suspend and resume
          Interrupts, \* threads that others interrupt
          MP,         \* os::is_MP(): on one processor TrySpin returns at once
          MaxRec      \* bound on recursive entries

AllCalls == {"exit", "fastExit", "wait", "timedWait", "notify", "notifyAll", "completeExit"}

ASSUME MonitorAssumption ==
  /\ NULL \notin Threads
  /\ Calls \in [Threads -> SUBSET AllCalls]
  /\ Suspends \subseteq Threads /\ Interrupts \subseteq Threads
  /\ MP \in BOOLEAN
  /\ MaxRec \in Nat

VARIABLES
  owner, recursions,     \* _owner, _recursions
  cxq, EntryList,        \* _cxq, _EntryList: sequences of threads, head first
  WaitSet, WaitSetLock,  \* _WaitSet; holder of _WaitSetLock, or NULL
  succ, Responsible,     \* _succ, _Responsible
  count, waiters,        \* _count, _waiters: the threads counted there
  TState, notified,      \* thread -> TState and _notified of its ObjectWaiter
  event,                 \* thread -> 1 when its ParkEvent has a permit, else 0
  suspended,             \* thread -> is_external_suspend()
  interrupted,           \* thread -> interrupted()
  posting,               \* threads whose os::interrupt() is about to unpark them
  pc,                    \* thread -> where it is
  caller,                \* thread -> who called enter()
  exitTo,                \* thread -> where exit() returns to
  ret,                   \* thread -> where TrySpin or a test of _succ returns to
  wakee,                 \* thread -> the thread it notifies or wakes
  all,                   \* thread -> its notify is a notifyAll
  save, was              \* thread -> locals save and WasNotified of wait()

owning   == <<owner, recursions>>
queues   == <<cxq, EntryList>>
waitSet  == <<WaitSet, WaitSetLock, notified>>
heirs    == <<succ, Responsible>>
busy     == <<count, waiters>>
outside  == <<suspended, interrupted, posting>>
frames   == <<caller, exitTo, ret>>
locals   == <<wakee, all, save, was>>
vars     == <<owning, queues, waitSet, TState, heirs, busy, event, outside, pc, frames, locals>>

-----------------------------------------------------------------------------
EnterPcs   == {"inc", "tryEnter", "enqueue", "readEntry", "claim", "retry",
               "choosePark", "park", "parkTimed", "woken", "responsible",
               "entered", "acquired", "dropSucc", "suspendEnter"}
SpinPcs    == {"spin", "setSucc", "spinning", "spinAbort", "abortClear", "abortTry"}
SuccPcs    == {"testSucc", "clearSucc", "unlink", "reunlink"}
ExitPcs    == {"exit", "release", "rerelease", "readList", "readCxq", "readSucc",
               "reacquire", "pick", "drained", "setHeir", "drop", "wake"}
FastPcs    == {"fastList", "fastRelease", "fastSucc", "fastDrop", "fastRatify",
               "fastReacquire", "reexit"}
WaitPcs    == {"addWaiter", "waitIntr", "waitNotified", "waitPark", "waitSusp",
               "suspendWait", "waitTState", "waitUnlink", "readNotified",
               "waitEnter", "waitDone"}
ReenterPcs == {"reenterTry", "reenterPark", "reenterSusp", "suspendReenter",
               "reenterWoken", "reentered"}
NotifyPcs  == {"notify", "notifyMark", "notifyLink"}
Pcs        == {"out", "in", "completed"} \cup EnterPcs \cup SpinPcs \cup SuccPcs \cup ExitPcs
              \cup FastPcs \cup WaitPcs \cup ReenterPcs \cup NotifyPcs

Spinners == {"early", "enterI", "futile", "reenter"}

\* The type invariant.
TypeOK ==
  /\ owner \in Threads \cup {NULL} /\ recursions \in 0 .. MaxRec
  /\ cxq \in Seq(Threads) /\ EntryList \in Seq(Threads) /\ WaitSet \in Seq(Threads)
  /\ WaitSetLock \in Threads \cup {NULL}
  /\ succ \in Threads \cup {NULL} /\ Responsible \in Threads \cup {NULL}
  /\ count \subseteq Threads /\ waiters \subseteq Threads
  /\ TState \in [Threads -> {"RUN", "WAIT", "ENTER", "CXQ"}]
  /\ notified \in [Threads -> BOOLEAN]
  /\ event \in [Threads -> {0, 1}]
  /\ suspended \in [Threads -> BOOLEAN] /\ interrupted \in [Threads -> BOOLEAN]
  /\ posting \subseteq Threads
  /\ pc \in [Threads -> Pcs]
  /\ caller \in [Threads -> {"call", "wait", "reenter"}]
  /\ exitTo \in [Threads -> {"out", "waitIntr", "suspendEnter", "completed"}]
  /\ ret \in [Threads -> Pcs \cup Spinners]
  /\ wakee \in [Threads -> Threads \cup {NULL}]
  /\ all \in [Threads -> BOOLEAN]
  /\ save \in [Threads -> 0 .. MaxRec] /\ was \in [Threads -> BOOLEAN]

Init ==
  /\ owner = NULL /\ recursions = 0
  /\ cxq = <<>> /\ EntryList = <<>> /\ WaitSet = <<>> /\ WaitSetLock = NULL
  /\ succ = NULL /\ Responsible = NULL
  /\ count = {} /\ waiters = {}
  /\ TState = [t \in Threads |-> "RUN"] /\ notified = [t \in Threads |-> FALSE]
  /\ event = [t \in Threads |-> 0]
  /\ suspended = [t \in Threads |-> FALSE] /\ interrupted = [t \in Threads |-> FALSE]
  /\ posting = {}
  /\ pc = [t \in Threads |-> "out"]
  /\ caller = [t \in Threads |-> "call"] /\ exitTo = [t \in Threads |-> "out"]
  /\ ret = [t \in Threads |-> "out"]
  /\ wakee = [t \in Threads |-> NULL] /\ all = [t \in Threads |-> FALSE]
  /\ save = [t \in Threads |-> 0] /\ was = [t \in Threads |-> FALSE]

Goto(t, l) == pc' = [pc EXCEPT ![t] = l]

\* TryLock: a load of _owner and, if it is NULL, a CAS.
TryLock(t) == owner = NULL /\ owner' = t

\* A failed TryLock leaves _owner alone.
Taken == owner # NULL /\ UNCHANGED owner

-----------------------------------------------------------------------------
(* enter() and EnterI().                                                   *)

\* enter() returns to its caller.
Entered(t, who) ==
  /\ recursions' = IF who = "reenter" THEN save[t] ELSE recursions
  /\ save' = IF who = "reenter" THEN [save EXCEPT ![t] = 0] ELSE save
  /\ caller' = [caller EXCEPT ![t] = "call"]
  /\ Goto(t, IF who = "wait" THEN "waitDone" ELSE "in")

\* TrySpin is called: on one processor it fails at once.
Lost(t, from) ==
  /\ Goto(t, CASE from = "early" -> "inc" [] from = "enterI" -> "enqueue"
               [] from = "futile" -> "testSucc" [] from = "reenter" -> "reenterPark")
  /\ ret' = [ret EXCEPT ![t] = IF from = "futile" THEN "retry" ELSE "out"]

Won(from) ==
  CASE from = "early" -> "entered" [] from = "enterI" -> "acquired"
    [] from = "futile" -> "unlink" [] from = "reenter" -> "reunlink"

TrySpin(t, from) ==
  IF MP THEN Goto(t, "spin") /\ ret' = [ret EXCEPT ![t] = from] ELSE Lost(t, from)

\* The head of enter(): the CAS, then a first spin.
Enter(t, who) ==
  /\ \/ TryLock(t) /\ Entered(t, who) /\ UNCHANGED ret
     \/ /\ owner \notin {NULL, t} /\ UNCHANGED <<owning, save>>
        /\ TrySpin(t, "early") /\ caller' = [caller EXCEPT ![t] = who]
  /\ UNCHANGED <<queues, waitSet, TState, heirs, busy, event, outside, exitTo, wakee, all, was>>

EnterCall(t) == pc[t] = "out" /\ Enter(t, "call")

RecursiveEnter(t) ==
  /\ pc[t] = "in" /\ owner = t /\ recursions < MaxRec
  /\ recursions' = recursions + 1
  /\ UNCHANGED <<owner, queues, waitSet, TState, heirs, busy, event, outside, pc, frames, locals>>

\* A spin before any contention was counted has won the monitor.
SpunIn(t) ==
  /\ pc[t] = "entered" /\ Entered(t, caller[t])
  /\ UNCHANGED <<owner, queues, waitSet, TState, heirs, busy, event, outside, exitTo, ret, wakee, all, was>>

IncCount(t) ==
  /\ pc[t] = "inc"
  /\ count' = count \cup {t} /\ Goto(t, "tryEnter")
  /\ UNCHANGED <<owning, queues, waitSet, TState, heirs, waiters, event, outside, frames, locals>>

TryEnter(t) ==
  /\ pc[t] = "tryEnter"
  /\ \/ TryLock(t) /\ Goto(t, "acquired") /\ UNCHANGED ret
     \/ Taken /\ TrySpin(t, "enterI")
  /\ UNCHANGED <<recursions, queues, waitSet, TState, heirs, busy, event, outside, caller, exitTo, locals>>

\* Push on _cxq.  When the CAS of the push loses to another one, the thread
\* tries the lock before the next attempt.
Enqueue(t) ==
  /\ pc[t] = "enqueue"
  /\ event' = [event EXCEPT ![t] = 0]
  /\ \/ /\ cxq' = <<t>> \o cxq /\ TState' = [TState EXCEPT ![t] = "CXQ"]
        /\ Goto(t, IF cxq = <<>> THEN "readEntry" ELSE "retry")
        /\ UNCHANGED owner
     \/ TryLock(t) /\ Goto(t, "acquired") /\ UNCHANGED <<cxq, TState>>
  /\ UNCHANGED <<recursions, EntryList, waitSet, heirs, busy, outside, frames, locals>>

ReadEntry(t) ==
  /\ pc[t] = "readEntry"
  /\ Goto(t, IF EntryList = <<>> THEN "claim" ELSE "retry")
  /\ UNCHANGED <<owning, queues, waitSet, TState, heirs, busy, event, outside, frames, locals>>

\* Mutant: nobody becomes responsible.
ClaimNot(t) ==
  /\ pc[t] = "claim" /\ Goto(t, "retry")
  /\ UNCHANGED <<owning, queues, waitSet, TState, heirs, busy, event, outside, frames, locals>>

\* Become the responsible thread, unless there is one.
Claim(t) ==
  /\ pc[t] = "claim"
  /\ Responsible' = IF Responsible = NULL THEN t ELSE Responsible
  /\ Goto(t, "retry")
  /\ UNCHANGED <<owning, queues, waitSet, TState, succ, busy, event, outside, frames, locals>>

Retry(t) ==
  /\ pc[t] = "retry"
  /\ \/ TryLock(t) /\ Goto(t, "unlink")
     \/ Taken /\ Goto(t, "choosePark")
  /\ UNCHANGED <<recursions, queues, waitSet, TState, heirs, busy, event, outside, frames, locals>>

ChoosePark(t) ==
  /\ pc[t] = "choosePark"
  /\ Goto(t, IF Responsible = t THEN "parkTimed" ELSE "park")
  /\ UNCHANGED <<owning, queues, waitSet, TState, heirs, busy, event, outside, frames, locals>>

\* park() returns because of a permit.
Park(t) ==
  /\ pc[t] \in {"park", "parkTimed", "waitPark", "reenterPark"}
  /\ event[t] = 1 /\ event' = [event EXCEPT ![t] = 0]
  /\ Goto(t, CASE pc[t] \in {"park", "parkTimed"} -> "woken"
               [] pc[t] = "waitPark" -> "waitSusp" [] pc[t] = "reenterPark" -> "reenterSusp")
  /\ UNCHANGED <<owning, queues, waitSet, TState, heirs, busy, outside, frames, locals>>

\* park(millis) returns after its time; it swallows a permit that arrives
\* at the last moment.
ParkTimeout(t) ==
  /\ \/ pc[t] = "parkTimed" /\ Goto(t, "woken")
     \/ "timedWait" \in Calls[t] /\ pc[t] = "waitPark" /\ Goto(t, "waitSusp")
  /\ event' = [event EXCEPT ![t] = 0]
  /\ UNCHANGED <<owning, queues, waitSet, TState, heirs, busy, outside, frames, locals>>

Woken(t) ==
  /\ pc[t] = "woken"
  /\ \/ TryLock(t) /\ Goto(t, "unlink") /\ UNCHANGED ret
     \/ Taken /\ TrySpin(t, "futile")
  /\ UNCHANGED <<recursions, queues, waitSet, TState, heirs, busy, event, outside, caller, exitTo, locals>>

\* if (_succ == Self) _succ = NULL: a test, then a store.
TestSucc(t) ==
  /\ pc[t] = "testSucc"
  /\ \/ succ = t /\ Goto(t, "clearSucc") /\ UNCHANGED ret
     \/ succ # t /\ Goto(t, ret[t]) /\ ret' = [ret EXCEPT ![t] = "out"]
  /\ UNCHANGED <<owning, queues, waitSet, TState, heirs, busy, event, outside, caller, exitTo, locals>>

ClearSucc(t) ==
  /\ pc[t] = "clearSucc"
  /\ succ' = NULL
  /\ Goto(t, ret[t]) /\ ret' = [ret EXCEPT ![t] = "out"]
  /\ UNCHANGED <<owning, queues, waitSet, TState, Responsible, busy, event, outside, caller, exitTo, locals>>

\* The list s with t unlinked.
Without(s, t) == IF t \in In(s) THEN Omit(s, CHOOSE i \in DOMAIN s : s[i] = t) ELSE s

\* Mutant: always unlinks from _EntryList.
UnlinkEntry(t) ==
  /\ pc[t] \in {"unlink", "reunlink"}
  /\ EntryList' = Without(EntryList, t) /\ UNCHANGED cxq
  /\ Goto(t, "testSucc")
  /\ ret' = [ret EXCEPT ![t] = IF pc[t] = "unlink" THEN "responsible" ELSE "reentered"]
  /\ UNCHANGED <<owning, waitSet, TState, heirs, busy, event, outside, caller, exitTo, locals>>

\* UnlinkAfterAcquire.
Unlink(t) ==
  /\ pc[t] \in {"unlink", "reunlink"}
  /\ IF TState[t] = "ENTER" THEN EntryList' = Without(EntryList, t) /\ UNCHANGED cxq
                            ELSE cxq' = Without(cxq, t) /\ UNCHANGED EntryList
  /\ Goto(t, "testSucc")
  /\ ret' = [ret EXCEPT ![t] = IF pc[t] = "unlink" THEN "responsible" ELSE "reentered"]
  /\ UNCHANGED <<owning, waitSet, TState, heirs, busy, event, outside, caller, exitTo, locals>>

\* Mutant: the thread stays responsible.
DropResponsibleNot(t) ==
  /\ pc[t] = "responsible"
  /\ TState' = [TState EXCEPT ![t] = "RUN"]
  /\ Goto(t, "acquired")
  /\ UNCHANGED <<owning, queues, waitSet, heirs, busy, event, outside, frames, locals>>

DropResponsible(t) ==
  /\ pc[t] = "responsible"
  /\ Responsible' = IF Responsible = t THEN NULL ELSE Responsible
  /\ TState' = [TState EXCEPT ![t] = "RUN"]
  /\ Goto(t, "acquired")
  /\ UNCHANGED <<owning, queues, waitSet, succ, busy, event, outside, frames, locals>>

\* EnterI has the lock.  A thread suspended meanwhile gives it up again.
Acquired(t) ==
  /\ pc[t] = "acquired"
  /\ \/ /\ ~suspended[t] /\ count' = count \ {t}
        /\ Entered(t, caller[t])
     \/ /\ suspended[t] /\ recursions' = 0
        /\ Goto(t, "dropSucc") /\ UNCHANGED <<count, caller, save>>
  /\ UNCHANGED <<owner, queues, waitSet, TState, heirs, waiters, event, outside, exitTo, ret, wakee, all, was>>

DropSucc(t) ==
  /\ pc[t] = "dropSucc"
  /\ succ' = NULL
  /\ exitTo' = [exitTo EXCEPT ![t] = "suspendEnter"] /\ Goto(t, "reexit")
  /\ UNCHANGED <<owning, queues, waitSet, TState, Responsible, busy, event, outside, caller, ret, locals>>

\* java_suspend_self() returns when the thread has been resumed.
SuspendReturn(t) ==
  /\ ~suspended[t]
  /\ \/ pc[t] = "suspendEnter" /\ Goto(t, "tryEnter")
     \/ pc[t] = "suspendWait" /\ Goto(t, "waitTState")
     \/ pc[t] = "suspendReenter" /\ Goto(t, "reenterSusp")
  /\ UNCHANGED <<owning, queues, waitSet, TState, heirs, busy, event, outside, frames, locals>>

-----------------------------------------------------------------------------
(* TrySpin_VaryDuration.                                                   *)

\* The first probes win, or the thread does not spin (no time left in
\* _SpinDuration, or the owner does not run), or it starts to spin.
SpinStart(t) ==
  /\ pc[t] = "spin"
  /\ \/ /\ TryLock(t)
        /\ Goto(t, Won(ret[t])) /\ ret' = [ret EXCEPT ![t] = "out"]
     \/ Lost(t, ret[t]) /\ UNCHANGED owner
     \/ Goto(t, IF succ = NULL THEN "setSucc" ELSE "spinning") /\ UNCHANGED <<owner, ret>>
  /\ UNCHANGED <<recursions, queues, waitSet, TState, heirs, busy, event, outside, caller, exitTo, locals>>

SetSucc(t) ==
  /\ pc[t] = "setSucc"
  /\ succ' = t /\ Goto(t, "spinning")
  /\ UNCHANGED <<owning, queues, waitSet, TState, Responsible, busy, event, outside, frames, locals>>

Spin(t) ==
  /\ pc[t] = "spinning"
  /\ \/ /\ TryLock(t)
        /\ Goto(t, "testSucc") /\ ret' = [ret EXCEPT ![t] = Won(ret[t])]
     \/ Taken /\ succ = NULL /\ Goto(t, "setSucc") /\ UNCHANGED ret
  /\ UNCHANGED <<recursions, queues, waitSet, TState, heirs, busy, event, outside, caller, exitTo, locals>>

\* The spin ends: its count is used up, a safepoint is due, a CAS failed, or
\* the owner changed or stopped running.
SpinGiveUp(t) ==
  /\ pc[t] = "spinning" /\ Goto(t, "spinAbort")
  /\ UNCHANGED <<owning, queues, waitSet, TState, heirs, busy, event, outside, frames, locals>>

SpinAbort(t) ==
  /\ pc[t] = "spinAbort"
  /\ \/ succ = t /\ Goto(t, "abortClear") /\ UNCHANGED ret
     \/ succ # t /\ Lost(t, ret[t])
  /\ UNCHANGED <<owning, queues, waitSet, TState, heirs, busy, event, outside, caller, exitTo, locals>>

AbortClear(t) ==
  /\ pc[t] = "abortClear"
  /\ succ' = NULL /\ Goto(t, "abortTry")
  /\ UNCHANGED <<owning, queues, waitSet, TState, Responsible, busy, event, outside, frames, locals>>

AbortTry(t) ==
  /\ pc[t] = "abortTry"
  /\ \/ /\ TryLock(t)
        /\ Goto(t, Won(ret[t])) /\ ret' = [ret EXCEPT ![t] = "out"]
     \/ Taken /\ Lost(t, ret[t])
  /\ UNCHANGED <<recursions, queues, waitSet, TState, heirs, busy, event, outside, caller, exitTo, locals>>

-----------------------------------------------------------------------------
(* exit(), and the exit inlined in compiled code.                          *)

ExitCall(t) ==
  /\ "exit" \in Calls[t] /\ pc[t] = "in"
  /\ exitTo' = [exitTo EXCEPT ![t] = "out"] /\ Goto(t, "exit")
  /\ UNCHANGED <<owning, queues, waitSet, TState, heirs, busy, event, outside, caller, ret, locals>>

\* Mutant: the outermost exit decrements _recursions too.
ExitDecrements(t) ==
  /\ pc[t] \in {"exit", "reexit"}
  /\ recursions' = recursions - 1 /\ Responsible' = NULL
  /\ Goto(t, IF recursions # 0 THEN "in" ELSE IF pc[t] = "exit" THEN "release" ELSE "rerelease")
  /\ UNCHANGED <<owner, queues, waitSet, TState, succ, busy, event, outside, frames, locals>>

\* The head of exit(); "reexit" when the thread has the lock only for its
\* housekeeping.
Exit(t) ==
  /\ \/ /\ pc[t] = "exit" /\ recursions # 0
        /\ recursions' = recursions - 1 /\ Goto(t, "in") /\ UNCHANGED Responsible
     \/ /\ pc[t] \in {"exit", "reexit"} /\ recursions = 0
        /\ Responsible' = NULL
        /\ Goto(t, IF pc[t] = "exit" THEN "release" ELSE "rerelease")
        /\ UNCHANGED recursions
  /\ UNCHANGED <<owner, queues, waitSet, TState, succ, busy, event, outside, frames, locals>>

Release(t) ==
  /\ pc[t] \in {"release", "rerelease"}
  /\ owner' = NULL /\ Goto(t, "readList")
  /\ UNCHANGED <<recursions, queues, waitSet, TState, heirs, busy, event, outside, frames, locals>>

\* exit() returns.
Exited(t) == Goto(t, exitTo[t]) /\ exitTo' = [exitTo EXCEPT ![t] = "out"]

ReadList(t) ==
  /\ pc[t] = "readList"
  /\ Goto(t, IF EntryList = <<>> THEN "readCxq" ELSE "readSucc")
  /\ UNCHANGED <<owning, queues, waitSet, TState, heirs, busy, event, outside, frames, locals>>

ReadCxq(t) ==
  /\ pc[t] = "readCxq"
  /\ IF cxq = <<>> THEN Exited(t) ELSE Goto(t, "readSucc") /\ UNCHANGED exitTo
  /\ UNCHANGED <<owning, queues, waitSet, TState, heirs, busy, event, outside, caller, ret, locals>>

ReadSucc(t) ==
  /\ pc[t] = "readSucc"
  /\ IF succ # NULL THEN Exited(t) ELSE Goto(t, "reacquire") /\ UNCHANGED exitTo
  /\ UNCHANGED <<owning, queues, waitSet, TState, heirs, busy, event, outside, caller, ret, locals>>

\* Mutant: the lock is taken back by a plain store.
ReacquireStores(t) ==
  /\ pc[t] = "reacquire"
  /\ owner' = t /\ Goto(t, "pick")
  /\ UNCHANGED <<recursions, queues, waitSet, TState, heirs, busy, event, outside, frames, locals>>

Reacquire(t) ==
  /\ pc[t] = "reacquire"
  /\ \/ TryLock(t) /\ Goto(t, "pick") /\ UNCHANGED exitTo
     \/ Taken /\ Exited(t)
  /\ UNCHANGED <<recursions, queues, waitSet, TState, heirs, busy, event, outside, caller, ret, locals>>

\* The wakee is the head of _EntryList; an empty one takes over _cxq first.
Pick(t) ==
  /\ pc[t] = "pick"
  /\ \/ /\ EntryList # <<>>
        /\ wakee' = [wakee EXCEPT ![t] = Head(EntryList)] /\ Goto(t, "setHeir")
        /\ UNCHANGED <<queues, TState>>
     \/ /\ EntryList = <<>> /\ cxq = <<>>
        /\ Goto(t, "rerelease") /\ UNCHANGED <<queues, TState, wakee>>
     \/ /\ EntryList = <<>> /\ cxq # <<>>
        /\ EntryList' = cxq /\ cxq' = <<>>
        /\ TState' = [u \in Threads |-> IF u \in In(cxq) THEN "ENTER" ELSE TState[u]]
        /\ Goto(t, "drained") /\ UNCHANGED wakee
  /\ UNCHANGED <<owning, waitSet, heirs, busy, event, outside, frames, all, save, was>>

Drained(t) ==
  /\ pc[t] = "drained"
  /\ \/ succ # NULL /\ Goto(t, "rerelease") /\ UNCHANGED wakee
     \/ /\ succ = NULL /\ Goto(t, "setHeir")
        /\ wakee' = [wakee EXCEPT ![t] = Head(EntryList)]
  /\ UNCHANGED <<owning, queues, waitSet, TState, heirs, busy, event, outside, frames, all, save, was>>

\* ExitEpilog: name the heir, drop the lock, wake the heir.
SetHeir(t) ==
  /\ pc[t] = "setHeir"
  /\ succ' = wakee[t] /\ Goto(t, "drop")
  /\ UNCHANGED <<owning, queues, waitSet, TState, Responsible, busy, event, outside, frames, locals>>

Drop(t) ==
  /\ pc[t] = "drop"
  /\ owner' = NULL /\ Goto(t, "wake")
  /\ UNCHANGED <<recursions, queues, waitSet, TState, heirs, busy, event, outside, frames, locals>>

Wake(t) ==
  /\ pc[t] = "wake"
  /\ event' = [event EXCEPT ![wakee[t]] = 1]
  /\ wakee' = [wakee EXCEPT ![t] = NULL] /\ Exited(t)
  /\ UNCHANGED <<owning, queues, waitSet, TState, heirs, busy, outside, caller, ret, all, save, was>>

\* fast_unlock: the load of _recursions, and then of _cxq.
FastExitCall(t) ==
  /\ "fastExit" \in Calls[t] /\ pc[t] = "in"
  /\ exitTo' = [exitTo EXCEPT ![t] = "out"]
  /\ Goto(t, IF recursions # 0 THEN "exit" ELSE IF cxq = <<>> THEN "fastList" ELSE "fastSucc")
  /\ UNCHANGED <<owning, queues, waitSet, TState, heirs, busy, event, outside, caller, ret, locals>>

FastList(t) ==
  /\ pc[t] = "fastList"
  /\ Goto(t, IF EntryList = <<>> THEN "fastRelease" ELSE "fastSucc")
  /\ UNCHANGED <<owning, queues, waitSet, TState, heirs, busy, event, outside, frames, locals>>

\* The 1-0 exit: a store, with no fence and no look back.
FastRelease(t) ==
  /\ pc[t] = "fastRelease"
  /\ owner' = NULL /\ Goto(t, "out")
  /\ UNCHANGED <<recursions, queues, waitSet, TState, heirs, busy, event, outside, frames, locals>>

FastSucc(t) ==
  /\ pc[t] = "fastSucc"
  /\ Goto(t, IF succ = NULL THEN "exit" ELSE "fastDrop")
  /\ UNCHANGED <<owning, queues, waitSet, TState, heirs, busy, event, outside, frames, locals>>

FastDrop(t) ==
  /\ pc[t] = "fastDrop"
  /\ owner' = NULL /\ Goto(t, "fastRatify")
  /\ UNCHANGED <<recursions, queues, waitSet, TState, heirs, busy, event, outside, frames, locals>>

FastRatify(t) ==
  /\ pc[t] = "fastRatify"
  /\ Goto(t, IF succ # NULL THEN "out" ELSE "fastReacquire")
  /\ UNCHANGED <<owning, queues, waitSet, TState, heirs, busy, event, outside, frames, locals>>

FastReacquire(t) ==
  /\ pc[t] = "fastReacquire"
  /\ \/ TryLock(t) /\ Goto(t, "reexit")
     \/ Taken /\ Goto(t, "out")
  /\ UNCHANGED <<recursions, queues, waitSet, TState, heirs, busy, event, outside, frames, locals>>

\* complete_exit() and reenter() of the class loader's deadlock handling.
CompleteExit(t) ==
  /\ "completeExit" \in Calls[t] /\ pc[t] = "in"
  /\ save' = [save EXCEPT ![t] = recursions] /\ recursions' = 0
  /\ exitTo' = [exitTo EXCEPT ![t] = "completed"] /\ Goto(t, "exit")
  /\ UNCHANGED <<owner, queues, waitSet, TState, heirs, busy, event, outside, caller, ret, wakee, all, was>>

Reenter(t) == pc[t] = "completed" /\ Enter(t, "reenter")

-----------------------------------------------------------------------------
(* wait() and ReenterI().                                                  *)

\* A pending interrupt ends wait() before it gives the lock up.
WaitCall(t) ==
  /\ Calls[t] \cap {"wait", "timedWait"} # {} /\ pc[t] = "in"
  /\ \/ interrupted[t] /\ interrupted' = [interrupted EXCEPT ![t] = FALSE] /\ UNCHANGED pc
     \/ ~interrupted[t] /\ Goto(t, "addWaiter") /\ UNCHANGED interrupted
  /\ UNCHANGED <<owning, queues, waitSet, TState, heirs, busy, event, suspended, posting, frames, locals>>

\* Mutant: the waiter is not counted.
AddWaiterUncounted(t) ==
  /\ pc[t] = "addWaiter" /\ WaitSetLock = NULL
  /\ TState' = [TState EXCEPT ![t] = "WAIT"] /\ notified' = [notified EXCEPT ![t] = FALSE]
  /\ event' = [event EXCEPT ![t] = 0]
  /\ WaitSet' = Append(WaitSet, t)
  /\ Responsible' = NULL
  /\ save' = [save EXCEPT ![t] = recursions] /\ recursions' = 0
  /\ exitTo' = [exitTo EXCEPT ![t] = "waitIntr"] /\ Goto(t, "exit")
  /\ UNCHANGED <<owner, queues, WaitSetLock, succ, busy, outside, caller, ret, wakee, all, was>>

\* The event is reset before the thread joins the wait set.
AddWaiter(t) ==
  /\ pc[t] = "addWaiter" /\ WaitSetLock = NULL
  /\ TState' = [TState EXCEPT ![t] = "WAIT"] /\ notified' = [notified EXCEPT ![t] = FALSE]
  /\ event' = [event EXCEPT ![t] = 0]
  /\ WaitSet' = Append(WaitSet, t)
  /\ Responsible' = NULL
  /\ save' = [save EXCEPT ![t] = recursions] /\ recursions' = 0
  /\ waiters' = waiters \cup {t}
  /\ exitTo' = [exitTo EXCEPT ![t] = "waitIntr"] /\ Goto(t, "exit")
  /\ UNCHANGED <<owner, queues, WaitSetLock, succ, count, outside, caller, ret, wakee, all, was>>

\* The tests before park(), and the one of suspension after it.
WaitTest(t) ==
  /\ \/ pc[t] = "waitIntr" /\ Goto(t, IF interrupted[t] THEN "waitSusp" ELSE "waitNotified")
     \/ pc[t] = "waitNotified" /\ Goto(t, IF notified[t] THEN "waitSusp" ELSE "waitPark")
     \/ pc[t] = "waitSusp" /\ Goto(t, IF suspended[t] THEN "suspendWait" ELSE "waitTState")
  /\ UNCHANGED <<owning, queues, waitSet, TState, heirs, busy, event, outside, frames, locals>>

\* Still on the wait set?  The first look takes no lock.
WaitTState(t) ==
  /\ pc[t] = "waitTState"
  /\ \/ TState[t] = "WAIT" /\ Goto(t, "waitUnlink") /\ UNCHANGED ret
     \/ /\ TState[t] # "WAIT" /\ Goto(t, "testSucc")
        /\ ret' = [ret EXCEPT ![t] = "readNotified"]
  /\ UNCHANGED <<owning, queues, waitSet, TState, heirs, busy, event, outside, caller, exitTo, locals>>

WaitUnlink(t) ==
  /\ pc[t] = "waitUnlink" /\ WaitSetLock = NULL
  /\ \/ /\ TState[t] = "WAIT"
        /\ WaitSet' = Without(WaitSet, t) /\ TState' = [TState EXCEPT ![t] = "RUN"]
     \/ TState[t] # "WAIT" /\ UNCHANGED <<WaitSet, TState>>
  /\ Goto(t, "testSucc") /\ ret' = [ret EXCEPT ![t] = "readNotified"]
  /\ UNCHANGED <<owning, queues, WaitSetLock, notified, heirs, busy, event, outside, caller, exitTo, locals>>

ReadNotified(t) ==
  /\ pc[t] = "readNotified"
  /\ was' = [was EXCEPT ![t] = notified[t]] /\ Goto(t, "waitEnter")
  /\ UNCHANGED <<owning, queues, waitSet, TState, heirs, busy, event, outside, frames, wakee, all, save>>

WaitEnter(t) ==
  /\ pc[t] = "waitEnter"
  /\ \/ TState[t] = "RUN" /\ Enter(t, "wait")
     \/ /\ TState[t] # "RUN" /\ Goto(t, "reenterTry")
        /\ UNCHANGED <<owning, queues, waitSet, TState, heirs, busy, event, outside, frames, locals>>

ReenterTry(t) ==
  /\ pc[t] = "reenterTry"
  /\ \/ TryLock(t) /\ Goto(t, "reunlink") /\ UNCHANGED ret
     \/ Taken /\ TrySpin(t, "reenter")
  /\ UNCHANGED <<recursions, queues, waitSet, TState, heirs, busy, event, outside, caller, exitTo, locals>>

ReenterSusp(t) ==
  /\ pc[t] = "reenterSusp"
  /\ \/ ~suspended[t] /\ Goto(t, "reenterWoken") /\ UNCHANGED ret
     \/ /\ suspended[t] /\ Goto(t, "testSucc")
        /\ ret' = [ret EXCEPT ![t] = "suspendReenter"]
  /\ UNCHANGED <<owning, queues, waitSet, TState, heirs, busy, event, outside, caller, exitTo, locals>>

ReenterWoken(t) ==
  /\ pc[t] = "reenterWoken"
  /\ \/ TryLock(t) /\ Goto(t, "reunlink") /\ UNCHANGED ret
     \/ Taken /\ Goto(t, "testSucc") /\ ret' = [ret EXCEPT ![t] = "reenterTry"]
  /\ UNCHANGED <<recursions, queues, waitSet, TState, heirs, busy, event, outside, caller, exitTo, locals>>

Reentered(t) ==
  /\ pc[t] = "reentered"
  /\ TState' = [TState EXCEPT ![t] = "RUN"] /\ Goto(t, "waitDone")
  /\ UNCHANGED <<owning, queues, waitSet, heirs, busy, event, outside, frames, locals>>

\* Mutant: the thread stays counted in _waiters.
WaitDoneCounted(t) ==
  /\ pc[t] = "waitDone"
  /\ recursions' = save[t]
  /\ interrupted' = [interrupted EXCEPT ![t] = @ /\ was[t]]
  /\ Goto(t, "in")
  /\ was' = [was EXCEPT ![t] = FALSE] /\ save' = [save EXCEPT ![t] = 0]
  /\ notified' = [notified EXCEPT ![t] = FALSE]
  /\ UNCHANGED <<owner, queues, WaitSet, WaitSetLock, TState, heirs, busy, event, suspended, posting, frames, wakee, all>>

\* The epilogue of wait(): a thread that was not notified looks for an
\* interrupt, clears it and throws InterruptedException.
WaitDone(t) ==
  /\ pc[t] = "waitDone"
  /\ recursions' = save[t] /\ waiters' = waiters \ {t}
  /\ interrupted' = [interrupted EXCEPT ![t] = @ /\ was[t]]
  /\ Goto(t, "in")
  /\ was' = [was EXCEPT ![t] = FALSE] /\ save' = [save EXCEPT ![t] = 0]
  /\ notified' = [notified EXCEPT ![t] = FALSE]
  /\ UNCHANGED <<owner, queues, WaitSet, WaitSetLock, TState, heirs, count, event, suspended, posting, frames, wakee, all>>

-----------------------------------------------------------------------------
(* notify() and notifyAll().                                               *)

NotifyCall(t) ==
  /\ pc[t] = "in" /\ WaitSet # <<>>
  /\ \E a \in BOOLEAN :
       /\ (IF a THEN "notifyAll" ELSE "notify") \in Calls[t]
       /\ all' = [all EXCEPT ![t] = a]
  /\ Goto(t, "notify")
  /\ UNCHANGED <<owning, queues, waitSet, TState, heirs, busy, event, outside, frames, wakee, save, was>>

\* INotify: dequeue the first waiter and move it to the entry queues.
Notify(t) ==
  /\ pc[t] = "notify" /\ WaitSetLock = NULL
  /\ \/ /\ WaitSet = <<>> /\ Goto(t, "in") /\ all' = [all EXCEPT ![t] = FALSE]
        /\ UNCHANGED <<WaitSet, WaitSetLock, TState, wakee>>
     \/ /\ WaitSet # <<>> /\ WaitSetLock' = t
        /\ wakee' = [wakee EXCEPT ![t] = Head(WaitSet)] /\ WaitSet' = Tail(WaitSet)
        /\ TState' = [TState EXCEPT ![Head(WaitSet)] = "ENTER"]
        /\ Goto(t, "notifyMark") /\ UNCHANGED all
  /\ UNCHANGED <<owning, queues, notified, heirs, busy, event, outside, frames, save, was>>

NotifyMark(t) ==
  /\ pc[t] = "notifyMark"
  /\ notified' = [notified EXCEPT ![wakee[t]] = TRUE] /\ Goto(t, "notifyLink")
  /\ UNCHANGED <<owning, queues, WaitSet, WaitSetLock, TState, heirs, busy, event, outside, frames, locals>>

NotifyLink(t) ==
  /\ pc[t] = "notifyLink"
  /\ \/ EntryList = <<>> /\ EntryList' = <<wakee[t]>> /\ UNCHANGED <<cxq, TState>>
     \/ /\ EntryList # <<>> /\ cxq' = <<wakee[t]>> \o cxq
        /\ TState' = [TState EXCEPT ![wakee[t]] = "CXQ"] /\ UNCHANGED EntryList
  /\ WaitSetLock' = NULL
  /\ wakee' = [wakee EXCEPT ![t] = NULL]
  /\ \/ all[t] /\ WaitSet # <<>> /\ Goto(t, "notify") /\ UNCHANGED all
     \/ ~(all[t] /\ WaitSet # <<>>) /\ Goto(t, "in") /\ all' = [all EXCEPT ![t] = FALSE]
  /\ UNCHANGED <<owning, WaitSet, notified, heirs, busy, event, outside, frames, save, was>>

-----------------------------------------------------------------------------
(* What other threads do to a thread.                                      *)

Suspend(t) ==
  /\ t \in Suspends
  /\ suspended' = [suspended EXCEPT ![t] = ~@]
  /\ UNCHANGED <<owning, queues, waitSet, TState, heirs, busy, event, interrupted, posting, pc, frames, locals>>

\* os::interrupt: the flag, then the unpark.
Interrupt(t) ==
  /\ t \in Interrupts \ posting
  /\ interrupted' = [interrupted EXCEPT ![t] = TRUE] /\ posting' = posting \cup {t}
  /\ UNCHANGED <<owning, queues, waitSet, TState, heirs, busy, event, suspended, pc, frames, locals>>

InterruptUnpark(t) ==
  /\ t \in posting
  /\ posting' = posting \ {t} /\ event' = [event EXCEPT ![t] = 1]
  /\ UNCHANGED <<owning, queues, waitSet, TState, heirs, busy, suspended, interrupted, pc, frames, locals>>

Call(t) ==
  \/ EnterCall(t) \/ RecursiveEnter(t) \/ ExitCall(t) \/ FastExitCall(t)
  \/ CompleteExit(t) \/ WaitCall(t) \/ NotifyCall(t)

EnterStep(t) ==
  \/ SpunIn(t) \/ IncCount(t) \/ TryEnter(t) \/ Enqueue(t) \/ ReadEntry(t) \/ Claim(t)
  \/ Retry(t) \/ ChoosePark(t) \/ Park(t) \/ ParkTimeout(t) \/ Woken(t) \/ TestSucc(t)
  \/ ClearSucc(t) \/ Unlink(t) \/ DropResponsible(t) \/ Acquired(t) \/ DropSucc(t)
  \/ SuspendReturn(t)

SpinStep(t) ==
  \/ SpinStart(t) \/ SetSucc(t) \/ Spin(t) \/ SpinGiveUp(t) \/ SpinAbort(t)
  \/ AbortClear(t) \/ AbortTry(t)

ExitStep(t) ==
  \/ Exit(t) \/ Release(t) \/ ReadList(t) \/ ReadCxq(t) \/ ReadSucc(t) \/ Reacquire(t)
  \/ Pick(t) \/ Drained(t) \/ SetHeir(t) \/ Drop(t) \/ Wake(t)
  \/ FastList(t) \/ FastRelease(t) \/ FastSucc(t) \/ FastDrop(t) \/ FastRatify(t)
  \/ FastReacquire(t) \/ Reenter(t)

WaitStep(t) ==
  \/ AddWaiter(t) \/ WaitTest(t) \/ WaitTState(t) \/ WaitUnlink(t) \/ ReadNotified(t)
  \/ WaitEnter(t) \/ ReenterTry(t) \/ ReenterSusp(t) \/ ReenterWoken(t) \/ Reentered(t)
  \/ WaitDone(t) \/ Notify(t) \/ NotifyMark(t) \/ NotifyLink(t)

Step(t) == EnterStep(t) \/ SpinStep(t) \/ ExitStep(t) \/ WaitStep(t)

Outside(t) == Suspend(t) \/ Interrupt(t) \/ InterruptUnpark(t)

Next == \E t \in Threads : Call(t) \/ Step(t) \/ Outside(t)

Spec == Init /\ [][Next]_vars

-----------------------------------------------------------------------------
(* Properties.                                                             *)

\* The thread is inside the monitor as its caller sees it.
Inside(t) ==
  pc[t] \in {"in", "exit", "release", "fastList", "fastRelease", "fastSucc", "fastDrop", "addWaiter"}
            \cup NotifyPcs

\* The thread acts as the owner: inside, on its way in, or for the
\* housekeeping of exit().
Owning(t) ==
  \/ Inside(t)
  \/ pc[t] \in {"entered", "unlink", "reunlink", "responsible", "acquired", "dropSucc", "reexit",
                 "rerelease", "pick", "drained", "setHeir", "drop", "reentered", "waitDone"}
  \/ /\ pc[t] \in {"testSucc", "clearSucc"}
     /\ ret[t] \in {"entered", "acquired", "unlink", "reunlink", "responsible", "reentered"}

\* A thread that acts as the owner is the owner, in enter(), exit(), wait(),
\* notify() and fast_unlock alike, and the owner is always such a thread:
\* the lock that exit() takes back for its housekeeping, or that a suspended
\* thread gives up again, is never lost or held by two.
OwnerExact == \A t \in Threads : Owning(t) <=> owner = t

Parked(t) == pc[t] \in {"park", "parkTimed", "reenterPark"}

\* Every thread is on at most one of _WaitSet, _EntryList and _cxq, and once;
\* its TState names the list, so that UnlinkAfterAcquire and wait() unlink it
\* from the right one; and a thread that parks to enter is on one of them.
QueueDiscipline ==
  /\ Injective(WaitSet \o EntryList \o cxq)
  /\ \A t \in Threads :
       /\ t \in In(WaitSet) <=> TState[t] = "WAIT"
       /\ t \in In(EntryList) => TState[t] = "ENTER"
       /\ t \in In(cxq) => TState[t] = "CXQ"
       /\ Parked(t) \/ pc[t] \in {"unlink", "reunlink"} =>
            \/ t \in In(EntryList) \cup In(cxq)
            \/ \E u \in Threads : pc[u] \in NotifyPcs /\ wakee[u] = t

\* The asserts and guarantees of enter, EnterI, ReenterI, wait and exit.
Asserts ==
  /\ owner = NULL => recursions = 0
  /\ \A t \in Threads :
       /\ Inside(t) \/ pc[t] = "waitDone" => succ # t /\ TState[t] \in {"RUN", "WAIT"}
       /\ pc[t] \in {"tryEnter", "enqueue", "acquired", "waitDone"} => Responsible # t
       /\ pc[t] \in {"waitDone", "reexit", "unlink", "reunlink"} => recursions = 0
       /\ pc[t] \in {"readNotified", "waitEnter"} => TState[t] # "WAIT"
       /\ pc[t] = "drained" => EntryList # <<>>

\* A safepoint may find the thread here, with the monitor still to touch: in
\* Java code inside the monitor; in _thread_blocked, where enter() is from
\* ThreadBlockInVM on (EnterI with its spins, tests of _succ and unlinking,
\* and the exit() of a thread that was suspended meanwhile), and where wait()
\* and ReenterI park; in the event that wait() posts before it enters again.
MaySafepoint(t) ==
  \/ pc[t] \in (EnterPcs \ {"inc", "entered"}) \cup {"in", "unlink", "waitIntr", "waitNotified", "waitPark",
               "waitSusp", "suspendWait", "waitEnter", "reenterPark", "reenterSusp", "suspendReenter"}
  \/ pc[t] \in SpinPcs /\ ret[t] \in {"enterI", "futile"}
  \/ /\ pc[t] \in {"testSucc", "clearSucc"}
     /\ ret[t] \in {"acquired", "unlink", "retry", "responsible", "suspendReenter"}
  \/ pc[t] \in ExitPcs \cup {"reexit"} /\ exitTo[t] = "suspendEnter"

is_busy == count # {} \/ waiters # {} \/ owner # NULL \/ cxq # <<>> \/ EntryList # <<>>

\* deflate_monitor() reclaims a monitor that is not busy at a safepoint: no
\* thread that still has to touch it may be stopped there then.
DeflationSafe == (\E t \in Threads : MaySafepoint(t)) => is_busy

\* "Monitor notify has precedence over thread interrupt": a waiter that
\* notify() took from the wait set does not end in InterruptedException.
NotifyPrecedence == \A t \in Threads : pc[t] = "waitDone" /\ notified[t] => was[t]

-----------------------------------------------------------------------------
(* A monitor as its clients see it, and progress.                          *)

holder    == IF owner # NULL /\ Inside(owner) THEN owner ELSE NULL
waiting   == {t \in In(WaitSet) : ~Inside(t)}
returning == waiters \ In(WaitSet)

M == INSTANCE MonitorSpec

\* enter, exit, wait, notify and notifyAll are those of a monitor: wait()
\* gives the lock up and registers in one step, and comes back only after a
\* notification, a timeout, an interrupt or a spurious wakeup.
ImplementsMonitor == M!TimedSpec

\* The operating system runs every thread; a timed park comes back; a spin is
\* bounded.  Threads may stay in the monitor or out of it for ever.
FairSpec ==
  /\ Spec
  /\ \A t \in Threads : WF_vars(Step(t))
  /\ \A t \in Interrupts : WF_vars(InterruptUnpark(t))
  /\ \A t \in (IF MP THEN Threads ELSE {}) : SF_vars(SpinGiveUp(t))

\* No stranding: a free monitor with threads queued on it does not stay
\* free, although fast_unlock drops it without looking back and exit() wakes
\* nobody when it sees an heir.
NoStranding == (owner = NULL /\ EntryList \o cxq # <<>>) ~> owner # NULL
=============================================================================
