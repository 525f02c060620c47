--------------------------- MODULE SafepointProofs ---------------------------
(***************************************************************************)
(* Proofs about Safepoint.  A thread is summarised by where it is, by the  *)
(* state it last stored (own) and by the states the VM thread may still    *)
(* read (Vals).  Once the store buffers have been serialized, a thread     *)
(* with "native" or "blocked" among its Vals is in a zone it cannot leave  *)
(* without polling _state or taking Threads_lock, and one with "vm" among  *)
(* them has still to call back.                                            *)
(***************************************************************************)
EXTENDS Safepoint, FiniteSetTheorems, TLAPS

\* The prover of every leaf that does not name one.
USE ZenonT(60)

\* The states of t that memory holds or will hold.
Vals(t) == {vis[t]} \cup {buf[t][i] : i \in DOMAIN buf[t]}

\* The VM thread judges threads, or has judged them.
Judging == vpc \in {"spin", "decide", "waiting", "stopped", "disarmed"}

\* From here t cannot go on without polling _state or taking Threads_lock.
SafeZone(t) ==
  \/ pc[t] = "run" /\ own(t) \in {"native", "blocked"}
  \/ pc[t] = "check" /\ own(t) = "blocked_trans"
  \/ pc[t] \in {"checkNative", "suspTest", "restore", "check2", "blockThreads"}
  \/ pc[t] = "suspend" /\ own(t) \in {"native", "blocked"}
  \/ pc[t] = "suspended" /\ (suspended[t] \/ own(t) \in {"native", "blocked"})
  \/ pc[t] = "special" /\ own(t) = "native"
  \/ pc[t] = "block" /\ own(t) \in {"native_trans", "blocked_trans"}

\* From here t cannot go on without calling back.
VMZone(t) ==
  \/ pc[t] \in {"run", "lazyUnlock", "blockLock"} /\ own(t) = "vm"
  \/ pc[t] \in {"check", "block"} /\ own(t) = "vm_trans"

\* The state a thread has stored where it is.
LocOK(t) ==
  /\ pc[t] = "run" => own(t) \in Stable
  /\ pc[t] = "check" => own(t) \in {"new_trans", "vm_trans", "blocked_trans"}
  /\ pc[t] \in {"checkNative", "checkFlags", "suspTest", "check2"} => own(t) = "native_trans"
  /\ pc[t] = "setTo" => own(t) \in {"new_trans", "native_trans", "vm_trans", "blocked_trans"}
  /\ pc[t] \in {"suspend", "suspended"} => own(t) \in {"blocked", "Java", "native", "native_trans", "new_trans"}
  /\ pc[t] = "restore" => own(t) = "blocked"
  /\ pc[t] = "special" => own(t) \in {"Java", "native", "native_trans", "new_trans"}
  /\ pc[t] = "block" =>
       own(t) \in {"new_trans", "native_trans", "vm_trans", "blocked_trans", "Java"}
  /\ pc[t] = "blockLock" => own(t) = "vm" /\ orig[t] \in {"vm_trans", "Java"}
  /\ pc[t] = "blockThreads" =>
       own(t) = "blocked" /\ orig[t] \in {"new_trans", "native_trans", "vm_trans", "blocked_trans", "Java"}
  /\ pc[t] = "lazyExit" => own(t) = "Java"
  /\ pc[t] = "lazyUnlock" => own(t) = "vm"
  /\ pc[t] \in {"blockLock", "blockThreads"} => t \in threads
  /\ pc[t] = "none" => t \notin threads /\ own(t) = "new"
  /\ suspended[t] => pc[t] = "suspended"

\* The count of critical regions is never short of the flag.
CritOK(t) ==
  /\ unlockFlag[t] => crit[t] >= 1
  /\ pc[t] = "lazyUnlock" => unlockFlag[t]

\* A lazy critical native is left for Java code only.
LazyOK(t) ==
  lazy[t] => \/ pc[t] = "run" /\ own(t) = "native"
             \/ /\ dest[t] = "Java"
                /\ \/ pc[t] \in {"checkNative", "checkFlags", "suspTest", "check2", "restore",
                                "lazyExit", "lazyUnlock"}
                   \/ pc[t] \in {"setTo", "block", "special"} /\ own(t) = "native_trans"
                   \/ pc[t] \in {"suspend", "suspended"} /\ own(t) \in {"blocked", "native_trans"}
                   \/ pc[t] = "blockThreads" /\ orig[t] = "native_trans"

\* A fence after each transition store keeps the buffer free of stale states.
MembarOK(t) ==
  UseMembar => /\ "native" \in Vals(t) \/ "blocked" \in Vals(t) => own(t) \in {"native", "blocked"}
               /\ "vm" \in Vals(t) => own(t) = "vm"

\* What the VM thread may read of t is true of t.
SeenOK(t) ==
  /\ "native" \in Vals(t) \/ "blocked" \in Vals(t) => SafeZone(t)
  /\ "vm" \in Vals(t) => VMZone(t)

\* A thread at the polling page has not been judged.
PollOK(t) == pc[t] = "block" /\ own(t) = "Java" => armed /\ type[t] = "running"

\* The thread-local part of the invariant.
LocalInv ==
  /\ \A t \in Threads : LocOK(t) /\ CritOK(t) /\ LazyOK(t) /\ MembarOK(t)
  /\ \A t \in threads : PollOK(t) /\ (Judging => SeenOK(t))

\* Where the VM thread is, _state and the polling page.
SyncInv ==
  /\ syncState = "synchronizing" <=> vpc \in {"serialize", "spin", "decide", "waiting"}
  /\ syncState = "synchronized" <=> vpc \in {"stopped", "disarmed"}
  /\ armed => vpc \in {"spin", "decide", "waiting", "stopped"}
  /\ vpc = "decide" => seen.thread \in threads /\ type[seen.thread] = "running"

\* What the VM thread saw of a thread, and what it decided, is true.
JudgeInv ==
  /\ Judging => \A t \in threads :
       /\ type[t] = "at_safepoint" => SafeZone(t)
       /\ type[t] = "call_back" /\ ~calledBack[t] => VMZone(t)
  /\ vpc = "decide" => /\ seen.state \in {"native", "blocked"} => SafeZone(seen.thread)
                       /\ seen.state = "vm" => VMZone(seen.thread)

\* The types: reset before Threads_lock is released, all set before the wait.
TypesInv ==
  /\ \A t \in Threads :
       /\ type[t] # "running" => t \in threads /\ (Judging \/ vpc = "restart")
       /\ calledBack[t] => type[t] = "call_back" /\ pc[t] = "blockThreads"
  /\ vpc = "waiting" => \A t \in threads : type[t] # "running"
  /\ vpc \in {"stopped", "disarmed"} =>
       \A t \in threads : type[t] = "at_safepoint" \/ (type[t] = "call_back" /\ calledBack[t])
  /\ vpc = "restart" => \A t \in threads : type[t] = "call_back" => calledBack[t]

StopInv == TypeOK /\ LocalInv /\ SyncInv /\ JudgeInv /\ TypesInv /\ WaitingExact

-----------------------------------------------------------------------------
(* Stores.                                                                 *)

\* The other threads' states stay as they are.
Others(t) == \A u \in Threads \ {t} : own(u)' = own(u) /\ Vals(u)' = Vals(u)

StoreTypes == vis \in [Threads -> States] /\ buf \in [Threads -> Seq(States)]

\* A sequence of one element.
LEMMA TailEmpty ==
  ASSUME NEW S, NEW b \in Seq(S), b # << >>, Tail(b) = << >>
  PROVE  Len(b) = 1
<1>1. Len(Tail(b)) = Len(b) - 1 /\ Len(b) \in Nat
  BY SMTT(60)
<1>2. Len(<< >>) = 0
  OBVIOUS
<1>3. Len(Tail(b)) = 0
  BY <1>2, Zenon
<1> QED BY SMTT(60), <1>1, <1>3

\* A thread's own state is one the VM thread will see.
LEMMA OwnInVals ==
  ASSUME StoreTypes, NEW t \in Threads
  PROVE  own(t) \in Vals(t) /\ own(t) \in States
<1>1. CASE buf[t] = << >>
  BY <1>1 DEF own, Vals, StoreTypes
<1>2. CASE buf[t] # << >>
  <2>1. buf[t] \in Seq(States) /\ Len(buf[t]) \in DOMAIN buf[t]
    BY SMTT(60), <1>2 DEF StoreTypes
  <2>2. buf[t][Len(buf[t])] \in States
    BY SMTT(60), <2>1
  <2> QED BY <1>2, <2>1, <2>2 DEF own, Vals
<1> QED BY <1>1, <1>2

\* A buffered store adds a state to those the VM thread may see.
LEMMA StoreEffect ==
  ASSUME StoreTypes, NEW t \in Threads, NEW s \in States, Store(t, s)
  PROVE  StoreTypes' /\ Others(t) /\ own(t)' = s /\ Vals(t)' \subseteq Vals(t) \cup {s}
<1>1. /\ buf' = [buf EXCEPT ![t] = Append(buf[t], s)] /\ vis' = vis
      /\ buf[t] \in Seq(States)
  BY DEF Store, StoreTypes
<1>2. /\ Append(buf[t], s) \in Seq(States) /\ Append(buf[t], s) # << >>
      /\ Append(buf[t], s)[Len(Append(buf[t], s))] = s
      /\ \A i \in DOMAIN Append(buf[t], s) :
           \/ i \in DOMAIN buf[t] /\ Append(buf[t], s)[i] = buf[t][i]
           \/ Append(buf[t], s)[i] = s
  BY SMTT(60), <1>1
<1>3. buf'[t] = Append(buf[t], s)
  BY <1>1 DEF StoreTypes
<1>4. StoreTypes'
  BY <1>1, <1>2 DEF StoreTypes
<1>5. own(t)' = s
  BY <1>2, <1>3 DEF own
<1>6. Vals(t)' \subseteq Vals(t) \cup {s}
  BY <1>1, <1>2, <1>3 DEF Vals
<1>7. Others(t)
  BY <1>1 DEF Others, own, Vals, StoreTypes
<1> QED BY <1>4, <1>5, <1>6, <1>7

\* A store with a fence leaves only that state to be seen.
LEMMA FenceEffect ==
  ASSUME StoreTypes, NEW t \in Threads, NEW s \in States, StoreFence(t, s)
  PROVE  StoreTypes' /\ Others(t) /\ own(t)' = s /\ Vals(t)' = {s}
<1>1. vis' = [vis EXCEPT ![t] = s] /\ buf' = [buf EXCEPT ![t] = << >>] /\ << >> \in Seq(States)
  BY SMTT(60) DEF StoreFence
<1>2. vis'[t] = s /\ buf'[t] = << >>
  BY <1>1 DEF StoreTypes
<1>3. StoreTypes'
  BY <1>1 DEF StoreTypes
<1>4. own(t)' = s /\ Vals(t)' = {s}
  BY SMTT(60), <1>2 DEF own, Vals
<1>5. Others(t)
  BY <1>1 DEF Others, own, Vals, StoreTypes
<1> QED BY <1>3, <1>4, <1>5

\* A transition store, with the fence when UseMembar says so.
LEMMA TransEffect ==
  ASSUME StoreTypes, NEW t \in Threads, NEW s \in States, StoreTrans(t, s)
  PROVE  /\ StoreTypes' /\ Others(t) /\ own(t)' = s
         /\ Vals(t)' \subseteq Vals(t) \cup {s} /\ (UseMembar => Vals(t)' = {s})
<1>1. CASE UseMembar
  BY <1>1, FenceEffect DEF StoreTrans
<1>2. CASE ~UseMembar
  BY <1>2, StoreEffect DEF StoreTrans
<1> QED BY <1>1, <1>2

\* Draining shows no state that was not to be seen already.
LEMMA DrainEffect ==
  ASSUME StoreTypes, NEW t \in Threads, Drain(t)
  PROVE  StoreTypes' /\ Others(t) /\ own(t)' = own(t) /\ Vals(t)' \subseteq Vals(t)
<1> DEFINE b == buf[t]
<1>1. /\ b \in Seq(States) /\ b # << >>
      /\ vis' = [vis EXCEPT ![t] = Head(b)] /\ buf' = [buf EXCEPT ![t] = Tail(b)]
  BY DEF Drain, StoreTypes
<1>2. /\ Head(b) \in States /\ Head(b) = b[1] /\ 1 \in DOMAIN b /\ Tail(b) \in Seq(States)
      /\ Len(Tail(b)) = Len(b) - 1
      /\ \A i \in DOMAIN Tail(b) : i + 1 \in DOMAIN b /\ Tail(b)[i] = b[i + 1]
  BY SMTT(60), <1>1
<1>3. vis'[t] = Head(b) /\ buf'[t] = Tail(b)
  BY <1>1 DEF StoreTypes
<1>4. StoreTypes'
  BY <1>1, <1>2 DEF StoreTypes
<1>5. Vals(t)' \subseteq Vals(t)
  BY SMTT(60), <1>2, <1>3 DEF Vals
<1>6. own(t)' = own(t)
  <2>1. CASE Tail(b) = << >>
    <3>1. Len(b) = 1
      BY <1>1, <2>1, TailEmpty
    <3> QED BY <1>1, <1>2, <1>3, <2>1, <3>1 DEF own
  <2>2. CASE Tail(b) # << >>
    <3>1. Len(Tail(b)) \in DOMAIN Tail(b) /\ Len(Tail(b)) + 1 = Len(b)
      BY SMTT(60), <1>1, <1>2, <2>2
    <3> QED BY <1>1, <1>2, <1>3, <2>2, <3>1 DEF own
  <2> QED BY <2>1, <2>2
<1>7. Others(t)
  BY <1>1 DEF Others, own, Vals, StoreTypes
<1> QED BY <1>4, <1>5, <1>6, <1>7

\* No store.
LEMMA NoStoreEffect ==
  ASSUME StoreTypes, UNCHANGED storeVars
  PROVE  StoreTypes' /\ \A t \in Threads : own(t)' = own(t) /\ Vals(t)' = Vals(t)
BY DEF storeVars, StoreTypes, own, Vals

-----------------------------------------------------------------------------
(* Steps of one thread that touch nothing of the VM thread's.              *)

\* What such a step leaves alone.
Frame(t) ==
  /\ UNCHANGED <<syncState, waiting, armed, vpc, seen, threads, type, calledBack>>
  /\ \A u \in Threads \ {t} :
       /\ pc'[u] = pc[u] /\ orig'[u] = orig[u] /\ dest'[u] = dest[u]
       /\ suspended'[u] = suspended[u]
       /\ crit'[u] = crit[u] /\ lazy'[u] = lazy[u] /\ unlockFlag'[u] = unlockFlag[u]

\* What such a step has to show.
Good(t) ==
  /\ LocOK(t)' /\ CritOK(t)' /\ LazyOK(t)' /\ MembarOK(t)'
  /\ t \in threads => PollOK(t)'
  /\ Judging /\ t \in threads => /\ SeenOK(t)'
                                 /\ SafeZone(t) => SafeZone(t)'
                                 /\ VMZone(t) => VMZone(t)'
  /\ calledBack[t] => pc'[t] = "blockThreads"

\* The invariant survives a step with that frame.
LEMMA LocalStep ==
  ASSUME StopInv, TypeOK', NEW t \in Threads, Others(t), Frame(t), Good(t)
  PROVE  StopInv'
<1>1. \A u \in Threads : u = t \/ u \in Threads \ {t}
  OBVIOUS
<1>2. \A u \in Threads \ {t} :
        /\ LocOK(u) <=> LocOK(u)'
        /\ CritOK(u) <=> CritOK(u)'
        /\ LazyOK(u) <=> LazyOK(u)'
        /\ MembarOK(u) <=> MembarOK(u)'
        /\ PollOK(u) <=> PollOK(u)'
        /\ SeenOK(u) <=> SeenOK(u)'
        /\ SafeZone(u) <=> SafeZone(u)'
        /\ VMZone(u) <=> VMZone(u)'
  <2> SUFFICES ASSUME NEW u \in Threads \ {t}
               PROVE  /\ LocOK(u) <=> LocOK(u)'
                      /\ CritOK(u) <=> CritOK(u)'
                      /\ LazyOK(u) <=> LazyOK(u)'
                      /\ MembarOK(u) <=> MembarOK(u)'
                      /\ PollOK(u) <=> PollOK(u)'
                      /\ SeenOK(u) <=> SeenOK(u)'
                      /\ SafeZone(u) <=> SafeZone(u)'
                      /\ VMZone(u) <=> VMZone(u)'
    OBVIOUS
  <2>1. /\ pc'[u] = pc[u] /\ orig'[u] = orig[u] /\ dest'[u] = dest[u]
        /\ suspended'[u] = suspended[u]
        /\ crit'[u] = crit[u] /\ lazy'[u] = lazy[u] /\ unlockFlag'[u] = unlockFlag[u]
        /\ type' = type /\ armed' = armed /\ threads' = threads
        /\ own(u)' = own(u) /\ Vals(u)' = Vals(u)
    BY DEF Frame, Others
  <2>2. LocOK(u) <=> LocOK(u)'
    BY <2>1 DEF LocOK
  <2>3. CritOK(u) <=> CritOK(u)'
    BY <2>1 DEF CritOK
  <2>4. (LazyOK(u) <=> LazyOK(u)') /\ (MembarOK(u) <=> MembarOK(u)')
    BY <2>1 DEF LazyOK, MembarOK
  <2>5. (SafeZone(u) <=> SafeZone(u)') /\ (VMZone(u) <=> VMZone(u)')
    BY <2>1 DEF SafeZone, VMZone
  <2>6. (PollOK(u) <=> PollOK(u)') /\ (SeenOK(u) <=> SeenOK(u)')
    BY <2>1, <2>5 DEF PollOK, SeenOK
  <2> QED BY <2>2, <2>3, <2>4, <2>5, <2>6
<1>3. UNCHANGED <<syncState, waiting, armed, vpc, seen, threads, type, calledBack>>
      /\ threads \subseteq Threads
  BY DEF Frame, StopInv, TypeOK
<1>4. Judging <=> Judging'
  BY <1>3 DEF Judging
<1>5. LocalInv'
  BY <1>1, <1>2, <1>3, <1>4 DEF StopInv, LocalInv, Good
<1>6. SyncInv' /\ WaitingExact'
  BY <1>3 DEF StopInv, SyncInv, WaitingExact
<1>7. JudgeInv'
  <2>1. vpc = "decide" => Judging /\ seen.thread \in threads
    BY DEF StopInv, SyncInv, Judging
  <2>2. Judging => \A u \in threads : /\ SafeZone(u) => SafeZone(u)'
                                      /\ VMZone(u) => VMZone(u)'
    BY <1>1, <1>2, <1>3 DEF Good
  <2> QED BY <1>3, <1>4, <2>1, <2>2 DEF StopInv, JudgeInv
<1>8. TypesInv'
  <2>1. \A u \in Threads \ {t} : pc'[u] = pc[u]
    BY DEF Frame
  <2> QED BY <1>1, <1>3, <1>4, <2>1 DEF StopInv, TypesInv, Good
<1> QED BY <1>5, <1>6, <1>7, <1>8 DEF StopInv

\* What the invariant says of one thread.
Here(t) ==
  /\ LocOK(t) /\ CritOK(t) /\ LazyOK(t) /\ MembarOK(t)
  /\ t \in threads => PollOK(t)
  /\ Judging /\ t \in threads => SeenOK(t)
  /\ Judging => do_call_back /\ ~ThreadsLockFree
  /\ calledBack[t] => pc[t] = "blockThreads" /\ ~ThreadsLockFree
  /\ own(t) \in Vals(t) /\ own(t) \in States
  /\ pc[t] \in Pcs /\ dest[t] \in Stable /\ orig[t] \in States /\ crit[t] \in Nat
  /\ suspended[t] \in BOOLEAN /\ lazy[t] \in BOOLEAN /\ unlockFlag[t] \in BOOLEAN

\* The invariant, instantiated for one thread.
LEMMA HereLemma ==
  ASSUME StopInv, NEW t \in Threads
  PROVE  StoreTypes /\ TypeOK /\ Here(t)
<1>1. StoreTypes /\ TypeOK
  BY DEF StopInv, TypeOK, StoreTypes
<1>2. own(t) \in Vals(t) /\ own(t) \in States
  BY <1>1, OwnInVals
<1>3. /\ pc[t] \in Pcs /\ dest[t] \in Stable /\ orig[t] \in States /\ crit[t] \in Nat
      /\ suspended[t] \in BOOLEAN /\ lazy[t] \in BOOLEAN /\ unlockFlag[t] \in BOOLEAN
  BY <1>1 DEF TypeOK
<1>4. /\ LocOK(t) /\ CritOK(t) /\ LazyOK(t) /\ MembarOK(t)
      /\ t \in threads => PollOK(t)
      /\ Judging /\ t \in threads => SeenOK(t)
  BY DEF StopInv, LocalInv
<1>5. /\ Judging => do_call_back /\ ~ThreadsLockFree
      /\ calledBack[t] => pc[t] = "blockThreads" /\ ~ThreadsLockFree
  BY DEF StopInv, SyncInv, TypesInv, Judging, do_call_back, ThreadsLockFree
<1> QED BY <1>1, <1>2, <1>3, <1>4, <1>5 DEF Here

\* The states of the vocabulary.
LEMMA StateNames ==
  /\ Stable \subseteq States
  /\ {"new_trans", "native_trans", "vm_trans", "blocked_trans"} \subseteq States
BY DEF States, Stable

\* Steps that poll or test and store nothing.
LEMMA PollSteps ==
  ASSUME StopInv, NEW t \in Threads,
         \/ CheckNative(t) \/ CheckAgain(t) \/ SpecialExit(t) \/ SuspendReturn(t)
         \/ Poll(t) \/ EnterCritical(t) \/ LeaveCritical(t)
         \/ \E u \in Threads : RequestSuspend(t, u)
  PROVE  StopInv'
<1>0. StopInv /\ StoreTypes /\ TypeOK /\ Here(t)
  BY HereLemma
<1>1. CASE CheckNative(t)
  <2>1. StoreTypes' /\ Others(t)
        /\ own(t)' = own(t) /\ Vals(t)' = Vals(t)
    BY <1>1, <1>0, NoStoreEffect DEF CheckNative, Others
  <2>2. TypeOK'
    BY <1>1, <1>0, <2>1 DEF CheckNative, Goto, TypeOK, StoreTypes, Pcs, Stable, vmVars, stopVars,
       locVars, suspVars, critVars, do_call_back
  <2>3. Frame(t)
    BY <1>1, <1>0 DEF CheckNative, Goto, Frame, TypeOK, vmVars, stopVars, locVars, suspVars,
       critVars, do_call_back
  <2>4. /\ pc[t] = "checkNative"
        /\ pc'[t] = (IF do_call_back THEN "suspTest" ELSE "checkFlags")
        /\ dest'[t] = dest[t] /\ orig'[t] = orig[t] /\ suspended'[t] = suspended[t]
        /\ crit'[t] = crit[t] /\ lazy'[t] = lazy[t] /\ unlockFlag'[t] = unlockFlag[t]
        /\ UNCHANGED <<threads, type, armed>>
    BY <1>1, <1>0 DEF CheckNative, Goto, TypeOK, vmVars, stopVars, locVars, suspVars, critVars,
       do_call_back
  <2>5. LocOK(t)' /\ LazyOK(t)'
    BY <1>0, <2>1, <2>4 DEF Here, LocOK, LazyOK, Stable
  <2>6. CritOK(t)'
    BY <1>0, <2>1, <2>4 DEF Here, CritOK
  <2>7. MembarOK(t)'
    BY <1>0, <2>1, <2>4 DEF Here, MembarOK, LocOK, Stable
  <2>8. t \in threads => PollOK(t)'
    BY <1>0, <2>1, <2>4 DEF Here, PollOK, LocOK
  <2>9. Judging /\ t \in threads =>
          /\ SeenOK(t)'
          /\ SafeZone(t) => SafeZone(t)'
          /\ VMZone(t) => VMZone(t)'
    BY <1>0, <2>1, <2>4 DEF Here, SeenOK, SafeZone, VMZone, LocOK, Stable
  <2>10. calledBack[t] => pc'[t] = "blockThreads"
    BY <1>0, <2>4 DEF Here
  <2>11. Good(t)
    BY <2>5, <2>6, <2>7, <2>8, <2>9, <2>10 DEF Good
  <2> QED BY <2>1, <2>2, <2>3, <2>11, LocalStep
<1>2. CASE CheckAgain(t)
  <2>1. StoreTypes' /\ Others(t)
        /\ own(t)' = own(t) /\ Vals(t)' = Vals(t)
    BY <1>2, <1>0, NoStoreEffect DEF CheckAgain, Others
  <2>2. TypeOK'
    BY <1>2, <1>0, <2>1 DEF CheckAgain, Goto, TypeOK, StoreTypes, Pcs, Stable, vmVars, stopVars,
       locVars, suspVars, critVars, do_call_back
  <2>3. Frame(t)
    BY <1>2, <1>0 DEF CheckAgain, Goto, Frame, TypeOK, vmVars, stopVars, locVars, suspVars,
       critVars, do_call_back
  <2>4. /\ pc[t] = "check2"
        /\ pc'[t] = (IF do_call_back THEN "block" ELSE "setTo")
        /\ dest'[t] = dest[t] /\ orig'[t] = orig[t] /\ suspended'[t] = suspended[t]
        /\ crit'[t] = crit[t] /\ lazy'[t] = lazy[t] /\ unlockFlag'[t] = unlockFlag[t]
        /\ UNCHANGED <<threads, type, armed>>
    BY <1>2, <1>0 DEF CheckAgain, Goto, TypeOK, vmVars, stopVars, locVars, suspVars, critVars,
       do_call_back
  <2>5. LocOK(t)' /\ LazyOK(t)'
    BY <1>0, <2>1, <2>4 DEF Here, LocOK, LazyOK, Stable
  <2>6. CritOK(t)'
    BY <1>0, <2>1, <2>4 DEF Here, CritOK
  <2>7. MembarOK(t)'
    BY <1>0, <2>1, <2>4 DEF Here, MembarOK, LocOK, Stable
  <2>8. t \in threads => PollOK(t)'
    BY <1>0, <2>1, <2>4 DEF Here, PollOK, LocOK
  <2>9. Judging /\ t \in threads =>
          /\ SeenOK(t)'
          /\ SafeZone(t) => SafeZone(t)'
          /\ VMZone(t) => VMZone(t)'
    BY <1>0, <2>1, <2>4 DEF Here, SeenOK, SafeZone, VMZone, LocOK, Stable
  <2>10. calledBack[t] => pc'[t] = "blockThreads"
    BY <1>0, <2>4 DEF Here
  <2>11. Good(t)
    BY <2>5, <2>6, <2>7, <2>8, <2>9, <2>10 DEF Good
  <2> QED BY <2>1, <2>2, <2>3, <2>11, LocalStep
<1>3. CASE SpecialExit(t)
  <2>1. StoreTypes' /\ Others(t)
        /\ own(t)' = own(t) /\ Vals(t)' = Vals(t)
    BY <1>3, <1>0, NoStoreEffect DEF SpecialExit, Others
  <2>2. TypeOK'
    BY <1>3, <1>0, <2>1 DEF SpecialExit, Goto, TypeOK, StoreTypes, Pcs, Stable, vmVars, stopVars,
       locVars, suspVars, critVars, AfterSuspend
  <2>3. Frame(t)
    BY <1>3, <1>0 DEF SpecialExit, Goto, Frame, TypeOK, vmVars, stopVars, locVars, suspVars,
       critVars, AfterSuspend
  <2>4. /\ pc[t] = "special"
        /\ pc'[t] = (IF external[t] THEN "suspend" ELSE AfterSuspend(own(t)))
        /\ dest'[t] = dest[t] /\ orig'[t] = orig[t] /\ suspended'[t] = suspended[t]
        /\ crit'[t] = crit[t] /\ lazy'[t] = lazy[t] /\ unlockFlag'[t] = unlockFlag[t]
        /\ UNCHANGED <<threads, type, armed>>
    BY <1>3, <1>0 DEF SpecialExit, Goto, TypeOK, vmVars, stopVars, locVars, suspVars, critVars,
       AfterSuspend
  <2>5. LocOK(t)' /\ LazyOK(t)'
    BY <1>0, <2>1, <2>4 DEF Here, LocOK, LazyOK, Stable, AfterSuspend
  <2>6. CritOK(t)'
    BY <1>0, <2>1, <2>4 DEF Here, CritOK, AfterSuspend
  <2>7. MembarOK(t)'
    BY <1>0, <2>1, <2>4 DEF Here, MembarOK, LocOK, Stable, AfterSuspend
  <2>8. t \in threads => PollOK(t)'
    BY <1>0, <2>1, <2>4 DEF Here, PollOK, LocOK, AfterSuspend
  <2>9. Judging /\ t \in threads =>
          /\ SeenOK(t)'
          /\ SafeZone(t) => SafeZone(t)'
          /\ VMZone(t) => VMZone(t)'
    BY <1>0, <2>1, <2>4 DEF Here, SeenOK, SafeZone, VMZone, LocOK, Stable, AfterSuspend
  <2>10. calledBack[t] => pc'[t] = "blockThreads"
    BY <1>0, <2>4 DEF Here
  <2>11. Good(t)
    BY <2>5, <2>6, <2>7, <2>8, <2>9, <2>10 DEF Good
  <2> QED BY <2>1, <2>2, <2>3, <2>11, LocalStep
<1>4. CASE SuspendReturn(t)
  <2>1. StoreTypes' /\ Others(t)
        /\ own(t)' = own(t) /\ Vals(t)' = Vals(t)
    BY <1>4, <1>0, NoStoreEffect DEF SuspendReturn, Others
  <2>2. TypeOK'
    BY <1>4, <1>0, <2>1 DEF SuspendReturn, Goto, TypeOK, StoreTypes, Pcs, Stable, vmVars, stopVars,
       locVars, suspVars, critVars, AfterSuspend
  <2>3. Frame(t)
    BY <1>4, <1>0 DEF SuspendReturn, Goto, Frame, TypeOK, vmVars, stopVars, locVars, suspVars,
       critVars, AfterSuspend
  <2>4. /\ pc[t] = "suspended" /\ ~suspended[t] /\ external[t] \in BOOLEAN
        /\ pc'[t] = (IF external[t] THEN "suspended" ELSE AfterSuspend(own(t))) /\ suspended'[t] = external[t]
        /\ dest'[t] = dest[t] /\ orig'[t] = orig[t] /\ crit'[t] = crit[t]
        /\ lazy'[t] = lazy[t] /\ unlockFlag'[t] = unlockFlag[t]
        /\ UNCHANGED <<threads, type, armed>>
    BY <1>4, <1>0 DEF SuspendReturn, Goto, TypeOK, vmVars, stopVars, locVars, suspVars, critVars,
       AfterSuspend
  <2>5. LocOK(t)' /\ LazyOK(t)'
    BY <1>0, <2>1, <2>4 DEF Here, LocOK, LazyOK, Stable, AfterSuspend
  <2>6. CritOK(t)'
    BY <1>0, <2>1, <2>4 DEF Here, CritOK, AfterSuspend
  <2>7. MembarOK(t)'
    BY <1>0, <2>1, <2>4 DEF Here, MembarOK, LocOK, Stable, AfterSuspend
  <2>8. t \in threads => PollOK(t)'
    BY <1>0, <2>1, <2>4 DEF Here, PollOK, LocOK, AfterSuspend
  <2>9. Judging /\ t \in threads =>
          /\ SeenOK(t)'
          /\ SafeZone(t) => SafeZone(t)'
          /\ VMZone(t) => VMZone(t)'
    BY <1>0, <2>1, <2>4 DEF Here, SeenOK, SafeZone, VMZone, LocOK, Stable, AfterSuspend
  <2>10. calledBack[t] => pc'[t] = "blockThreads"
    BY <1>0, <2>4 DEF Here
  <2>11. Good(t)
    BY <2>5, <2>6, <2>7, <2>8, <2>9, <2>10 DEF Good
  <2> QED BY <2>1, <2>2, <2>3, <2>11, LocalStep
<1>5. CASE Poll(t)
  <2>1. StoreTypes' /\ Others(t)
        /\ own(t)' = own(t) /\ Vals(t)' = Vals(t)
    BY <1>5, <1>0, NoStoreEffect DEF Poll, Others
  <2>2. TypeOK'
    BY <1>5, <1>0, <2>1 DEF Poll, Goto, TypeOK, StoreTypes, Pcs, Stable, vmVars, stopVars, locVars,
       suspVars, critVars
  <2>3. Frame(t)
    BY <1>5, <1>0 DEF Poll, Goto, Frame, TypeOK, vmVars, stopVars, locVars, suspVars, critVars
  <2>4. /\ pc[t] = "run" /\ own(t) = "Java"
        /\ pc'[t] = "block"
        /\ dest'[t] = dest[t] /\ orig'[t] = orig[t] /\ suspended'[t] = suspended[t]
        /\ crit'[t] = crit[t] /\ lazy'[t] = lazy[t] /\ unlockFlag'[t] = unlockFlag[t]
        /\ UNCHANGED <<threads, type, armed>>
    BY <1>5, <1>0 DEF Poll, Goto, TypeOK, vmVars, stopVars, locVars, suspVars, critVars
  <2>5. LocOK(t)' /\ LazyOK(t)'
    BY <1>0, <2>1, <2>4 DEF Here, LocOK, LazyOK, Stable
  <2>6. CritOK(t)'
    BY <1>0, <2>1, <2>4 DEF Here, CritOK
  <2>7. MembarOK(t)'
    BY <1>0, <2>1, <2>4 DEF Here, MembarOK, LocOK, Stable
  <2>8. t \in threads => PollOK(t)'
    <3>1. t \in threads => type[t] = "running"
      BY <1>5, <1>0 DEF Poll, StopInv, JudgeInv, TypesInv, SyncInv, Judging, SafeZone, VMZone,
         TypeOK
    <3> QED BY <1>5, <1>0, <2>1, <2>4, <3>1 DEF Poll, PollOK
  <2>9. Judging /\ t \in threads =>
          /\ SeenOK(t)'
          /\ SafeZone(t) => SafeZone(t)'
          /\ VMZone(t) => VMZone(t)'
    BY <1>0, <2>1, <2>4 DEF Here, SeenOK, SafeZone, VMZone, LocOK, Stable
  <2>10. calledBack[t] => pc'[t] = "blockThreads"
    BY <1>0, <2>4 DEF Here
  <2>11. Good(t)
    BY <2>5, <2>6, <2>7, <2>8, <2>9, <2>10 DEF Good
  <2> QED BY <2>1, <2>2, <2>3, <2>11, LocalStep
<1>6. CASE EnterCritical(t)
  <2>1. StoreTypes' /\ Others(t)
        /\ own(t)' = own(t) /\ Vals(t)' = Vals(t)
    BY <1>6, <1>0, NoStoreEffect DEF EnterCritical, Others
  <2>2. TypeOK'
    <3>1. crit \in [Threads -> Nat] /\ crit' = [crit EXCEPT ![t] = @ + 1]
      BY <1>6, <1>0 DEF EnterCritical, TypeOK
    <3>2. crit' \in [Threads -> Nat]
      BY SMTT(60), <3>1
    <3> QED BY <1>6, <1>0, <2>1, <3>2 DEF EnterCritical, Goto, TypeOK, StoreTypes, vmVars, stopVars,
                                         locVars, suspVars, critVars
  <2>3. Frame(t)
    BY <1>6, <1>0 DEF EnterCritical, Goto, Frame, TypeOK, vmVars, stopVars, locVars, suspVars,
       critVars
  <2>4. /\ pc[t] = "run" /\ own(t) = "vm"
        /\ pc'[t] = pc[t] /\ crit'[t] = crit[t] + 1
        /\ dest'[t] = dest[t] /\ orig'[t] = orig[t] /\ suspended'[t] = suspended[t]
        /\ lazy'[t] = lazy[t] /\ unlockFlag'[t] = unlockFlag[t]
        /\ UNCHANGED <<threads, type, armed>>
    BY <1>6, <1>0 DEF EnterCritical, Goto, TypeOK, vmVars, stopVars, locVars, suspVars, critVars
  <2>5. LocOK(t)' /\ LazyOK(t)'
    BY <1>0, <2>1, <2>4 DEF Here, LocOK, LazyOK, Stable
  <2>6. CritOK(t)'
    <3>1. crit[t] \in Nat /\ unlockFlag[t] \in BOOLEAN /\ CritOK(t)
      BY <1>0 DEF Here
    <3>2. unlockFlag[t] => crit'[t] >= 1
      <4>1. crit'[t] = crit[t] + 1
        BY <2>4
      <4> QED BY SMTT(60), <3>1, <4>1 DEF CritOK
    <3> QED BY <2>4, <3>1, <3>2 DEF CritOK
  <2>7. MembarOK(t)'
    BY <1>0, <2>1, <2>4 DEF Here, MembarOK, LocOK, Stable
  <2>8. t \in threads => PollOK(t)'
    BY <1>0, <2>1, <2>4 DEF Here, PollOK, LocOK
  <2>9. Judging /\ t \in threads =>
          /\ SeenOK(t)'
          /\ SafeZone(t) => SafeZone(t)'
          /\ VMZone(t) => VMZone(t)'
    BY <1>0, <2>1, <2>4 DEF Here, SeenOK, SafeZone, VMZone, LocOK, Stable
  <2>10. calledBack[t] => pc'[t] = "blockThreads"
    BY <1>0, <2>4 DEF Here
  <2>11. Good(t)
    BY <2>5, <2>6, <2>7, <2>8, <2>9, <2>10 DEF Good
  <2> QED BY <2>1, <2>2, <2>3, <2>11, LocalStep
<1>7. CASE LeaveCritical(t)
  <2>1. StoreTypes' /\ Others(t)
        /\ own(t)' = own(t) /\ Vals(t)' = Vals(t)
    BY <1>7, <1>0, NoStoreEffect DEF LeaveCritical, Others
  <2>2. TypeOK'
    <3>1. /\ crit \in [Threads -> Nat] /\ crit' = [crit EXCEPT ![t] = @ - 1]
          /\ crit[t] - (IF unlockFlag[t] THEN 1 ELSE 0) > 0
      BY <1>7, <1>0 DEF LeaveCritical, JniRegions, TypeOK
    <3>2. crit' \in [Threads -> Nat]
      BY SMTT(60), <3>1
    <3> QED BY <1>7, <1>0, <2>1, <3>2 DEF LeaveCritical, Goto, TypeOK, StoreTypes, vmVars, stopVars,
                                         locVars, suspVars, critVars
  <2>3. Frame(t)
    BY <1>7, <1>0 DEF LeaveCritical, Goto, Frame, TypeOK, vmVars, stopVars, locVars, suspVars,
       critVars, JniRegions
  <2>4. /\ pc[t] = "run" /\ own(t) = "vm"
        /\ pc'[t] = pc[t] /\ crit'[t] = crit[t] - 1
        /\ crit[t] - (IF unlockFlag[t] THEN 1 ELSE 0) > 0
        /\ dest'[t] = dest[t] /\ orig'[t] = orig[t] /\ suspended'[t] = suspended[t]
        /\ lazy'[t] = lazy[t] /\ unlockFlag'[t] = unlockFlag[t]
        /\ UNCHANGED <<threads, type, armed>>
    BY <1>7, <1>0 DEF LeaveCritical, Goto, TypeOK, vmVars, stopVars, locVars, suspVars, critVars,
       JniRegions
  <2>5. LocOK(t)' /\ LazyOK(t)'
    BY <1>0, <2>1, <2>4 DEF Here, LocOK, LazyOK, Stable
  <2>6. CritOK(t)'
    <3>1. crit[t] \in Nat /\ unlockFlag[t] \in BOOLEAN /\ CritOK(t)
      BY <1>0 DEF Here
    <3>2. unlockFlag[t] => crit'[t] >= 1
      <4>1. crit'[t] = crit[t] - 1 /\ crit[t] - (IF unlockFlag[t] THEN 1 ELSE 0) > 0
        BY <2>4
      <4> QED BY SMTT(60), <3>1, <4>1 DEF CritOK
    <3> QED BY <2>4, <3>1, <3>2 DEF CritOK
  <2>7. MembarOK(t)'
    BY <1>0, <2>1, <2>4 DEF Here, MembarOK, LocOK, Stable
  <2>8. t \in threads => PollOK(t)'
    BY <1>0, <2>1, <2>4 DEF Here, PollOK, LocOK
  <2>9. Judging /\ t \in threads =>
          /\ SeenOK(t)'
          /\ SafeZone(t) => SafeZone(t)'
          /\ VMZone(t) => VMZone(t)'
    BY <1>0, <2>1, <2>4 DEF Here, SeenOK, SafeZone, VMZone, LocOK, Stable
  <2>10. calledBack[t] => pc'[t] = "blockThreads"
    BY <1>0, <2>4 DEF Here
  <2>11. Good(t)
    BY <2>5, <2>6, <2>7, <2>8, <2>9, <2>10 DEF Good
  <2> QED BY <2>1, <2>2, <2>3, <2>11, LocalStep
<1>8. ASSUME NEW u \in Threads, RequestSuspend(t, u) PROVE StopInv'
  <2>1. StoreTypes' /\ Others(t)
        /\ own(t)' = own(t) /\ Vals(t)' = Vals(t)
    BY <1>8, <1>0, NoStoreEffect DEF RequestSuspend, Others
  <2>2. TypeOK'
    BY <1>8, <1>0, <2>1 DEF RequestSuspend, Goto, TypeOK, StoreTypes, Pcs, Stable, vmVars, stopVars,
       locVars, suspVars, critVars
  <2>3. Frame(t)
    BY <1>8, <1>0 DEF RequestSuspend, Goto, Frame, TypeOK, vmVars, stopVars, locVars, suspVars,
       critVars
  <2>4. /\ pc[t] = "run"
        /\ pc'[t] = pc[t]
        /\ dest'[t] = dest[t] /\ orig'[t] = orig[t] /\ suspended'[t] = suspended[t]
        /\ crit'[t] = crit[t] /\ lazy'[t] = lazy[t] /\ unlockFlag'[t] = unlockFlag[t]
        /\ UNCHANGED <<threads, type, armed>>
    BY <1>8, <1>0 DEF RequestSuspend, Goto, TypeOK, vmVars, stopVars, locVars, suspVars, critVars
  <2>5. LocOK(t)' /\ LazyOK(t)'
    BY <1>0, <2>1, <2>4 DEF Here, LocOK, LazyOK, Stable
  <2>6. CritOK(t)'
    BY <1>0, <2>1, <2>4 DEF Here, CritOK
  <2>7. MembarOK(t)'
    BY <1>0, <2>1, <2>4 DEF Here, MembarOK, LocOK, Stable
  <2>8. t \in threads => PollOK(t)'
    BY <1>0, <2>1, <2>4 DEF Here, PollOK, LocOK
  <2>9. Judging /\ t \in threads =>
          /\ SeenOK(t)'
          /\ SafeZone(t) => SafeZone(t)'
          /\ VMZone(t) => VMZone(t)'
    BY <1>0, <2>1, <2>4 DEF Here, SeenOK, SafeZone, VMZone, LocOK, Stable
  <2>10. calledBack[t] => pc'[t] = "blockThreads"
    BY <1>0, <2>4 DEF Here
  <2>11. Good(t)
    BY <2>5, <2>6, <2>7, <2>8, <2>9, <2>10 DEF Good
  <2> QED BY <2>1, <2>2, <2>3, <2>11, LocalStep
<1> QED BY <1>1, <1>2, <1>3, <1>4, <1>5, <1>6, <1>7, <1>8

\* Steps that begin a transition.
LEMMA JavaSteps ==
  ASSUME StopInv, NEW t \in Threads,
         \/ EnterVM(t) \/ \E isLazy \in BOOLEAN : JavaToNative(t, isLazy)
         \/ \E to \in Stable : Leave(t, to)
         \/ \E to \in {"vm", "Java"} : FromNative(t, to)
  PROVE  StopInv'
<1>0. StopInv /\ StoreTypes /\ TypeOK /\ Here(t)
  BY HereLemma
<1>1. CASE EnterVM(t)
  <2>1. StoreTypes' /\ Others(t)
        /\ own(t)' = "vm" /\ Vals(t)' \subseteq Vals(t) \cup {"vm"}
    BY <1>1, <1>0, StoreEffect, StateNames DEF EnterVM, Stable, Here
  <2>2. TypeOK'
    BY <1>1, <1>0, <2>1 DEF EnterVM, Goto, TypeOK, StoreTypes, Pcs, Stable, vmVars, stopVars,
       locVars, suspVars, critVars
  <2>3. Frame(t)
    BY <1>1, <1>0 DEF EnterVM, Goto, Frame, TypeOK, vmVars, stopVars, locVars, suspVars, critVars
  <2>4. /\ pc[t] = "run" /\ own(t) = "Java"
        /\ pc'[t] = pc[t]
        /\ dest'[t] = dest[t] /\ orig'[t] = orig[t] /\ suspended'[t] = suspended[t]
        /\ crit'[t] = crit[t] /\ lazy'[t] = lazy[t] /\ unlockFlag'[t] = unlockFlag[t]
        /\ UNCHANGED <<threads, type, armed>>
    BY <1>1, <1>0 DEF EnterVM, Goto, TypeOK, vmVars, stopVars, locVars, suspVars, critVars
  <2>5. LocOK(t)' /\ LazyOK(t)'
    BY <1>0, <2>1, <2>4 DEF Here, LocOK, LazyOK, Stable
  <2>6. CritOK(t)'
    BY <1>0, <2>1, <2>4 DEF Here, CritOK
  <2>7. MembarOK(t)'
    BY <1>0, <2>1, <2>4 DEF Here, MembarOK, LocOK, Stable
  <2>8. t \in threads => PollOK(t)'
    BY <1>0, <2>1, <2>4 DEF Here, PollOK, LocOK
  <2>9. Judging /\ t \in threads =>
          /\ SeenOK(t)'
          /\ SafeZone(t) => SafeZone(t)'
          /\ VMZone(t) => VMZone(t)'
    BY <1>0, <2>1, <2>4 DEF Here, SeenOK, SafeZone, VMZone, LocOK, Stable
  <2>10. calledBack[t] => pc'[t] = "blockThreads"
    BY <1>0, <2>4 DEF Here
  <2>11. Good(t)
    BY <2>5, <2>6, <2>7, <2>8, <2>9, <2>10 DEF Good
  <2> QED BY <2>1, <2>2, <2>3, <2>11, LocalStep
<1>2. ASSUME NEW isLazy \in BOOLEAN, JavaToNative(t, isLazy) PROVE StopInv'
  <2>1. StoreTypes' /\ Others(t)
        /\ own(t)' = "native" /\ Vals(t)' \subseteq Vals(t) \cup {"native"}
    BY <1>2, <1>0, StoreEffect, StateNames DEF JavaToNative, Stable, Here
  <2>2. TypeOK'
    BY <1>2, <1>0, <2>1 DEF JavaToNative, Goto, TypeOK, StoreTypes, Pcs, Stable, vmVars, stopVars,
       locVars, suspVars, critVars
  <2>3. Frame(t)
    BY <1>2, <1>0 DEF JavaToNative, Goto, Frame, TypeOK, vmVars, stopVars, locVars, suspVars,
       critVars
  <2>4. /\ pc[t] = "run" /\ own(t) = "Java"
        /\ pc'[t] = pc[t] /\ lazy'[t] = isLazy
        /\ dest'[t] = dest[t] /\ orig'[t] = orig[t] /\ suspended'[t] = suspended[t]
        /\ crit'[t] = crit[t] /\ unlockFlag'[t] = unlockFlag[t]
        /\ UNCHANGED <<threads, type, armed>>
    BY <1>2, <1>0 DEF JavaToNative, Goto, TypeOK, vmVars, stopVars, locVars, suspVars, critVars
  <2>5. LocOK(t)' /\ LazyOK(t)'
    BY <1>0, <2>1, <2>4 DEF Here, LocOK, LazyOK, Stable
  <2>6. CritOK(t)'
    BY <1>0, <2>1, <2>4 DEF Here, CritOK
  <2>7. MembarOK(t)'
    BY <1>0, <2>1, <2>4 DEF Here, MembarOK, LocOK, Stable
  <2>8. t \in threads => PollOK(t)'
    BY <1>0, <2>1, <2>4 DEF Here, PollOK, LocOK
  <2>9. Judging /\ t \in threads =>
          /\ SeenOK(t)'
          /\ SafeZone(t) => SafeZone(t)'
          /\ VMZone(t) => VMZone(t)'
    BY <1>0, <2>1, <2>4 DEF Here, SeenOK, SafeZone, VMZone, LocOK, Stable
  <2>10. calledBack[t] => pc'[t] = "blockThreads"
    BY <1>0, <2>4 DEF Here
  <2>11. Good(t)
    BY <2>5, <2>6, <2>7, <2>8, <2>9, <2>10 DEF Good
  <2> QED BY <2>1, <2>2, <2>3, <2>11, LocalStep
<1>3. ASSUME NEW to \in {"vm", "Java"}, FromNative(t, to) PROVE StopInv'
  <2>1. StoreTypes' /\ Others(t)
        /\ own(t)' = "native_trans" /\ Vals(t)' \subseteq Vals(t) \cup {"native_trans"}
        /\ (UseMembar => Vals(t)' = {"native_trans"})
    BY <1>3, <1>0, TransEffect, StateNames DEF FromNative, Stable, Here
  <2>2. TypeOK'
    BY SMTT(60), <1>3, <1>0, <2>1 DEF FromNative, Goto, TypeOK, StoreTypes, Pcs, Stable, vmVars, stopVars,
       locVars, suspVars, critVars
  <2>3. Frame(t)
    BY <1>3, <1>0 DEF FromNative, Goto, Frame, TypeOK, vmVars, stopVars, locVars, suspVars, critVars
  <2>4. /\ pc[t] = "run" /\ own(t) = "native" /\ (lazy[t] => to = "Java")
        /\ pc'[t] = "checkNative" /\ dest'[t] = to
        /\ orig'[t] = orig[t] /\ suspended'[t] = suspended[t] /\ crit'[t] = crit[t]
        /\ lazy'[t] = lazy[t] /\ unlockFlag'[t] = unlockFlag[t]
        /\ UNCHANGED <<threads, type, armed>>
    BY <1>3, <1>0 DEF FromNative, Goto, TypeOK, vmVars, stopVars, locVars, suspVars, critVars
  <2>5. LocOK(t)' /\ LazyOK(t)'
    BY <1>0, <2>1, <2>4 DEF Here, LocOK, LazyOK, Stable
  <2>6. CritOK(t)'
    BY <1>0, <2>1, <2>4 DEF Here, CritOK
  <2>7. MembarOK(t)'
    BY <1>0, <2>1, <2>4 DEF Here, MembarOK, LocOK, Stable
  <2>8. t \in threads => PollOK(t)'
    BY <1>0, <2>1, <2>4 DEF Here, PollOK, LocOK
  <2>9. Judging /\ t \in threads =>
          /\ SeenOK(t)'
          /\ SafeZone(t) => SafeZone(t)'
          /\ VMZone(t) => VMZone(t)'
    BY <1>0, <2>1, <2>4 DEF Here, SeenOK, SafeZone, VMZone, LocOK, Stable
  <2>10. calledBack[t] => pc'[t] = "blockThreads"
    BY <1>0, <2>4 DEF Here
  <2>11. Good(t)
    BY <2>5, <2>6, <2>7, <2>8, <2>9, <2>10 DEF Good
  <2> QED BY <2>1, <2>2, <2>3, <2>11, LocalStep
<1>4. ASSUME NEW to \in Stable, Leave(t, to), own(t) = "new" PROVE StopInv'
  <2>1. StoreTypes' /\ Others(t)
        /\ own(t)' = "new_trans" /\ Vals(t)' \subseteq Vals(t) \cup {"new_trans"}
        /\ (UseMembar => Vals(t)' = {"new_trans"})
    BY <1>4, <1>0, TransEffect, StateNames DEF Leave, Stable, Trans
  <2>2. TypeOK'
    BY <1>4, <1>0, <2>1 DEF Leave, Goto, TypeOK, StoreTypes, Pcs, Stable, vmVars, stopVars, locVars,
       suspVars, critVars
  <2>3. Frame(t)
    BY <1>4, <1>0 DEF Leave, Goto, Frame, TypeOK, vmVars, stopVars, locVars, suspVars, critVars
  <2>4. /\ pc[t] = "run" /\ own(t) = "new"
        /\ pc'[t] = "check" /\ dest'[t] = to
        /\ orig'[t] = orig[t] /\ suspended'[t] = suspended[t] /\ crit'[t] = crit[t]
        /\ lazy'[t] = lazy[t] /\ unlockFlag'[t] = unlockFlag[t]
        /\ UNCHANGED <<threads, type, armed>>
    BY <1>4, <1>0 DEF Leave, Goto, TypeOK, vmVars, stopVars, locVars, suspVars, critVars
  <2>5. LocOK(t)' /\ LazyOK(t)'
    BY <1>0, <2>1, <2>4 DEF Here, LocOK, LazyOK, Stable
  <2>6. CritOK(t)'
    BY <1>0, <2>1, <2>4 DEF Here, CritOK
  <2>7. MembarOK(t)'
    BY <1>0, <2>1, <2>4 DEF Here, MembarOK, LocOK, Stable
  <2>8. t \in threads => PollOK(t)'
    BY <1>0, <2>1, <2>4 DEF Here, PollOK, LocOK
  <2>9. Judging /\ t \in threads =>
          /\ SeenOK(t)'
          /\ SafeZone(t) => SafeZone(t)'
          /\ VMZone(t) => VMZone(t)'
    BY <1>0, <2>1, <2>4 DEF Here, SeenOK, SafeZone, VMZone, LocOK, Stable
  <2>10. calledBack[t] => pc'[t] = "blockThreads"
    BY <1>0, <2>4 DEF Here
  <2>11. Good(t)
    BY <2>5, <2>6, <2>7, <2>8, <2>9, <2>10 DEF Good
  <2> QED BY <2>1, <2>2, <2>3, <2>11, LocalStep
<1>5. ASSUME NEW to \in Stable, Leave(t, to), own(t) = "vm" PROVE StopInv'
  <2>1. StoreTypes' /\ Others(t)
        /\ own(t)' = "vm_trans" /\ Vals(t)' \subseteq Vals(t) \cup {"vm_trans"}
        /\ (UseMembar => Vals(t)' = {"vm_trans"})
    BY <1>5, <1>0, TransEffect, StateNames DEF Leave, Stable, Trans
  <2>2. TypeOK'
    BY <1>5, <1>0, <2>1 DEF Leave, Goto, TypeOK, StoreTypes, Pcs, Stable, vmVars, stopVars, locVars,
       suspVars, critVars
  <2>3. Frame(t)
    BY <1>5, <1>0 DEF Leave, Goto, Frame, TypeOK, vmVars, stopVars, locVars, suspVars, critVars
  <2>4. /\ pc[t] = "run" /\ own(t) = "vm"
        /\ pc'[t] = "check" /\ dest'[t] = to
        /\ orig'[t] = orig[t] /\ suspended'[t] = suspended[t] /\ crit'[t] = crit[t]
        /\ lazy'[t] = lazy[t] /\ unlockFlag'[t] = unlockFlag[t]
        /\ UNCHANGED <<threads, type, armed>>
    BY <1>5, <1>0 DEF Leave, Goto, TypeOK, vmVars, stopVars, locVars, suspVars, critVars
  <2>5. LocOK(t)' /\ LazyOK(t)'
    BY <1>0, <2>1, <2>4 DEF Here, LocOK, LazyOK, Stable
  <2>6. CritOK(t)'
    BY <1>0, <2>1, <2>4 DEF Here, CritOK
  <2>7. MembarOK(t)'
    BY <1>0, <2>1, <2>4 DEF Here, MembarOK, LocOK, Stable
  <2>8. t \in threads => PollOK(t)'
    BY <1>0, <2>1, <2>4 DEF Here, PollOK, LocOK
  <2>9. Judging /\ t \in threads =>
          /\ SeenOK(t)'
          /\ SafeZone(t) => SafeZone(t)'
          /\ VMZone(t) => VMZone(t)'
    BY <1>0, <2>1, <2>4 DEF Here, SeenOK, SafeZone, VMZone, LocOK, Stable
  <2>10. calledBack[t] => pc'[t] = "blockThreads"
    BY <1>0, <2>4 DEF Here
  <2>11. Good(t)
    BY <2>5, <2>6, <2>7, <2>8, <2>9, <2>10 DEF Good
  <2> QED BY <2>1, <2>2, <2>3, <2>11, LocalStep
<1>6. ASSUME NEW to \in Stable, Leave(t, to), own(t) = "blocked" PROVE StopInv'
  <2>1. StoreTypes' /\ Others(t)
        /\ own(t)' = "blocked_trans" /\ Vals(t)' \subseteq Vals(t) \cup {"blocked_trans"}
        /\ (UseMembar => Vals(t)' = {"blocked_trans"})
    BY <1>6, <1>0, TransEffect, StateNames DEF Leave, Stable, Trans
  <2>2. TypeOK'
    BY <1>6, <1>0, <2>1 DEF Leave, Goto, TypeOK, StoreTypes, Pcs, Stable, vmVars, stopVars, locVars,
       suspVars, critVars
  <2>3. Frame(t)
    BY <1>6, <1>0 DEF Leave, Goto, Frame, TypeOK, vmVars, stopVars, locVars, suspVars, critVars
  <2>4. /\ pc[t] = "run" /\ own(t) = "blocked"
        /\ pc'[t] = "check" /\ dest'[t] = to
        /\ orig'[t] = orig[t] /\ suspended'[t] = suspended[t] /\ crit'[t] = crit[t]
        /\ lazy'[t] = lazy[t] /\ unlockFlag'[t] = unlockFlag[t]
        /\ UNCHANGED <<threads, type, armed>>
    BY <1>6, <1>0 DEF Leave, Goto, TypeOK, vmVars, stopVars, locVars, suspVars, critVars
  <2>5. LocOK(t)' /\ LazyOK(t)'
    BY <1>0, <2>1, <2>4 DEF Here, LocOK, LazyOK, Stable
  <2>6. CritOK(t)'
    BY <1>0, <2>1, <2>4 DEF Here, CritOK
  <2>7. MembarOK(t)'
    BY <1>0, <2>1, <2>4 DEF Here, MembarOK, LocOK, Stable
  <2>8. t \in threads => PollOK(t)'
    BY <1>0, <2>1, <2>4 DEF Here, PollOK, LocOK
  <2>9. Judging /\ t \in threads =>
          /\ SeenOK(t)'
          /\ SafeZone(t) => SafeZone(t)'
          /\ VMZone(t) => VMZone(t)'
    BY <1>0, <2>1, <2>4 DEF Here, SeenOK, SafeZone, VMZone, LocOK, Stable
  <2>10. calledBack[t] => pc'[t] = "blockThreads"
    BY <1>0, <2>4 DEF Here
  <2>11. Good(t)
    BY <2>5, <2>6, <2>7, <2>8, <2>9, <2>10 DEF Good
  <2> QED BY <2>1, <2>2, <2>3, <2>11, LocalStep
<1> QED BY <1>1, <1>2, <1>3, <1>4, <1>5, <1>6 DEF Leave, Targets

\* Steps inside a transition.
LEMMA TransitionSteps ==
  ASSUME StopInv, NEW t \in Threads,
         \/ Check(t) \/ SetTo(t) \/ CheckFlags(t) \/ SuspendTest(t) \/ SuspendSelf(t)
         \/ RestoreState(t) \/ LazyExit(t) \/ LazyUnlock(t) \/ Drain(t)
  PROVE  StopInv'
<1>0. StopInv /\ StoreTypes /\ TypeOK /\ Here(t)
  BY HereLemma
<1>1. CASE Check(t) /\ do_call_back
  <2>1. StoreTypes' /\ Others(t)
        /\ own(t)' = own(t) /\ Vals(t)' = Vals(t)
    BY <1>1, <1>0, NoStoreEffect DEF Check, Others
  <2>2. TypeOK'
    BY <1>1, <1>0, <2>1 DEF Check, Goto, TypeOK, StoreTypes, Pcs, Stable, vmVars, stopVars, locVars,
       suspVars, critVars
  <2>3. Frame(t)
    BY <1>1, <1>0 DEF Check, Goto, Frame, TypeOK, vmVars, stopVars, locVars, suspVars, critVars
  <2>4. /\ pc[t] = "check"
        /\ pc'[t] = "block"
        /\ dest'[t] = dest[t] /\ orig'[t] = orig[t] /\ suspended'[t] = suspended[t]
        /\ crit'[t] = crit[t] /\ lazy'[t] = lazy[t] /\ unlockFlag'[t] = unlockFlag[t]
        /\ UNCHANGED <<threads, type, armed>>
    BY <1>1, <1>0 DEF Check, Goto, TypeOK, vmVars, stopVars, locVars, suspVars, critVars
  <2>5. LocOK(t)' /\ LazyOK(t)'
    BY <1>0, <2>1, <2>4 DEF Here, LocOK, LazyOK, Stable
  <2>6. CritOK(t)'
    BY <1>0, <2>1, <2>4 DEF Here, CritOK
  <2>7. MembarOK(t)'
    BY <1>0, <2>1, <2>4 DEF Here, MembarOK, LocOK, Stable
  <2>8. t \in threads => PollOK(t)'
    BY <1>0, <2>1, <2>4 DEF Here, PollOK, LocOK
  <2>9. Judging /\ t \in threads =>
          /\ SeenOK(t)'
          /\ SafeZone(t) => SafeZone(t)'
          /\ VMZone(t) => VMZone(t)'
    BY <1>0, <2>1, <2>4 DEF Here, SeenOK, SafeZone, VMZone, LocOK, Stable
  <2>10. calledBack[t] => pc'[t] = "blockThreads"
    BY <1>0, <2>4 DEF Here
  <2>11. Good(t)
    BY <2>5, <2>6, <2>7, <2>8, <2>9, <2>10 DEF Good
  <2> QED BY <2>1, <2>2, <2>3, <2>11, LocalStep
<1>2. CASE Check(t) /\ ~do_call_back
  <2>1. StoreTypes' /\ Others(t)
        /\ own(t)' = dest[t] /\ Vals(t)' \subseteq Vals(t) \cup {dest[t]}
    BY <1>2, <1>0, StoreEffect, StateNames DEF Check, Stable, Here, Finish
  <2>2. TypeOK'
    <3>1. \E l \in Pcs : pc' = [pc EXCEPT ![t] = l]
      BY <1>2 DEF Check, Finish, Goto, Pcs
    <3>2. pc' \in [Threads -> Pcs]
      BY <1>0, <3>1 DEF TypeOK
    <3> QED BY <1>2, <1>0, <2>1, <3>2 DEF Check, TypeOK, StoreTypes, vmVars, stopVars, locVars, suspVars,
                                         critVars
  <2>3. Frame(t)
    BY <1>2, <1>0 DEF Check, Goto, Frame, TypeOK, vmVars, stopVars, locVars, suspVars, critVars,
       Finish
  <2>4. /\ pc[t] = "check"
        /\ TRUE
        /\ \/ own(t) = "vm_trans" /\ dest[t] \in {"Java", "native"} /\ pc'[t] = "special"
           \/ /\ ~(own(t) = "vm_trans" /\ dest[t] = "Java") /\ ~(own(t) = "native_trans" /\ lazy[t])
              /\ pc'[t] = "run"
           \/ own(t) = "native_trans" /\ lazy[t] /\ pc'[t] = "lazyExit"
        /\ ~do_call_back
        /\ dest'[t] = dest[t] /\ orig'[t] = orig[t] /\ suspended'[t] = suspended[t]
        /\ crit'[t] = crit[t] /\ lazy'[t] = lazy[t] /\ unlockFlag'[t] = unlockFlag[t]
        /\ UNCHANGED <<threads, type, armed>>
    BY <1>2, <1>0 DEF Check, Goto, TypeOK, vmVars, stopVars, locVars, suspVars, critVars, Finish
  <2>5. LocOK(t)' /\ LazyOK(t)'
    BY <1>0, <2>1, <2>4 DEF Here, LocOK, LazyOK, Stable, Pcs
  <2>6. CritOK(t)'
    BY <1>0, <2>1, <2>4 DEF Here, CritOK, Pcs
  <2>7. MembarOK(t)'
    BY <1>0, <2>1, <2>4 DEF Here, MembarOK, LocOK, Stable, Pcs
  <2>8. t \in threads => PollOK(t)'
    BY <1>0, <2>1, <2>4 DEF Here, PollOK, LocOK, Pcs
  <2>9. Judging /\ t \in threads =>
          /\ SeenOK(t)'
          /\ SafeZone(t) => SafeZone(t)'
          /\ VMZone(t) => VMZone(t)'
    BY <1>0, <2>1, <2>4 DEF Here, SeenOK, SafeZone, VMZone, LocOK, Stable, Pcs
  <2>10. calledBack[t] => pc'[t] = "blockThreads"
    BY <1>0, <2>4 DEF Here
  <2>11. Good(t)
    BY <2>5, <2>6, <2>7, <2>8, <2>9, <2>10 DEF Good
  <2> QED BY <2>1, <2>2, <2>3, <2>11, LocalStep
<1>3. CASE SetTo(t)
  <2>1. StoreTypes' /\ Others(t)
        /\ own(t)' = dest[t] /\ Vals(t)' \subseteq Vals(t) \cup {dest[t]}
    BY <1>3, <1>0, StoreEffect, StateNames DEF SetTo, Stable, Here, Finish
  <2>2. TypeOK'
    <3>1. \E l \in Pcs : pc' = [pc EXCEPT ![t] = l]
      BY <1>3 DEF SetTo, Finish, Goto, Pcs
    <3>2. pc' \in [Threads -> Pcs]
      BY <1>0, <3>1 DEF TypeOK
    <3> QED BY <1>3, <1>0, <2>1, <3>2 DEF SetTo, TypeOK, StoreTypes, vmVars, stopVars, locVars, suspVars,
                                         critVars
  <2>3. Frame(t)
    BY <1>3, <1>0 DEF SetTo, Goto, Frame, TypeOK, vmVars, stopVars, locVars, suspVars, critVars,
       Finish
  <2>4. /\ pc[t] = "setTo"
        /\ TRUE
        /\ \/ own(t) = "vm_trans" /\ dest[t] \in {"Java", "native"} /\ pc'[t] = "special"
           \/ /\ ~(own(t) = "vm_trans" /\ dest[t] = "Java") /\ ~(own(t) = "native_trans" /\ lazy[t])
              /\ pc'[t] = "run"
           \/ own(t) = "native_trans" /\ lazy[t] /\ pc'[t] = "lazyExit"
        /\ dest'[t] = dest[t] /\ orig'[t] = orig[t] /\ suspended'[t] = suspended[t]
        /\ crit'[t] = crit[t] /\ lazy'[t] = lazy[t] /\ unlockFlag'[t] = unlockFlag[t]
        /\ UNCHANGED <<threads, type, armed>>
    BY <1>3, <1>0 DEF SetTo, Goto, TypeOK, vmVars, stopVars, locVars, suspVars, critVars, Finish
  <2>5. LocOK(t)' /\ LazyOK(t)'
    BY <1>0, <2>1, <2>4 DEF Here, LocOK, LazyOK, Stable, Pcs
  <2>6. CritOK(t)'
    BY <1>0, <2>1, <2>4 DEF Here, CritOK, Pcs
  <2>7. MembarOK(t)'
    BY <1>0, <2>1, <2>4 DEF Here, MembarOK, LocOK, Stable, Pcs
  <2>8. t \in threads => PollOK(t)'
    BY <1>0, <2>1, <2>4 DEF Here, PollOK, LocOK, Pcs
  <2>9. Judging /\ t \in threads =>
          /\ SeenOK(t)'
          /\ SafeZone(t) => SafeZone(t)'
          /\ VMZone(t) => VMZone(t)'
    <3>1. ~SafeZone(t) /\ ~VMZone(t)
      BY <2>4 DEF SafeZone, VMZone
    <3>2. Judging /\ t \in threads => {"native", "blocked", "vm"} \cap Vals(t)' \subseteq {dest[t]}
      BY <1>0, <2>1, <3>1 DEF Here, SeenOK
    <3>3. dest[t] \in {"native", "blocked"} => SafeZone(t)'
      BY <1>0, <2>1, <2>4 DEF SafeZone, Here, LazyOK
    <3>4. dest[t] = "vm" => VMZone(t)'
      BY <1>0, <2>1, <2>4 DEF VMZone, Here, LazyOK
    <3> QED BY <3>1, <3>2, <3>3, <3>4 DEF SeenOK
  <2>10. calledBack[t] => pc'[t] = "blockThreads"
    BY <1>0, <2>4 DEF Here
  <2>11. Good(t)
    BY <2>5, <2>6, <2>7, <2>8, <2>9, <2>10 DEF Good
  <2> QED BY <2>1, <2>2, <2>3, <2>11, LocalStep
<1>4. CASE CheckFlags(t) /\ (external[t] \/ (dest[t] = "Java" /\ unlockFlag[t]))
  <2>0. UNCHANGED storeVars /\ UNCHANGED lazy /\ Goto(t, "suspTest")
    BY <1>4, <1>0 DEF CheckFlags, storeVars
  <2>1. StoreTypes' /\ Others(t)
        /\ own(t)' = own(t) /\ Vals(t)' = Vals(t)
    BY <1>0, <2>0, NoStoreEffect DEF Stable, Others, Here
  <2>2. TypeOK'
    BY <1>4, <1>0, <2>0, <2>1 DEF CheckFlags, Goto, TypeOK, StoreTypes, Pcs, Stable, vmVars,
       stopVars, locVars, suspVars, critVars
  <2>3. Frame(t)
    BY <1>4, <1>0 DEF CheckFlags, Goto, Frame, TypeOK, vmVars, stopVars, locVars, suspVars, critVars
  <2>4. /\ pc[t] = "checkFlags"
        /\ pc'[t] = "suspTest"
        /\ dest'[t] = dest[t] /\ orig'[t] = orig[t] /\ suspended'[t] = suspended[t]
        /\ crit'[t] = crit[t] /\ lazy'[t] = lazy[t] /\ unlockFlag'[t] = unlockFlag[t]
        /\ UNCHANGED <<threads, type, armed>>
    BY <1>4, <1>0 DEF CheckFlags, Goto, TypeOK, vmVars, stopVars, locVars, suspVars, critVars
  <2>5. LocOK(t)' /\ LazyOK(t)'
    BY <1>0, <2>1, <2>4 DEF Here, LocOK, LazyOK, Stable
  <2>6. CritOK(t)'
    BY <1>0, <2>1, <2>4 DEF Here, CritOK
  <2>7. MembarOK(t)'
    BY <1>0, <2>1, <2>4 DEF Here, MembarOK, LocOK, Stable
  <2>8. t \in threads => PollOK(t)'
    BY <1>0, <2>1, <2>4 DEF Here, PollOK, LocOK
  <2>9. Judging /\ t \in threads =>
          /\ SeenOK(t)'
          /\ SafeZone(t) => SafeZone(t)'
          /\ VMZone(t) => VMZone(t)'
    BY <1>0, <2>1, <2>4 DEF Here, SeenOK, SafeZone, VMZone, LocOK, Stable
  <2>10. calledBack[t] => pc'[t] = "blockThreads"
    BY <1>0, <2>4 DEF Here
  <2>11. Good(t)
    BY <2>5, <2>6, <2>7, <2>8, <2>9, <2>10 DEF Good
  <2> QED BY <2>1, <2>2, <2>3, <2>11, LocalStep
<1>5. CASE CheckFlags(t) /\ ~(external[t] \/ (dest[t] = "Java" /\ unlockFlag[t]))
  <2>0. Store(t, dest[t]) /\ dest[t] \in Stable
    BY <1>5, <1>0 DEF CheckFlags, Here
  <2>1. StoreTypes' /\ Others(t)
        /\ own(t)' = dest[t] /\ Vals(t)' \subseteq Vals(t) \cup {dest[t]}
    BY <1>0, <2>0, StoreEffect, StateNames DEF Stable, Others, Here
  <2>2. TypeOK'
    BY <1>5, <1>0, <2>0, <2>1 DEF CheckFlags, Goto, TypeOK, StoreTypes, Pcs, Stable, vmVars,
       stopVars, locVars, suspVars, critVars
  <2>3. Frame(t)
    BY <1>5, <1>0 DEF CheckFlags, Goto, Frame, TypeOK, vmVars, stopVars, locVars, suspVars, critVars
  <2>4. /\ pc[t] = "checkFlags"
        /\ pc'[t] = "run" /\ lazy'[t] = FALSE
        /\ dest'[t] = dest[t] /\ orig'[t] = orig[t] /\ suspended'[t] = suspended[t]
        /\ crit'[t] = crit[t] /\ unlockFlag'[t] = unlockFlag[t]
        /\ UNCHANGED <<threads, type, armed>>
    BY <1>5, <1>0 DEF CheckFlags, Goto, TypeOK, vmVars, stopVars, locVars, suspVars, critVars
  <2>5. LocOK(t)' /\ LazyOK(t)'
    BY <1>0, <2>1, <2>4 DEF Here, LocOK, LazyOK, Stable
  <2>6. CritOK(t)'
    BY <1>0, <2>1, <2>4 DEF Here, CritOK
  <2>7. MembarOK(t)'
    BY <1>0, <2>1, <2>4 DEF Here, MembarOK, LocOK, Stable
  <2>8. t \in threads => PollOK(t)'
    BY <1>0, <2>1, <2>4 DEF Here, PollOK, LocOK
  <2>9. Judging /\ t \in threads =>
          /\ SeenOK(t)'
          /\ SafeZone(t) => SafeZone(t)'
          /\ VMZone(t) => VMZone(t)'
    BY <1>0, <2>1, <2>4 DEF Here, SeenOK, SafeZone, VMZone, LocOK, Stable
  <2>10. calledBack[t] => pc'[t] = "blockThreads"
    BY <1>0, <2>4 DEF Here
  <2>11. Good(t)
    BY <2>5, <2>6, <2>7, <2>8, <2>9, <2>10 DEF Good
  <2> QED BY <2>1, <2>2, <2>3, <2>11, LocalStep
<1>6. CASE SuspendTest(t) /\ external[t]
  <2>1. StoreTypes' /\ Others(t)
        /\ own(t)' = "blocked" /\ Vals(t)' \subseteq Vals(t) \cup {"blocked"}
    BY <1>6, <1>0, StoreEffect, StateNames DEF SuspendTest, Stable, Here
  <2>2. TypeOK'
    BY <1>6, <1>0, <2>1 DEF SuspendTest, Goto, TypeOK, StoreTypes, Pcs, Stable, vmVars, stopVars,
       locVars, suspVars, critVars
  <2>3. Frame(t)
    BY <1>6, <1>0 DEF SuspendTest, Goto, Frame, TypeOK, vmVars, stopVars, locVars, suspVars,
       critVars
  <2>4. /\ pc[t] = "suspTest"
        /\ pc'[t] = "suspend"
        /\ dest'[t] = dest[t] /\ orig'[t] = orig[t] /\ suspended'[t] = suspended[t]
        /\ crit'[t] = crit[t] /\ lazy'[t] = lazy[t] /\ unlockFlag'[t] = unlockFlag[t]
        /\ UNCHANGED <<threads, type, armed>>
    BY <1>6, <1>0 DEF SuspendTest, Goto, TypeOK, vmVars, stopVars, locVars, suspVars, critVars
  <2>5. LocOK(t)' /\ LazyOK(t)'
    BY <1>0, <2>1, <2>4 DEF Here, LocOK, LazyOK, Stable
  <2>6. CritOK(t)'
    BY <1>0, <2>1, <2>4 DEF Here, CritOK
  <2>7. MembarOK(t)'
    BY <1>0, <2>1, <2>4 DEF Here, MembarOK, LocOK, Stable
  <2>8. t \in threads => PollOK(t)'
    BY <1>0, <2>1, <2>4 DEF Here, PollOK, LocOK
  <2>9. Judging /\ t \in threads =>
          /\ SeenOK(t)'
          /\ SafeZone(t) => SafeZone(t)'
          /\ VMZone(t) => VMZone(t)'
    BY <1>0, <2>1, <2>4 DEF Here, SeenOK, SafeZone, VMZone, LocOK, Stable
  <2>10. calledBack[t] => pc'[t] = "blockThreads"
    BY <1>0, <2>4 DEF Here
  <2>11. Good(t)
    BY <2>5, <2>6, <2>7, <2>8, <2>9, <2>10 DEF Good
  <2> QED BY <2>1, <2>2, <2>3, <2>11, LocalStep
<1>7. CASE SuspendTest(t) /\ ~external[t]
  <2>1. StoreTypes' /\ Others(t)
        /\ own(t)' = own(t) /\ Vals(t)' = Vals(t)
    BY <1>7, <1>0, NoStoreEffect DEF SuspendTest, Others
  <2>2. TypeOK'
    BY <1>7, <1>0, <2>1 DEF SuspendTest, Goto, TypeOK, StoreTypes, Pcs, Stable, vmVars, stopVars,
       locVars, suspVars, critVars
  <2>3. Frame(t)
    BY <1>7, <1>0 DEF SuspendTest, Goto, Frame, TypeOK, vmVars, stopVars, locVars, suspVars,
       critVars
  <2>4. /\ pc[t] = "suspTest"
        /\ pc'[t] = "check2"
        /\ dest'[t] = dest[t] /\ orig'[t] = orig[t] /\ suspended'[t] = suspended[t]
        /\ crit'[t] = crit[t] /\ lazy'[t] = lazy[t] /\ unlockFlag'[t] = unlockFlag[t]
        /\ UNCHANGED <<threads, type, armed>>
    BY <1>7, <1>0 DEF SuspendTest, Goto, TypeOK, vmVars, stopVars, locVars, suspVars, critVars
  <2>5. LocOK(t)' /\ LazyOK(t)'
    BY <1>0, <2>1, <2>4 DEF Here, LocOK, LazyOK, Stable
  <2>6. CritOK(t)'
    BY <1>0, <2>1, <2>4 DEF Here, CritOK
  <2>7. MembarOK(t)'
    BY <1>0, <2>1, <2>4 DEF Here, MembarOK, LocOK, Stable
  <2>8. t \in threads => PollOK(t)'
    BY <1>0, <2>1, <2>4 DEF Here, PollOK, LocOK
  <2>9. Judging /\ t \in threads =>
          /\ SeenOK(t)'
          /\ SafeZone(t) => SafeZone(t)'
          /\ VMZone(t) => VMZone(t)'
    BY <1>0, <2>1, <2>4 DEF Here, SeenOK, SafeZone, VMZone, LocOK, Stable
  <2>10. calledBack[t] => pc'[t] = "blockThreads"
    BY <1>0, <2>4 DEF Here
  <2>11. Good(t)
    BY <2>5, <2>6, <2>7, <2>8, <2>9, <2>10 DEF Good
  <2> QED BY <2>1, <2>2, <2>3, <2>11, LocalStep
<1>8. CASE SuspendSelf(t)
  <2>1. StoreTypes' /\ Others(t)
        /\ own(t)' = own(t) /\ Vals(t)' = {own(t)}
    BY <1>8, <1>0, FenceEffect, StateNames DEF SuspendSelf, Stable, Here, Fence
  <2>2. TypeOK'
    BY <1>8, <1>0, <2>1 DEF SuspendSelf, Goto, TypeOK, StoreTypes, Pcs, Stable, vmVars, stopVars,
       locVars, suspVars, critVars, AfterSuspend
  <2>3. Frame(t)
    BY <1>8, <1>0 DEF SuspendSelf, Goto, Frame, TypeOK, vmVars, stopVars, locVars, suspVars,
       critVars, AfterSuspend
  <2>4. /\ pc[t] = "suspend" /\ external[t] \in BOOLEAN
        /\ pc'[t] = (IF external[t] THEN "suspended" ELSE AfterSuspend(own(t))) /\ suspended'[t] = external[t]
        /\ dest'[t] = dest[t] /\ orig'[t] = orig[t] /\ crit'[t] = crit[t]
        /\ lazy'[t] = lazy[t] /\ unlockFlag'[t] = unlockFlag[t]
        /\ UNCHANGED <<threads, type, armed>>
    BY <1>8, <1>0 DEF SuspendSelf, Goto, TypeOK, vmVars, stopVars, locVars, suspVars, critVars,
       AfterSuspend
  <2>5. LocOK(t)' /\ LazyOK(t)'
    BY <1>0, <2>1, <2>4 DEF Here, LocOK, LazyOK, Stable, AfterSuspend
  <2>6. CritOK(t)'
    BY <1>0, <2>1, <2>4 DEF Here, CritOK, AfterSuspend
  <2>7. MembarOK(t)'
    BY <1>0, <2>1, <2>4 DEF Here, MembarOK, LocOK, Stable, AfterSuspend
  <2>8. t \in threads => PollOK(t)'
    BY <1>0, <2>1, <2>4 DEF Here, PollOK, LocOK, AfterSuspend
  <2>9. Judging /\ t \in threads =>
          /\ SeenOK(t)'
          /\ SafeZone(t) => SafeZone(t)'
          /\ VMZone(t) => VMZone(t)'
    BY <1>0, <2>1, <2>4 DEF Here, SeenOK, SafeZone, VMZone, LocOK, Stable, AfterSuspend
  <2>10. calledBack[t] => pc'[t] = "blockThreads"
    BY <1>0, <2>4 DEF Here
  <2>11. Good(t)
    BY <2>5, <2>6, <2>7, <2>8, <2>9, <2>10 DEF Good
  <2> QED BY <2>1, <2>2, <2>3, <2>11, LocalStep
<1>9. CASE RestoreState(t)
  <2>1. StoreTypes' /\ Others(t)
        /\ own(t)' = "native_trans" /\ Vals(t)' \subseteq Vals(t) \cup {"native_trans"}
        /\ (UseMembar => Vals(t)' = {"native_trans"})
    BY <1>9, <1>0, TransEffect, StateNames DEF RestoreState, Stable, Here
  <2>2. TypeOK'
    BY <1>9, <1>0, <2>1 DEF RestoreState, Goto, TypeOK, StoreTypes, Pcs, Stable, vmVars, stopVars,
       locVars, suspVars, critVars
  <2>3. Frame(t)
    BY <1>9, <1>0 DEF RestoreState, Goto, Frame, TypeOK, vmVars, stopVars, locVars, suspVars,
       critVars
  <2>4. /\ pc[t] = "restore"
        /\ pc'[t] = "check2"
        /\ dest'[t] = dest[t] /\ orig'[t] = orig[t] /\ suspended'[t] = suspended[t]
        /\ crit'[t] = crit[t] /\ lazy'[t] = lazy[t] /\ unlockFlag'[t] = unlockFlag[t]
        /\ UNCHANGED <<threads, type, armed>>
    BY <1>9, <1>0 DEF RestoreState, Goto, TypeOK, vmVars, stopVars, locVars, suspVars, critVars
  <2>5. LocOK(t)' /\ LazyOK(t)'
    BY <1>0, <2>1, <2>4 DEF Here, LocOK, LazyOK, Stable
  <2>6. CritOK(t)'
    BY <1>0, <2>1, <2>4 DEF Here, CritOK
  <2>7. MembarOK(t)'
    BY <1>0, <2>1, <2>4 DEF Here, MembarOK, LocOK, Stable
  <2>8. t \in threads => PollOK(t)'
    BY <1>0, <2>1, <2>4 DEF Here, PollOK, LocOK
  <2>9. Judging /\ t \in threads =>
          /\ SeenOK(t)'
          /\ SafeZone(t) => SafeZone(t)'
          /\ VMZone(t) => VMZone(t)'
    BY <1>0, <2>1, <2>4 DEF Here, SeenOK, SafeZone, VMZone, LocOK, Stable
  <2>10. calledBack[t] => pc'[t] = "blockThreads"
    BY <1>0, <2>4 DEF Here
  <2>11. Good(t)
    BY <2>5, <2>6, <2>7, <2>8, <2>9, <2>10 DEF Good
  <2> QED BY <2>1, <2>2, <2>3, <2>11, LocalStep
<1>10. CASE LazyExit(t) /\ unlockFlag[t]
  <2>1. StoreTypes' /\ Others(t)
        /\ own(t)' = "vm" /\ Vals(t)' \subseteq Vals(t) \cup {"vm"}
    BY <1>10, <1>0, StoreEffect, StateNames DEF LazyExit, Stable, Here
  <2>2. TypeOK'
    BY <1>10, <1>0, <2>1 DEF LazyExit, Goto, TypeOK, StoreTypes, Pcs, Stable, vmVars, stopVars,
       locVars, suspVars, critVars
  <2>3. Frame(t)
    BY <1>10, <1>0 DEF LazyExit, Goto, Frame, TypeOK, vmVars, stopVars, locVars, suspVars, critVars
  <2>4. /\ pc[t] = "lazyExit" /\ unlockFlag[t]
        /\ pc'[t] = "lazyUnlock"
        /\ dest'[t] = dest[t] /\ orig'[t] = orig[t] /\ suspended'[t] = suspended[t]
        /\ crit'[t] = crit[t] /\ lazy'[t] = lazy[t] /\ unlockFlag'[t] = unlockFlag[t]
        /\ UNCHANGED <<threads, type, armed>>
    BY <1>10, <1>0 DEF LazyExit, Goto, TypeOK, vmVars, stopVars, locVars, suspVars, critVars
  <2>5. LocOK(t)' /\ LazyOK(t)'
    BY <1>0, <2>1, <2>4 DEF Here, LocOK, LazyOK, Stable
  <2>6. CritOK(t)'
    BY <1>0, <2>1, <2>4 DEF Here, CritOK
  <2>7. MembarOK(t)'
    BY <1>0, <2>1, <2>4 DEF Here, MembarOK, LocOK, Stable
  <2>8. t \in threads => PollOK(t)'
    BY <1>0, <2>1, <2>4 DEF Here, PollOK, LocOK
  <2>9. Judging /\ t \in threads =>
          /\ SeenOK(t)'
          /\ SafeZone(t) => SafeZone(t)'
          /\ VMZone(t) => VMZone(t)'
    BY <1>0, <2>1, <2>4 DEF Here, SeenOK, SafeZone, VMZone, LocOK, Stable
  <2>10. calledBack[t] => pc'[t] = "blockThreads"
    BY <1>0, <2>4 DEF Here
  <2>11. Good(t)
    BY <2>5, <2>6, <2>7, <2>8, <2>9, <2>10 DEF Good
  <2> QED BY <2>1, <2>2, <2>3, <2>11, LocalStep
<1>11. CASE LazyExit(t) /\ ~unlockFlag[t]
  <2>1. StoreTypes' /\ Others(t)
        /\ own(t)' = own(t) /\ Vals(t)' = Vals(t)
    BY <1>11, <1>0, NoStoreEffect DEF LazyExit, Others
  <2>2. TypeOK'
    BY <1>11, <1>0, <2>1 DEF LazyExit, Goto, TypeOK, StoreTypes, Pcs, Stable, vmVars, stopVars,
       locVars, suspVars, critVars
  <2>3. Frame(t)
    BY <1>11, <1>0 DEF LazyExit, Goto, Frame, TypeOK, vmVars, stopVars, locVars, suspVars, critVars
  <2>4. /\ pc[t] = "lazyExit"
        /\ pc'[t] = "run" /\ lazy'[t] = FALSE
        /\ dest'[t] = dest[t] /\ orig'[t] = orig[t] /\ suspended'[t] = suspended[t]
        /\ crit'[t] = crit[t] /\ unlockFlag'[t] = unlockFlag[t]
        /\ UNCHANGED <<threads, type, armed>>
    BY <1>11, <1>0 DEF LazyExit, Goto, TypeOK, vmVars, stopVars, locVars, suspVars, critVars
  <2>5. LocOK(t)' /\ LazyOK(t)'
    BY <1>0, <2>1, <2>4 DEF Here, LocOK, LazyOK, Stable
  <2>6. CritOK(t)'
    BY <1>0, <2>1, <2>4 DEF Here, CritOK
  <2>7. MembarOK(t)'
    BY <1>0, <2>1, <2>4 DEF Here, MembarOK, LocOK, Stable
  <2>8. t \in threads => PollOK(t)'
    BY <1>0, <2>1, <2>4 DEF Here, PollOK, LocOK
  <2>9. Judging /\ t \in threads =>
          /\ SeenOK(t)'
          /\ SafeZone(t) => SafeZone(t)'
          /\ VMZone(t) => VMZone(t)'
    BY <1>0, <2>1, <2>4 DEF Here, SeenOK, SafeZone, VMZone, LocOK, Stable
  <2>10. calledBack[t] => pc'[t] = "blockThreads"
    BY <1>0, <2>4 DEF Here
  <2>11. Good(t)
    BY <2>5, <2>6, <2>7, <2>8, <2>9, <2>10 DEF Good
  <2> QED BY <2>1, <2>2, <2>3, <2>11, LocalStep
<1>12. CASE LazyUnlock(t)
  <2>0. crit[t] - 1 \in Nat
    <3>1. crit[t] \in Nat /\ crit[t] >= 1
      BY <1>12, <1>0 DEF LazyUnlock, Here, CritOK
    <3> QED BY SMTT(60), <3>1
  <2>1. StoreTypes' /\ Others(t)
        /\ own(t)' = "vm_trans" /\ Vals(t)' \subseteq Vals(t) \cup {"vm_trans"}
        /\ (UseMembar => Vals(t)' = {"vm_trans"})
    BY <1>12, <1>0, <2>0, TransEffect, StateNames DEF LazyUnlock, Stable, Here
  <2>2. TypeOK'
    BY <1>12, <1>0, <2>0, <2>1 DEF LazyUnlock, Goto, TypeOK, StoreTypes, Pcs, Stable, vmVars,
       stopVars, locVars, suspVars, critVars
  <2>3. Frame(t)
    BY <1>12, <1>0 DEF LazyUnlock, Goto, Frame, TypeOK, vmVars, stopVars, locVars, suspVars,
       critVars
  <2>4. /\ pc[t] = "lazyUnlock"
        /\ pc'[t] = "check" /\ dest'[t] = "Java" /\ lazy'[t] = FALSE /\ unlockFlag'[t] = FALSE
        /\ orig'[t] = orig[t] /\ suspended'[t] = suspended[t]
        /\ UNCHANGED <<threads, type, armed>>
    BY <1>12, <1>0 DEF LazyUnlock, Goto, TypeOK, vmVars, stopVars, locVars, suspVars, critVars
  <2>5. LocOK(t)' /\ LazyOK(t)'
    BY <1>0, <2>1, <2>4 DEF Here, LocOK, LazyOK, Stable
  <2>6. CritOK(t)'
    BY <1>0, <2>1, <2>4 DEF Here, CritOK
  <2>7. MembarOK(t)'
    BY <1>0, <2>1, <2>4 DEF Here, MembarOK, LocOK, Stable
  <2>8. t \in threads => PollOK(t)'
    BY <1>0, <2>1, <2>4 DEF Here, PollOK, LocOK
  <2>9. Judging /\ t \in threads =>
          /\ SeenOK(t)'
          /\ SafeZone(t) => SafeZone(t)'
          /\ VMZone(t) => VMZone(t)'
    BY <1>0, <2>1, <2>4 DEF Here, SeenOK, SafeZone, VMZone, LocOK, Stable
  <2>10. calledBack[t] => pc'[t] = "blockThreads"
    BY <1>0, <2>4 DEF Here
  <2>11. Good(t)
    BY <2>5, <2>6, <2>7, <2>8, <2>9, <2>10 DEF Good
  <2> QED BY <2>1, <2>2, <2>3, <2>11, LocalStep
<1>13. CASE Drain(t)
  <2>1. StoreTypes' /\ Others(t)
        /\ own(t)' = own(t) /\ Vals(t)' \subseteq Vals(t)
    BY <1>13, <1>0, DrainEffect DEF Drain, Others
  <2>2. TypeOK'
    BY <1>13, <1>0, <2>1 DEF Drain, Goto, TypeOK, StoreTypes, Pcs, Stable, vmVars, stopVars,
       locVars, suspVars, critVars, Here
  <2>3. Frame(t)
    BY <1>13, <1>0 DEF Drain, Goto, Frame, TypeOK, vmVars, stopVars, locVars, suspVars, critVars,
       Here
  <2>4. /\ own(t) \in States
        /\ pc'[t] = pc[t]
        /\ dest'[t] = dest[t] /\ orig'[t] = orig[t] /\ suspended'[t] = suspended[t]
        /\ crit'[t] = crit[t] /\ lazy'[t] = lazy[t] /\ unlockFlag'[t] = unlockFlag[t]
        /\ UNCHANGED <<threads, type, armed>>
    BY <1>13, <1>0 DEF Drain, Goto, TypeOK, vmVars, stopVars, locVars, suspVars, critVars, Here
  <2>5. LocOK(t)' /\ LazyOK(t)'
    BY <1>0, <2>1, <2>4 DEF Here, LocOK, LazyOK, Stable
  <2>6. CritOK(t)'
    BY <1>0, <2>1, <2>4 DEF Here, CritOK
  <2>7. MembarOK(t)'
    BY <1>0, <2>1, <2>4 DEF Here, MembarOK, LocOK, Stable
  <2>8. t \in threads => PollOK(t)'
    BY <1>0, <2>1, <2>4 DEF Here, PollOK, LocOK
  <2>9. Judging /\ t \in threads =>
          /\ SeenOK(t)'
          /\ SafeZone(t) => SafeZone(t)'
          /\ VMZone(t) => VMZone(t)'
    BY <1>0, <2>1, <2>4 DEF Here, SeenOK, SafeZone, VMZone, LocOK, Stable
  <2>10. calledBack[t] => pc'[t] = "blockThreads"
    BY <1>0, <2>4 DEF Here
  <2>11. Good(t)
    BY <2>5, <2>6, <2>7, <2>8, <2>9, <2>10 DEF Good
  <2> QED BY <2>1, <2>2, <2>3, <2>11, LocalStep
<1> QED BY <1>1, <1>2, <1>3, <1>4, <1>5, <1>6, <1>7, <1>8, <1>9, <1>10, <1>11, <1>12, <1>13

\* Steps of block().
LEMMA BlockSteps ==
  ASSUME StopInv, NEW t \in Threads,
         \/ Block(t) \/ BlockReturn(t)
  PROVE  StopInv'
<1>0. StopInv /\ StoreTypes /\ TypeOK /\ Here(t)
  BY HereLemma
<1>1. CASE Block(t) /\ t \notin threads
  <2>1. StoreTypes' /\ Others(t)
        /\ own(t)' = own(t) /\ Vals(t)' = Vals(t)
    BY <1>1, <1>0, NoStoreEffect DEF Block, Others
  <2>2. TypeOK'
    BY <1>1, <1>0, <2>1 DEF Block, Goto, TypeOK, StoreTypes, Pcs, Stable, vmVars, stopVars, locVars,
       suspVars, critVars, AfterBlock, Here
  <2>3. Frame(t)
    BY <1>1, <1>0 DEF Block, Goto, Frame, TypeOK, vmVars, stopVars, locVars, suspVars, critVars,
       AfterBlock, Here
  <2>4. /\ pc[t] = "block" /\ t \notin threads
        /\ pc'[t] = AfterBlock(own(t)) /\ orig'[t] = own(t)
        /\ dest'[t] = dest[t] /\ suspended'[t] = suspended[t] /\ crit'[t] = crit[t]
        /\ lazy'[t] = lazy[t] /\ unlockFlag'[t] = unlockFlag[t]
        /\ UNCHANGED <<threads, type, armed>>
    BY <1>1, <1>0 DEF Block, Goto, TypeOK, vmVars, stopVars, locVars, suspVars, critVars,
       AfterBlock, Here
  <2>5. LocOK(t)' /\ LazyOK(t)'
    BY <1>0, <2>1, <2>4 DEF Here, LocOK, LazyOK, Stable, AfterBlock
  <2>6. CritOK(t)'
    BY <1>0, <2>1, <2>4 DEF Here, CritOK, AfterBlock
  <2>7. MembarOK(t)'
    BY <1>0, <2>1, <2>4 DEF Here, MembarOK, LocOK, Stable, AfterBlock
  <2>8. t \in threads => PollOK(t)'
    BY <1>0, <2>1, <2>4 DEF Here, PollOK, LocOK, AfterBlock
  <2>9. Judging /\ t \in threads =>
          /\ SeenOK(t)'
          /\ SafeZone(t) => SafeZone(t)'
          /\ VMZone(t) => VMZone(t)'
    BY <1>0, <2>1, <2>4 DEF Here, SeenOK, SafeZone, VMZone, LocOK, Stable, AfterBlock
  <2>10. calledBack[t] => pc'[t] = "blockThreads"
    BY <1>0, <2>4 DEF Here
  <2>11. Good(t)
    BY <2>5, <2>6, <2>7, <2>8, <2>9, <2>10 DEF Good
  <2> QED BY <2>1, <2>2, <2>3, <2>11, LocalStep
<1>2. CASE Block(t) /\ t \in threads /\ own(t) \in {"vm_trans", "Java"}
  <2>1. StoreTypes' /\ Others(t)
        /\ own(t)' = "vm" /\ Vals(t)' \subseteq Vals(t) \cup {"vm"}
    BY <1>2, <1>0, StoreEffect, StateNames DEF Block, Stable, Here
  <2>2. TypeOK'
    BY <1>2, <1>0, <2>1 DEF Block, Goto, TypeOK, StoreTypes, Pcs, Stable, vmVars, stopVars, locVars,
       suspVars, critVars, Here
  <2>3. Frame(t)
    BY <1>2, <1>0 DEF Block, Goto, Frame, TypeOK, vmVars, stopVars, locVars, suspVars, critVars,
       Here
  <2>4. /\ pc[t] = "block" /\ t \in threads /\ own(t) \in {"vm_trans", "Java"}
        /\ pc'[t] = "blockLock" /\ orig'[t] = own(t)
        /\ dest'[t] = dest[t] /\ suspended'[t] = suspended[t] /\ crit'[t] = crit[t]
        /\ lazy'[t] = lazy[t] /\ unlockFlag'[t] = unlockFlag[t]
        /\ UNCHANGED <<threads, type, armed>>
    BY <1>2, <1>0 DEF Block, Goto, TypeOK, vmVars, stopVars, locVars, suspVars, critVars, Here
  <2>5. LocOK(t)' /\ LazyOK(t)'
    BY <1>0, <2>1, <2>4 DEF Here, LocOK, LazyOK, Stable
  <2>6. CritOK(t)'
    BY <1>0, <2>1, <2>4 DEF Here, CritOK
  <2>7. MembarOK(t)'
    BY <1>0, <2>1, <2>4 DEF Here, MembarOK, LocOK, Stable
  <2>8. t \in threads => PollOK(t)'
    BY <1>0, <2>1, <2>4 DEF Here, PollOK, LocOK
  <2>9. Judging /\ t \in threads =>
          /\ SeenOK(t)'
          /\ SafeZone(t) => SafeZone(t)'
          /\ VMZone(t) => VMZone(t)'
    BY <1>0, <2>1, <2>4 DEF Here, SeenOK, SafeZone, VMZone, LocOK, Stable
  <2>10. calledBack[t] => pc'[t] = "blockThreads"
    BY <1>0, <2>4 DEF Here
  <2>11. Good(t)
    BY <2>5, <2>6, <2>7, <2>8, <2>9, <2>10 DEF Good
  <2> QED BY <2>1, <2>2, <2>3, <2>11, LocalStep
<1>3. CASE Block(t) /\ t \in threads /\ own(t) \notin {"vm_trans", "Java"}
  <2>1. StoreTypes' /\ Others(t)
        /\ own(t)' = "blocked" /\ Vals(t)' \subseteq Vals(t) \cup {"blocked"}
    BY <1>3, <1>0, StoreEffect, StateNames DEF Block, Stable, Here
  <2>2. TypeOK'
    BY <1>3, <1>0, <2>1 DEF Block, Goto, TypeOK, StoreTypes, Pcs, Stable, vmVars, stopVars, locVars,
       suspVars, critVars, Here
  <2>3. Frame(t)
    BY <1>3, <1>0 DEF Block, Goto, Frame, TypeOK, vmVars, stopVars, locVars, suspVars, critVars,
       Here
  <2>4. /\ pc[t] = "block" /\ t \in threads /\ own(t) \notin {"vm_trans", "Java"}
        /\ pc'[t] = "blockThreads" /\ orig'[t] = own(t)
        /\ dest'[t] = dest[t] /\ suspended'[t] = suspended[t] /\ crit'[t] = crit[t]
        /\ lazy'[t] = lazy[t] /\ unlockFlag'[t] = unlockFlag[t]
        /\ UNCHANGED <<threads, type, armed>>
    BY <1>3, <1>0 DEF Block, Goto, TypeOK, vmVars, stopVars, locVars, suspVars, critVars, Here
  <2>5. LocOK(t)' /\ LazyOK(t)'
    BY <1>0, <2>1, <2>4 DEF Here, LocOK, LazyOK, Stable
  <2>6. CritOK(t)'
    BY <1>0, <2>1, <2>4 DEF Here, CritOK
  <2>7. MembarOK(t)'
    BY <1>0, <2>1, <2>4 DEF Here, MembarOK, LocOK, Stable
  <2>8. t \in threads => PollOK(t)'
    BY <1>0, <2>1, <2>4 DEF Here, PollOK, LocOK
  <2>9. Judging /\ t \in threads =>
          /\ SeenOK(t)'
          /\ SafeZone(t) => SafeZone(t)'
          /\ VMZone(t) => VMZone(t)'
    BY <1>0, <2>1, <2>4 DEF Here, SeenOK, SafeZone, VMZone, LocOK, Stable
  <2>10. calledBack[t] => pc'[t] = "blockThreads"
    BY <1>0, <2>4 DEF Here
  <2>11. Good(t)
    BY <2>5, <2>6, <2>7, <2>8, <2>9, <2>10 DEF Good
  <2> QED BY <2>1, <2>2, <2>3, <2>11, LocalStep
<1>4. CASE BlockReturn(t)
  <2>1. StoreTypes' /\ Others(t)
        /\ own(t)' = orig[t] /\ Vals(t)' = {orig[t]}
    BY <1>4, <1>0, FenceEffect, StateNames DEF BlockReturn, Stable, Here, Fence
  <2>2. TypeOK'
    BY <1>4, <1>0, <2>1 DEF BlockReturn, Goto, TypeOK, StoreTypes, Pcs, Stable, vmVars, stopVars,
       locVars, suspVars, critVars, AfterBlock, Here
  <2>3. Frame(t)
    BY <1>4, <1>0 DEF BlockReturn, Goto, Frame, TypeOK, vmVars, stopVars, locVars, suspVars,
       critVars, AfterBlock, Here
  <2>4. /\ pc[t] = "blockThreads" /\ ThreadsLockFree
        /\ pc'[t] = AfterBlock(orig[t])
        /\ dest'[t] = dest[t] /\ orig'[t] = orig[t] /\ suspended'[t] = suspended[t]
        /\ crit'[t] = crit[t] /\ lazy'[t] = lazy[t] /\ unlockFlag'[t] = unlockFlag[t]
        /\ UNCHANGED <<threads, type, armed>>
    BY <1>4, <1>0 DEF BlockReturn, Goto, TypeOK, vmVars, stopVars, locVars, suspVars, critVars,
       AfterBlock, Here
  <2>5. LocOK(t)' /\ LazyOK(t)'
    BY <1>0, <2>1, <2>4 DEF Here, LocOK, LazyOK, Stable, AfterBlock
  <2>6. CritOK(t)'
    BY <1>0, <2>1, <2>4 DEF Here, CritOK, AfterBlock
  <2>7. MembarOK(t)'
    BY <1>0, <2>1, <2>4 DEF Here, MembarOK, LocOK, Stable, AfterBlock
  <2>8. t \in threads => PollOK(t)'
    BY <1>0, <2>1, <2>4 DEF Here, PollOK, LocOK, AfterBlock
  <2>9. Judging /\ t \in threads =>
          /\ SeenOK(t)'
          /\ SafeZone(t) => SafeZone(t)'
          /\ VMZone(t) => VMZone(t)'
    BY <1>0, <2>1, <2>4 DEF Here, SeenOK, SafeZone, VMZone, LocOK, Stable, AfterBlock
  <2>10. calledBack[t] => pc'[t] = "blockThreads"
    BY <1>0, <2>4 DEF Here
  <2>11. Good(t)
    BY <2>5, <2>6, <2>7, <2>8, <2>9, <2>10 DEF Good
  <2> QED BY <2>1, <2>2, <2>3, <2>11, LocalStep
<1> QED BY <1>1, <1>2, <1>3, <1>4

-----------------------------------------------------------------------------
(* Threads are counted.                                                    *)

\* The threads _waiting_to_block stands for.
Awaited == {t \in threads : \/ type[t] = "running"
                            \/ type[t] = "call_back" /\ ~calledBack[t]}

\* The list of threads is finite.
LEMMA AwaitedFinite ==
  ASSUME StopInv
  PROVE  /\ IsFiniteSet(threads) /\ Cardinality(threads) \in Nat
         /\ IsFiniteSet(Awaited) /\ Cardinality(Awaited) \in Nat
         /\ Cardinality(Awaited) = 0 => Awaited = {}
<1>1. IsFiniteSet(threads)
  BY FS_Subset, SafepointAssumption DEF StopInv, TypeOK, SafepointAssumption
<1>2. IsFiniteSet(Awaited)
  BY <1>1, FS_Subset DEF Awaited
<1> QED BY <1>1, <1>2, FS_CardinalityType, FS_EmptySet

\* The invariant in the form the steps use.
LEMMA WaitingAwaited ==
  /\ WaitingExact <=> (vpc \in {"serialize", "spin", "decide", "waiting"} => waiting = Cardinality(Awaited))
  /\ WaitingExact' <=>
       (vpc' \in {"serialize", "spin", "decide", "waiting"} => waiting' = Cardinality(Awaited'))
BY DEF WaitingExact, Awaited

-----------------------------------------------------------------------------
(* Steps of a thread that need Threads_lock: there is no safepoint.        *)

\* With Threads_lock free only the thread-local facts are at stake.
LEMMA IdleStep ==
  ASSUME StopInv, TypeOK', vpc = "idle",
         UNCHANGED <<syncState, armed, vpc, type, calledBack>>,
         \A u \in Threads : LocOK(u)' /\ CritOK(u)' /\ LazyOK(u)' /\ MembarOK(u)',
         \A u \in threads' : PollOK(u)'
  PROVE  StopInv'
<1>1. \A u \in Threads : type[u] = "running" /\ ~calledBack[u]
  BY DEF StopInv, TypesInv, Judging, TypeOK
<1>2. LocalInv' /\ JudgeInv' /\ WaitingExact'
  BY DEF LocalInv, JudgeInv, Judging, WaitingExact
<1>3. SyncInv'
  BY DEF StopInv, SyncInv
<1>4. TypesInv'
  BY <1>1 DEF TypesInv, Judging
<1> QED BY <1>2, <1>3, <1>4 DEF StopInv

\* Threads::add, Threads::remove and java_resume.
LEMMA LockedSteps ==
  ASSUME StopInv, NEW t \in Threads,
         Start(t) \/ Exit(t) \/ \E u \in Threads : Resume(t, u)
  PROVE  StopInv'
<1>0. /\ TypeOK /\ StoreTypes /\ threads \subseteq Threads
      /\ \A u \in Threads : /\ LocOK(u) /\ CritOK(u) /\ LazyOK(u) /\ MembarOK(u)
                            /\ own(u) \in Vals(u) /\ own(u) \in States
      /\ \A u \in threads : PollOK(u)
  BY OwnInVals DEF StopInv, TypeOK, StoreTypes, LocalInv
<1>1. CASE Start(t)
  <2>1. /\ UNCHANGED <<syncState, armed, vpc, type, calledBack>> /\ vpc = "idle"
        /\ threads' = threads \cup {t} /\ pc' = [pc EXCEPT ![t] = "run"] /\ pc[t] = "none"
        /\ UNCHANGED <<storeVars, dest, orig, suspended, crit, lazy, unlockFlag>>
    BY <1>1 DEF Start, Goto, ThreadsLockFree, vmVars, stopVars, locVars, suspVars, critVars
  <2>2. \A u \in Threads : own(u)' = own(u) /\ Vals(u)' = Vals(u)
    BY <1>0, <2>1, NoStoreEffect
  <2>3. TypeOK'
    BY <1>1, <1>0 DEF Start, Goto, TypeOK, Pcs, vmVars, stopVars, storeVars, locVars, suspVars,
       critVars
  <2>4. \A u \in Threads : LocOK(u)'
    BY SMTT(60), <1>0, <2>1, <2>2 DEF LocOK, Stable, TypeOK
  <2>5. \A u \in Threads : CritOK(u)' /\ LazyOK(u)' /\ MembarOK(u)'
    BY SMTT(60), <1>0, <2>1, <2>2 DEF CritOK, LazyOK, MembarOK, TypeOK
  <2>6. \A u \in threads' : PollOK(u)'
    BY SMTT(60), <1>0, <2>1, <2>2 DEF PollOK, TypeOK
  <2> QED BY <2>1, <2>3, <2>4, <2>5, <2>6, IdleStep
<1>2. CASE Exit(t)
  <2>1. /\ UNCHANGED <<syncState, armed, vpc, type, calledBack>> /\ vpc = "idle"
        /\ threads' = threads \ {t} /\ pc[t] = "run"
        /\ UNCHANGED <<pc, dest, orig, suspended, crit, lazy, unlockFlag>>
        /\ StoreFence(t, own(t))
    BY <1>2 DEF Exit, Fence, ThreadsLockFree, vmVars, stopVars, locVars, suspVars, critVars
  <2>2. /\ StoreTypes' /\ own(t)' = own(t) /\ Vals(t)' = {own(t)} /\ Others(t)
    BY <1>0, <2>1, FenceEffect
  <2>3. TypeOK'
    BY <1>2, <1>0, <2>2 DEF Exit, StoreTypes, TypeOK, vmVars, stopVars, locVars, suspVars, critVars
  <2>4. \A u \in Threads : own(u)' = own(u) /\ Vals(u)' \subseteq Vals(u)
    BY <1>0, <2>2 DEF Others
  <2>5. \A u \in Threads : LocOK(u)'
    BY SMTT(60), <1>0, <2>1, <2>4 DEF LocOK, TypeOK
  <2>6. \A u \in Threads : CritOK(u)' /\ LazyOK(u)' /\ MembarOK(u)'
    BY SMTT(60), <1>0, <2>1, <2>4 DEF CritOK, LazyOK, MembarOK, TypeOK
  <2>7. \A u \in threads' : PollOK(u)'
    BY <1>0, <2>1, <2>4 DEF PollOK, TypeOK
  <2> QED BY <2>1, <2>3, <2>5, <2>6, <2>7, IdleStep
<1>3. ASSUME NEW v \in Threads, Resume(t, v)
      PROVE  StopInv'
  <2>1. /\ UNCHANGED <<syncState, armed, vpc, type, calledBack>> /\ vpc = "idle"
        /\ suspended' = [suspended EXCEPT ![v] = FALSE]
        /\ UNCHANGED <<threads, pc, dest, orig, crit, lazy, unlockFlag>>
        /\ StoreFence(t, own(t))
    BY <1>3 DEF Resume, Fence, ThreadsLockFree, vmVars, stopVars, locVars, suspVars, critVars
  <2>2. /\ StoreTypes' /\ own(t)' = own(t) /\ Vals(t)' = {own(t)} /\ Others(t)
    BY <1>0, <2>1, FenceEffect
  <2>3. TypeOK'
    BY <1>3, <1>0, <2>2 DEF Resume, StoreTypes, TypeOK, vmVars, stopVars, locVars, suspVars,
       critVars
  <2>4. \A u \in Threads : own(u)' = own(u) /\ Vals(u)' \subseteq Vals(u)
    BY <1>0, <2>2 DEF Others
  <2>5. \A u \in Threads : suspended'[u] => suspended[u]
    BY <1>0, <2>1 DEF TypeOK
  <2>6. \A u \in Threads : LocOK(u)'
    BY SMTT(60), <1>0, <2>1, <2>4, <2>5 DEF LocOK
  <2>7. \A u \in Threads : CritOK(u)' /\ LazyOK(u)' /\ MembarOK(u)'
    BY SMTT(60), <1>0, <2>1, <2>4 DEF CritOK, LazyOK, MembarOK, TypeOK
  <2>8. \A u \in threads' : PollOK(u)'
    BY <1>0, <2>1, <2>4 DEF PollOK, TypeOK
  <2> QED BY <2>1, <2>3, <2>6, <2>7, <2>8, IdleStep
<1> QED BY <1>1, <1>2, <1>3

-----------------------------------------------------------------------------
(* Steps of the VM thread.                                                 *)

\* They leave the zones of the threads as they are.
LEMMA ZoneFrame ==
  ASSUME StopInv, UNCHANGED <<thrVars, storeVars>>
  PROVE  /\ StoreTypes' /\ threads' = threads /\ threads \subseteq Threads
         /\ \A u \in Threads :
              /\ own(u)' = own(u)
              /\ LocOK(u)' /\ LazyOK(u)' /\ MembarOK(u)'
              /\ SafeZone(u) <=> SafeZone(u)'
              /\ VMZone(u) <=> VMZone(u)'
              /\ SeenOK(u) <=> SeenOK(u)'
<1>1. StoreTypes /\ threads \subseteq Threads
  BY DEF StopInv, TypeOK, StoreTypes
<1>2. StoreTypes' /\ \A u \in Threads : own(u)' = own(u) /\ Vals(u)' = Vals(u)
  BY <1>1, NoStoreEffect
<1>3. UNCHANGED <<threads, pc, dest, orig, suspended, lazy>>
  BY DEF thrVars, locVars, suspVars
<1>4. \A u \in Threads : LocOK(u) /\ LazyOK(u) /\ MembarOK(u)
  BY DEF StopInv, LocalInv
<1>5. \A u \in Threads : LocOK(u)' /\ LazyOK(u)' /\ MembarOK(u)'
  BY SMTT(60), <1>2, <1>3, <1>4 DEF LocOK, LazyOK, MembarOK
<1>6. \A u \in Threads :
        /\ SafeZone(u) <=> SafeZone(u)'
        /\ VMZone(u) <=> VMZone(u)'
        /\ SeenOK(u) <=> SeenOK(u)'
  BY SMTT(60), <1>2, <1>3 DEF SafeZone, VMZone, SeenOK
<1> QED BY <1>1, <1>2, <1>3, <1>5, <1>6

\* A step that moves the VM thread and its own variables only.
LEMMA MoveStep ==
  ASSUME StopInv, TypeOK',
         UNCHANGED <<thrVars, stopVars, storeVars, crit, unlockFlag>>,
         SyncInv', WaitingExact', Judging' => Judging,
         \A u \in threads : PollOK(u)',
         vpc' = "decide" => /\ seen'.state \in {"native", "blocked"} => SafeZone(seen'.thread)
                            /\ seen'.state = "vm" => VMZone(seen'.thread),
         \A u \in Threads : type[u] # "running" => Judging' \/ vpc' = "restart",
         vpc' = "waiting" => \A u \in threads : type[u] # "running",
         vpc' \in {"stopped", "disarmed"} =>
           \A u \in threads : type[u] = "at_safepoint" \/ (type[u] = "call_back" /\ calledBack[u]),
         vpc' = "restart" => \A u \in threads : type[u] = "call_back" => calledBack[u]
  PROVE  StopInv'
<1>1. /\ threads' = threads /\ threads \subseteq Threads
      /\ \A u \in Threads :
              /\ LocOK(u)' /\ LazyOK(u)' /\ MembarOK(u)'
              /\ SafeZone(u) <=> SafeZone(u)'
              /\ VMZone(u) <=> VMZone(u)'
              /\ SeenOK(u) <=> SeenOK(u)'
  BY ZoneFrame
<1>2. UNCHANGED <<type, calledBack, pc, crit, unlockFlag>>
  BY DEF stopVars, thrVars
<1>3. \A u \in Threads : CritOK(u)'
  BY <1>2 DEF StopInv, LocalInv, CritOK
<1>4. LocalInv'
  BY <1>1, <1>3 DEF StopInv, LocalInv
<1>5. vpc' = "decide" => seen'.thread \in threads
  BY <1>1 DEF SyncInv
<1>6. JudgeInv'
  BY <1>1, <1>2, <1>5 DEF StopInv, JudgeInv
<1>7. TypesInv'
  BY <1>1, <1>2 DEF StopInv, TypesInv
<1> QED BY <1>4, <1>6, <1>7 DEF StopInv

\* What the invariant says of the VM thread and the types.
Types ==
  /\ syncState = "synchronizing" <=> vpc \in {"serialize", "spin", "decide", "waiting"}
  /\ syncState = "synchronized" <=> vpc \in {"stopped", "disarmed"}
  /\ armed => vpc \in {"spin", "decide", "waiting", "stopped"}
  /\ threads \subseteq Threads
  /\ \A u \in Threads : type[u] # "running" => u \in threads /\ (Judging \/ vpc = "restart")
  /\ \A u \in Threads : type[u] \in {"running", "at_safepoint", "call_back"}
  /\ \A u \in threads : PollOK(u)

\* StopInv implies it.
LEMMA TypesLemma ==
  ASSUME StopInv
  PROVE  Types
BY DEF StopInv, Types, TypeOK, SyncInv, TypesInv, LocalInv

\* The steps of begin() and end() that decide nothing about a thread.
LEMMA VMSteps ==
  ASSUME StopInv,
         \/ Begin \/ Synchronize \/ WaitToBlock \/ Notified \/ Stopped \/ Disarm \/ EndState \/ End
         \/ \E t \in Threads : Examine(t)
  PROVE  StopInv'
<1>0. TypeOK /\ Types /\ WaitingExact
  BY TypesLemma DEF StopInv
<1>1. CASE Begin
  <2>1. UNCHANGED <<thrVars, stopVars, storeVars, crit, unlockFlag>>
    BY <1>1 DEF Begin
  <2>2. TypeOK'
    BY <1>1, <1>0 DEF Begin, TypeOK, thrVars, stopVars, storeVars, locVars, suspVars
  <2>3. SyncInv' /\ (Judging' => Judging)
    BY <1>1, <1>0 DEF Begin, Types, SyncInv, Judging, thrVars, stopVars
  <2>4. WaitingExact'
    BY <1>1, <1>0 DEF Begin, WaitingExact, thrVars, stopVars
  <2>5. \A u \in threads : PollOK(u)'
    BY <1>1, <1>0, ZoneFrame, <2>1 DEF Begin, Types, PollOK, thrVars, stopVars
  <2>6. \A u \in Threads : type[u] # "running" => Judging' \/ vpc' = "restart"
    BY <1>1, <1>0 DEF Begin, Types, Judging
  <2> QED BY <1>1, <2>1, <2>2, <2>3, <2>4, <2>5, <2>6, MoveStep DEF Begin
<1>2. CASE Synchronize
  <2>1. UNCHANGED <<thrVars, stopVars, storeVars, crit, unlockFlag>>
    BY <1>2 DEF Synchronize
  <2>2. TypeOK'
    BY SMTT(60), <1>2, <1>0, AwaitedFinite DEF Synchronize, TypeOK, thrVars, stopVars, storeVars, locVars,
       suspVars
  <2>3. SyncInv' /\ (Judging' => Judging)
    BY <1>2, <1>0 DEF Synchronize, Types, SyncInv, Judging, thrVars, stopVars
  <2>4. WaitingExact'
    <3>1. \A u \in Threads : type[u] = "running"
      BY <1>2, <1>0 DEF Synchronize, Types, Judging
    <3>2. Awaited = threads
      BY <1>0, <3>1 DEF Awaited, Types
    <3>3. Awaited' = Awaited
      BY <1>2 DEF Synchronize, Awaited, thrVars, stopVars
    <3> QED BY <1>2, <3>2, <3>3, WaitingAwaited DEF Synchronize
  <2>5. \A u \in threads : PollOK(u)'
    BY <1>2, <1>0, ZoneFrame, <2>1 DEF Synchronize, Types, PollOK, thrVars, stopVars
  <2>6. \A u \in Threads : type[u] # "running" => Judging' \/ vpc' = "restart"
    BY <1>2, <1>0 DEF Synchronize, Types, Judging
  <2> QED BY <1>2, <2>1, <2>2, <2>3, <2>4, <2>5, <2>6, MoveStep DEF Synchronize
<1>3. CASE WaitToBlock
  <2>1. UNCHANGED <<thrVars, stopVars, storeVars, crit, unlockFlag>>
    BY <1>3 DEF WaitToBlock
  <2>2. TypeOK'
    BY <1>3, <1>0 DEF WaitToBlock, TypeOK, thrVars, stopVars, storeVars, locVars, suspVars
  <2>3. SyncInv' /\ (Judging' => Judging)
    BY <1>3, <1>0 DEF WaitToBlock, Types, SyncInv, Judging, thrVars, stopVars
  <2>4. WaitingExact'
    BY <1>3, <1>0 DEF WaitToBlock, WaitingExact, thrVars, stopVars
  <2>5. \A u \in threads : PollOK(u)'
    BY <1>3, <1>0, ZoneFrame, <2>1 DEF WaitToBlock, Types, PollOK, thrVars, stopVars
  <2>6. \A u \in Threads : type[u] # "running" => Judging' \/ vpc' = "restart"
    BY <1>3, <1>0 DEF WaitToBlock, Types, Judging
  <2> QED BY <1>3, <2>1, <2>2, <2>3, <2>4, <2>5, <2>6, MoveStep DEF WaitToBlock
<1>4. CASE Notified
  <2>1. UNCHANGED <<thrVars, stopVars, storeVars, crit, unlockFlag>>
    BY <1>4 DEF Notified
  <2>2. TypeOK'
    BY <1>4, <1>0, Zenon DEF Notified, TypeOK, thrVars, stopVars, storeVars, locVars, suspVars
  <2>3. SyncInv' /\ (Judging' => Judging)
    BY <1>4, <1>0 DEF Notified, Types, SyncInv, Judging, thrVars, stopVars
  <2>4. WaitingExact'
    BY <1>4, <1>0 DEF Notified, WaitingExact, thrVars, stopVars
  <2>5. \A u \in threads : PollOK(u)'
    BY <1>4, <1>0, ZoneFrame, <2>1 DEF Notified, Types, PollOK, thrVars, stopVars
  <2>6. \A u \in Threads : type[u] # "running" => Judging' \/ vpc' = "restart"
    BY <1>4, <1>0 DEF Notified, Types, Judging
  <2> QED BY <1>4, <2>1, <2>2, <2>3, <2>4, <2>5, <2>6, MoveStep DEF Notified
<1>5. CASE Stopped
  <2>1. UNCHANGED <<thrVars, stopVars, storeVars, crit, unlockFlag>>
    BY <1>5 DEF Stopped
  <2>2. TypeOK'
    BY SMTT(60), <1>5, <1>0 DEF Stopped, TypeOK, thrVars, stopVars, storeVars, locVars, suspVars
  <2>3. SyncInv' /\ (Judging' => Judging)
    BY <1>5, <1>0 DEF Stopped, Types, SyncInv, Judging, thrVars, stopVars
  <2>4. WaitingExact'
    BY <1>5, <1>0 DEF Stopped, WaitingExact, thrVars, stopVars
  <2>5. \A u \in threads : PollOK(u)'
    BY <1>5, <1>0, ZoneFrame, <2>1 DEF Stopped, Types, PollOK, thrVars, stopVars
  <2>6. \A u \in Threads : type[u] # "running" => Judging' \/ vpc' = "restart"
    BY <1>5, <1>0 DEF Stopped, Types, Judging
  <2>7. \A u \in threads : type[u] = "at_safepoint" \/ (type[u] = "call_back" /\ calledBack[u])
    <3>1. waiting = Cardinality(Awaited) /\ waiting <= 0 /\ \A u \in threads : type[u] # "running"
      BY <1>5, <1>0, WaitingAwaited DEF Stopped
    <3>2. Awaited = {}
      BY SMTT(60), <3>1, AwaitedFinite
    <3> QED BY <1>0, <3>1, <3>2 DEF Awaited, Types
  <2> QED BY <1>5, <2>1, <2>2, <2>3, <2>4, <2>5, <2>6, <2>7, MoveStep DEF Stopped
<1>6. CASE Disarm
  <2>1. UNCHANGED <<thrVars, stopVars, storeVars, crit, unlockFlag>>
    BY <1>6 DEF Disarm
  <2>2. TypeOK'
    <3>1. counter' \in Nat
      BY SMTT(60), <1>6, <1>0 DEF Disarm, TypeOK
    <3> QED BY <1>6, <1>0, <3>1, Zenon DEF Disarm, TypeOK, thrVars, stopVars, storeVars, locVars,
               suspVars
  <2>3. SyncInv' /\ (Judging' => Judging)
    BY <1>6, <1>0 DEF Disarm, Types, SyncInv, Judging, thrVars, stopVars
  <2>4. WaitingExact'
    BY <1>6, <1>0 DEF Disarm, WaitingExact, thrVars, stopVars
  <2>5. \A u \in threads : PollOK(u)'
    <3>1. \A u \in threads : type[u] # "running"
      BY <1>6 DEF Disarm, StopInv, TypesInv
    <3> QED BY <1>6, <1>0, <3>1, ZoneFrame, <2>1 DEF Disarm, Types, PollOK, thrVars, stopVars
  <2>6. \A u \in Threads : type[u] # "running" => Judging' \/ vpc' = "restart"
    BY <1>6, <1>0 DEF Disarm, Types, Judging
  <2>7. \A u \in threads : type[u] = "at_safepoint" \/ (type[u] = "call_back" /\ calledBack[u])
    BY <1>6 DEF Disarm, EndState, StopInv, TypesInv
  <2> QED BY <1>6, <2>1, <2>2, <2>3, <2>4, <2>5, <2>6, <2>7, MoveStep DEF Disarm
<1>7. CASE EndState
  <2>1. UNCHANGED <<thrVars, stopVars, storeVars, crit, unlockFlag>>
    BY <1>7 DEF EndState
  <2>2. TypeOK'
    BY <1>7, <1>0 DEF EndState, TypeOK, thrVars, stopVars, storeVars, locVars, suspVars
  <2>3. SyncInv' /\ (Judging' => Judging)
    BY <1>7, <1>0 DEF EndState, Types, SyncInv, Judging, thrVars, stopVars
  <2>4. WaitingExact'
    BY <1>7, <1>0 DEF EndState, WaitingExact, thrVars, stopVars
  <2>5. \A u \in threads : PollOK(u)'
    BY <1>7, <1>0, ZoneFrame, <2>1 DEF EndState, Types, PollOK, thrVars, stopVars
  <2>6. \A u \in Threads : type[u] # "running" => Judging' \/ vpc' = "restart"
    BY <1>7, <1>0 DEF EndState, Types, Judging
  <2>7. \A u \in threads : type[u] = "at_safepoint" \/ (type[u] = "call_back" /\ calledBack[u])
    BY <1>7 DEF Disarm, EndState, StopInv, TypesInv
  <2> QED BY <1>7, <2>1, <2>2, <2>3, <2>4, <2>5, <2>6, <2>7, MoveStep DEF EndState
<1>8. CASE End
  <2>1. UNCHANGED <<thrVars, stopVars, storeVars, crit, unlockFlag>>
    BY <1>8 DEF End
  <2>2. TypeOK'
    BY <1>8, <1>0 DEF End, TypeOK, thrVars, stopVars, storeVars, locVars, suspVars
  <2>3. SyncInv' /\ (Judging' => Judging)
    BY <1>8, <1>0 DEF End, Types, SyncInv, Judging, thrVars, stopVars
  <2>4. WaitingExact'
    BY <1>8, <1>0 DEF End, WaitingExact, thrVars, stopVars
  <2>5. \A u \in threads : PollOK(u)'
    BY <1>8, <1>0, ZoneFrame, <2>1 DEF End, Types, PollOK, thrVars, stopVars
  <2>6. \A u \in Threads : type[u] # "running" => Judging' \/ vpc' = "restart"
    BY <1>8, <1>0 DEF End, Types
  <2> QED BY <1>8, <2>1, <2>2, <2>3, <2>4, <2>5, <2>6, MoveStep DEF End
<1>9. ASSUME NEW t \in Threads, Examine(t)
      PROVE  StopInv'
  <2>1. UNCHANGED <<thrVars, stopVars, storeVars, crit, unlockFlag>>
    BY <1>9 DEF Examine
  <2>2. TypeOK'
    BY <1>9, <1>0 DEF Examine, TypeOK, thrVars, stopVars, storeVars, locVars, suspVars, StoreTypes
  <2>3. SyncInv' /\ (Judging' => Judging)
    BY <1>9, <1>0 DEF Examine, Types, SyncInv, Judging, thrVars, stopVars, TypeOK
  <2>4. WaitingExact'
    BY <1>9, <1>0 DEF Examine, WaitingExact, thrVars, stopVars
  <2>5. \A u \in threads : PollOK(u)'
    BY <1>9, <1>0, ZoneFrame, <2>1 DEF Examine, Types, PollOK, thrVars, stopVars
  <2>6. \A u \in Threads : type[u] # "running" => Judging' \/ vpc' = "restart"
    BY <1>9, <1>0 DEF Examine, Types, Judging
  <2>7. /\ seen'.state \in {"native", "blocked"} => SafeZone(seen'.thread)
        /\ seen'.state = "vm" => VMZone(seen'.thread)
    <3>1. seen'.thread = t /\ seen'.state = vis[t] /\ t \in threads /\ Judging
      BY <1>9 DEF Examine, Judging
    <3>2. vis[t] \in Vals(t) /\ SeenOK(t)
      BY <3>1 DEF Vals, StopInv, LocalInv
    <3> QED BY <3>1, <3>2 DEF SeenOK
  <2> QED BY <1>9, <2>1, <2>2, <2>3, <2>4, <2>5, <2>6, <2>7, MoveStep DEF Examine
<1> QED BY <1>1, <1>2, <1>3, <1>4, <1>5, <1>6, <1>7, <1>8, <1>9

\* Serialization leaves nothing to be seen of a thread but its own state.
LEMMA SerializeEffect ==
  ASSUME StoreTypes, serialize_thread_states
  PROVE  /\ StoreTypes'
         /\ \A u \in Threads : own(u)' = own(u)
         /\ \A u \in Threads : UseMembar => Vals(u)' = Vals(u)
         /\ \A u \in Threads : ~UseMembar => Vals(u)' = {own(u)}
<1>1. CASE UseMembar
  BY <1>1, NoStoreEffect DEF serialize_thread_states
<1>2. CASE ~UseMembar
  <2>1. /\ vis' = [u \in Threads |-> own(u)] /\ buf' = [u \in Threads |-> << >>]
        /\ \A u \in Threads : own(u) \in States
    BY <1>2, OwnInVals DEF serialize_thread_states
  <2>2. StoreTypes'
    BY SMTT(60), <2>1 DEF StoreTypes
  <2>3. \A u \in Threads : vis'[u] = own(u) /\ buf'[u] = << >>
    BY <2>1
  <2>4. \A u \in Threads : own(u)' = own(u) /\ Vals(u)' = {own(u)}
    <3> TAKE u \in Threads
    <3>1. own(u)' = vis'[u]
      BY <2>3 DEF own
    <3>2. Vals(u)' = {vis'[u]}
      BY SMTT(60), <2>3 DEF Vals
    <3> QED BY <2>3, <3>1, <3>2
  <2> QED BY <1>2, <2>2, <2>4
<1> QED BY <1>1, <1>2

\* From here on what the VM thread may read of a thread is true.
LEMMA ArmStep ==
  ASSUME StopInv, Arm
  PROVE  StopInv'
<1>0. TypeOK /\ StoreTypes /\ Types
  BY TypesLemma DEF StopInv, TypeOK, StoreTypes
<1>1. /\ UNCHANGED <<syncState, waiting, threads, type, calledBack, pc, dest, orig, suspended,
                     crit, lazy, unlockFlag>>
      /\ vpc = "serialize" /\ vpc' = "spin" /\ armed'
  BY DEF Arm, thrVars, stopVars, locVars, suspVars
<1>2. /\ StoreTypes'
      /\ \A u \in Threads : own(u)' = own(u)
      /\ \A u \in Threads : UseMembar => Vals(u)' = Vals(u)
      /\ \A u \in Threads : ~UseMembar => Vals(u)' = {own(u)}
  BY <1>0, SerializeEffect DEF Arm
<1>3. TypeOK'
  BY <1>0, <1>2 DEF Arm, TypeOK, StoreTypes, thrVars, stopVars, locVars, suspVars
<1>4. \A u \in Threads : type[u] = "running"
  BY <1>0, <1>1 DEF Types, Judging
<1>5. \A u \in Threads :
        /\ LocOK(u) /\ CritOK(u) /\ LazyOK(u) /\ MembarOK(u)
        /\ own(u) \in States /\ pc[u] \in Pcs
  BY <1>0, OwnInVals DEF StopInv, LocalInv, TypeOK
<1>6. \A u \in Threads : LocOK(u)' /\ CritOK(u)' /\ LazyOK(u)'
  BY SMTT(60), <1>1, <1>2, <1>5 DEF LocOK, CritOK, LazyOK
<1>7. \A u \in Threads : MembarOK(u)'
  BY <1>2, <1>5 DEF MembarOK
<1>8. \A u \in Threads : /\ own(u) \in {"native", "blocked"} => SafeZone(u)
                         /\ own(u) = "vm" => VMZone(u)
  BY <1>5 DEF LocOK, SafeZone, VMZone, Pcs, Stable
<1>9. \A u \in Threads : SeenOK(u)'
  <2> TAKE u \in Threads
  <2>1. /\ "native" \in Vals(u)' \/ "blocked" \in Vals(u)' => own(u) \in {"native", "blocked"}
        /\ "vm" \in Vals(u)' => own(u) = "vm"
    BY <1>2, <1>5 DEF MembarOK
  <2>2. SafeZone(u) => SafeZone(u)'
    BY <1>1, <1>2 DEF SafeZone
  <2>3. VMZone(u) => VMZone(u)'
    BY <1>1, <1>2 DEF VMZone
  <2> QED BY <1>8, <2>1, <2>2, <2>3 DEF SeenOK
<1>10. \A u \in threads : PollOK(u)'
  BY <1>0, <1>1, <1>4 DEF PollOK, Types
<1>11. LocalInv'
  BY <1>0, <1>1, <1>6, <1>7, <1>9, <1>10 DEF LocalInv, Types
<1>12. SyncInv'
  BY <1>0, <1>1 DEF SyncInv, Types
<1>13. JudgeInv' /\ TypesInv'
  <2>1. \A u \in Threads : ~calledBack[u]
    BY <1>4 DEF StopInv, TypesInv
  <2> QED BY <1>0, <1>1, <1>4, <2>1 DEF JudgeInv, TypesInv, Types
<1>14. WaitingExact'
  BY <1>1 DEF StopInv, WaitingExact
<1> QED BY <1>3, <1>11, <1>12, <1>13, <1>14 DEF StopInv

\* The threads are restarted while _state is already _not_synchronized.
LEMMA RestartStep ==
  ASSUME StopInv, NEW t \in Threads, Restart(t)
  PROVE  StopInv'
<1>0. TypeOK /\ Types
  BY TypesLemma DEF StopInv
<1>1. /\ UNCHANGED <<syncState, waiting, armed, vpc, seen, thrVars, storeVars, crit, unlockFlag>>
      /\ vpc = "restart" /\ t \in threads
      /\ type' = [type EXCEPT ![t] = "running"] /\ calledBack' = [calledBack EXCEPT ![t] = FALSE]
  BY DEF Restart, vmVars
<1>2. TypeOK'
  BY <1>0 DEF Restart, TypeOK, vmVars, thrVars, storeVars, locVars, suspVars
<1>3. /\ threads' = threads
      /\ \A u \in Threads : LocOK(u)' /\ LazyOK(u)' /\ MembarOK(u)' /\ own(u)' = own(u)
  BY <1>1, ZoneFrame
<1>4. \A u \in Threads : CritOK(u)' /\ pc'[u] = pc[u]
  BY <1>1 DEF StopInv, LocalInv, CritOK, thrVars
<1>5. LocalInv'
  BY <1>0, <1>1, <1>3, <1>4 DEF LocalInv, Types, Judging, PollOK
<1>6. SyncInv' /\ JudgeInv' /\ WaitingExact'
  BY <1>0, <1>1 DEF SyncInv, JudgeInv, WaitingExact, Types, Judging
<1>7. \A u \in Threads :
        /\ u # t => type'[u] = type[u] /\ calledBack'[u] = calledBack[u]
        /\ u = t => type'[u] = "running" /\ ~calledBack'[u]
  BY <1>0, <1>1 DEF TypeOK
<1>8. TypesInv'
  <2>1. /\ \A u \in Threads : type[u] # "running" => u \in threads
        /\ \A u \in Threads : calledBack[u] => type[u] = "call_back" /\ pc[u] = "blockThreads"
        /\ \A u \in threads : type[u] = "call_back" => calledBack[u]
    BY <1>1 DEF StopInv, TypesInv
  <2>2. \A u \in Threads :
          /\ type'[u] # "running" => u \in threads' /\ (Judging' \/ vpc' = "restart")
          /\ calledBack'[u] => type'[u] = "call_back" /\ pc'[u] = "blockThreads"
    BY <1>1, <1>3, <1>4, <1>7, <2>1
  <2>3. \A u \in threads' : type'[u] = "call_back" => calledBack'[u]
    BY <1>0, <1>3, <1>7, <2>1 DEF Types
  <2> QED BY <1>1, <2>2, <2>3 DEF TypesInv
<1> QED BY <1>2, <1>5, <1>6, <1>8 DEF StopInv

\* The decision on one thread.
LEMMA DecideStep ==
  ASSUME StopInv, TypeOK', NEW t \in threads, vpc = "decide", vpc' = "spin", type[t] = "running",
         UNCHANGED <<syncState, armed, thrVars, storeVars>>,
         \A u \in Threads \ {t} : type'[u] = type[u] /\ calledBack'[u] = calledBack[u],
         ~calledBack'[t],
         type'[t] = "at_safepoint" => SafeZone(t),
         type'[t] = "call_back" => VMZone(t),
         \A u \in Threads : CritOK(u)',
         WaitingExact'
  PROVE  StopInv'
<1>0. /\ TypeOK /\ Types /\ t \in Threads
      /\ type'[t] \in {"running", "at_safepoint", "call_back"}
      /\ \A u \in Threads : u = t \/ u \in Threads \ {t}
  BY TypesLemma DEF StopInv, TypeOK
<1>1. /\ threads' = threads
      /\ \A u \in Threads :
              /\ own(u)' = own(u)
              /\ LocOK(u)' /\ LazyOK(u)' /\ MembarOK(u)'
              /\ SafeZone(u) <=> SafeZone(u)'
              /\ VMZone(u) <=> VMZone(u)'
              /\ SeenOK(u) <=> SeenOK(u)'
  BY ZoneFrame
<1>2. pc' = pc /\ armed' = armed /\ syncState' = syncState /\ Judging /\ Judging'
  BY DEF thrVars, Judging
<1>3. \A u \in threads : PollOK(u)'
  <2>1. type'[t] # "running" => ~(pc[t] = "block" /\ own(t) = "Java")
    BY <1>0 DEF SafeZone, VMZone
  <2>2. PollOK(t)'
    BY SMTT(60), <1>0, <1>1, <1>2, <2>1 DEF PollOK, Types
  <2>3. \A u \in Threads \ {t} : u \in threads => PollOK(u)'
    BY SMTT(60), <1>0, <1>1, <1>2 DEF PollOK, Types
  <2> QED BY <1>0, <2>2, <2>3 DEF Types
<1>4. LocalInv'
  BY <1>0, <1>1, <1>2, <1>3 DEF StopInv, LocalInv, Types
<1>5. SyncInv'
  BY <1>0, <1>2 DEF SyncInv, Types
<1>6. JudgeInv'
  <2>1. \A u \in threads : /\ type'[u] = "at_safepoint" => SafeZone(u)'
                           /\ type'[u] = "call_back" /\ ~calledBack'[u] => VMZone(u)'
    BY <1>0, <1>1, <1>2 DEF StopInv, JudgeInv, Types
  <2> QED BY <1>1, <2>1 DEF JudgeInv
<1>7. TypesInv'
  BY <1>0, <1>1, <1>2 DEF StopInv, TypesInv
<1> QED BY <1>4, <1>5, <1>6, <1>7 DEF StopInv

\* One thread fewer to wait for.
LEMMA OneFewer ==
  ASSUME StopInv, NEW t \in threads, t \in Awaited, t \notin Awaited', threads' = threads,
         vpc \in {"decide", "waiting"}, waiting' = waiting - 1,
         \A u \in Threads \ {t} : type'[u] = type[u] /\ calledBack'[u] = calledBack[u]
  PROVE  WaitingExact'
<1>1. Awaited' = Awaited \ {t}
  BY DEF Awaited, StopInv, TypeOK
<1>2. Cardinality(Awaited \ {t}) = Cardinality(Awaited) - 1
  BY AwaitedFinite, FS_RemoveElement
<1> QED BY <1>1, <1>2, WaitingAwaited DEF StopInv

\* examine_state_of_thread, on a state that may be old, decides rightly.
LEMMA RollForwardStep ==
  ASSUME StopInv, NEW t \in Threads, RollForward(t)
  PROVE  StopInv'
<1>0. /\ TypeOK /\ Types /\ WaitingExact
      /\ \A u \in Threads : CritOK(u)
      /\ vpc = "decide" /\ vpc' = "spin" /\ seen.thread = t /\ t \in threads /\ type[t] = "running"
      /\ UNCHANGED <<syncState, armed, thrVars, storeVars>> /\ threads' = threads /\ pc' = pc
  BY TypesLemma DEF StopInv, LocalInv, SyncInv, RollForward, thrVars
<1>1. t \in Awaited /\ ~calledBack[t]
  BY <1>0 DEF Awaited, StopInv, TypesInv
<1>2. CASE AtSafepoint(t, crit[t]) \/ AtSafepoint(t, crit[t] + 1)
  <2>1. /\ type' = [type EXCEPT ![t] = "at_safepoint"] /\ waiting' = waiting - 1
        /\ jniActive' \in Nat
    BY SMTT(60), <1>0, <1>2 DEF AtSafepoint, TypeOK
  <2>2. type'[t] = "at_safepoint" /\ calledBack' = calledBack
    BY SMTT(60), <1>0, <2>1 DEF RollForward, TypeOK
  <2>3. \A u \in Threads \ {t} : type'[u] = type[u] /\ calledBack'[u] = calledBack[u]
    BY <1>0, <2>1, <2>2 DEF TypeOK
  <2>4. \/ UNCHANGED <<crit, unlockFlag>>
        \/ /\ crit' = [crit EXCEPT ![t] = crit[t] + 1]
           /\ unlockFlag' = [unlockFlag EXCEPT ![t] = TRUE]
    BY DEF RollForward
  <2>5. \A u \in Threads : CritOK(u)'
    <3>1. CASE UNCHANGED <<crit, unlockFlag>>
      BY <1>0, <3>1 DEF CritOK
    <3>2. CASE /\ crit' = [crit EXCEPT ![t] = crit[t] + 1]
               /\ unlockFlag' = [unlockFlag EXCEPT ![t] = TRUE]
      <4>1. \A u \in Threads \ {t} : crit'[u] = crit[u] /\ unlockFlag'[u] = unlockFlag[u]
        BY <1>0, <3>2 DEF TypeOK
      <4>2. crit'[t] >= 1
        BY SMTT(60), <1>0, <3>2 DEF TypeOK
      <4>3. unlockFlag'[t]
        BY <1>0, <3>2 DEF TypeOK
      <4> QED BY <1>0, <4>1, <4>2, <4>3 DEF CritOK
    <3> QED BY <2>4, <3>1, <3>2
  <2>6. SafeZone(t)
    <3>1. CASE suspended[t]
      BY <3>1 DEF StopInv, LocalInv, LocOK, SafeZone
    <3>2. CASE ~suspended[t]
      <4>1. seen.state \in {"native", "blocked"}
        BY <1>0, <2>2, <3>2 DEF RollForward, safepoint_safe, TypeOK, stopVars
      <4> QED BY <1>0, <4>1 DEF StopInv, JudgeInv
    <3> QED BY <3>1, <3>2
  <2>7. TypeOK'
    <3>1. /\ seen' \in [thread : Threads \cup {NoThread}, state : States]
          /\ type' \in [Threads -> {"running", "at_safepoint", "call_back"}]
          /\ waiting' \in Int
      BY SMTT(60), <1>0, <2>1 DEF RollForward, TypeOK, States, Stable
    <3>2. crit' \in [Threads -> Nat]
      <4>1. crit \in [Threads -> Nat]
        BY <1>0 DEF TypeOK
      <4>2. crit' = crit \/ crit' = [crit EXCEPT ![t] = crit[t] + 1]
        BY <2>4
      <4> QED BY SMTT(60), <4>1, <4>2
    <3>3. unlockFlag' \in [Threads -> BOOLEAN]
      <4>1. unlockFlag \in [Threads -> BOOLEAN]
        BY <1>0 DEF TypeOK
      <4>2. unlockFlag' = unlockFlag \/ unlockFlag' = [unlockFlag EXCEPT ![t] = TRUE]
        BY <2>4
      <4> QED BY <4>1, <4>2
    <3> QED BY <1>0, <2>1, <2>2, <3>1, <3>2, <3>3
            DEF RollForward, TypeOK, thrVars, storeVars, locVars, suspVars
  <2>8. WaitingExact'
    <3>1. t \notin Awaited'
      BY <2>2 DEF Awaited
    <3> QED BY <1>0, <1>1, <2>1, <2>3, <3>1, OneFewer
  <2> QED BY <1>0, <1>1, <2>2, <2>3, <2>5, <2>6, <2>7, <2>8, DecideStep
<1>3. CASE /\ seen.state = "vm" /\ type' = [type EXCEPT ![t] = "call_back"]
           /\ calledBack' = [calledBack EXCEPT ![t] = FALSE]
           /\ UNCHANGED <<waiting, jniActive, crit, unlockFlag>>
  <2>1. type'[t] = "call_back" /\ ~calledBack'[t]
    BY <1>0, <1>3 DEF TypeOK
  <2>2. \A u \in Threads \ {t} : type'[u] = type[u] /\ calledBack'[u] = calledBack[u]
    BY <1>0, <1>3 DEF TypeOK
  <2>3. VMZone(t)
    BY <1>0, <1>3 DEF StopInv, JudgeInv
  <2>4. TypeOK'
    <3>1. /\ seen' \in [thread : Threads \cup {NoThread}, state : States]
          /\ type' \in [Threads -> {"running", "at_safepoint", "call_back"}]
      BY <1>0, <1>3 DEF RollForward, TypeOK, States, Stable
    <3>2. calledBack' \in [Threads -> BOOLEAN]
      BY <1>0, <1>3 DEF TypeOK
    <3> QED BY SMTT(60), <1>0, <1>3, <3>1, <3>2 DEF RollForward, TypeOK, thrVars, storeVars, locVars, suspVars
  <2>5. \A u \in Threads : CritOK(u)'
    BY <1>0, <1>3 DEF CritOK
  <2>6. WaitingExact'
    <3>1. Awaited' = Awaited
      BY <1>0, <1>1, <2>1, <2>2 DEF Awaited, Types
    <3> QED BY <1>0, <1>3, <3>1, WaitingAwaited
  <2> QED BY <1>0, <2>1, <2>2, <2>3, <2>4, <2>5, <2>6, DecideStep
<1>4. CASE UNCHANGED <<stopVars, waiting, jniActive, crit, unlockFlag>>
  <2>1. type' = type /\ calledBack' = calledBack
    BY <1>4 DEF stopVars
  <2>2. TypeOK'
    <3>1. seen' \in [thread : Threads \cup {NoThread}, state : States]
      BY <1>0 DEF RollForward, TypeOK, States, Stable
    <3> QED BY <1>0, <1>4, <2>1, <3>1 DEF RollForward, TypeOK, thrVars, storeVars, locVars, suspVars
  <2>3. \A u \in Threads : CritOK(u)'
    BY <1>0, <1>4 DEF CritOK
  <2>4. WaitingExact'
    BY <1>0, <1>4, <2>1 DEF WaitingExact
  <2> QED BY <1>0, <1>1, <2>1, <2>2, <2>3, <2>4, DecideStep
<1> QED BY <1>2, <1>3, <1>4 DEF RollForward

\* A thread calls back under Safepoint_lock: it is awaited, and no longer is.
LEMMA BlockUnderLockStep ==
  ASSUME StopInv, NEW t \in Threads, BlockUnderLock(t)
  PROVE  StopInv'
<1>0. /\ TypeOK /\ StoreTypes /\ Types /\ Here(t) /\ WaitingExact
      /\ \A u \in Threads : u = t \/ u \in Threads \ {t}
      /\ pc[t] = "blockLock" /\ t \in threads /\ own(t) = "vm"
      /\ orig[t] \in {"vm_trans", "Java"}
      /\ ~SafeZone(t) /\ ~calledBack[t]
  BY HereLemma, TypesLemma DEF StopInv, BlockUnderLock, Here, LocOK, SafeZone
<1>1. vpc \in {"idle", "locked", "waiting"}
  BY <1>0 DEF BlockUnderLock, SafepointLockFree, StopInv, JudgeInv, TypesInv, Judging
<1>2. /\ UNCHANGED <<syncState, armed, vpc, seen, threads, type, dest, orig, suspended,
                     crit, lazy, unlockFlag>>
      /\ pc' = [pc EXCEPT ![t] = "blockThreads"] /\ StoreFence(t, "blocked")
  BY DEF BlockUnderLock, Goto, locVars, suspVars, critVars
<1>3. StoreTypes' /\ Others(t) /\ own(t)' = "blocked" /\ Vals(t)' = {"blocked"}
  BY <1>0, <1>2, FenceEffect, StateNames DEF Stable
<1>4. /\ pc'[t] = "blockThreads" /\ lazy[t] \in BOOLEAN
      /\ \A u \in Threads \ {t} : pc'[u] = pc[u]
  BY <1>0, <1>2 DEF TypeOK
<1>5. \A u \in Threads \ {t} :
        /\ LocOK(u)' /\ CritOK(u)' /\ LazyOK(u)' /\ MembarOK(u)'
        /\ u \in threads => PollOK(u)'
        /\ SeenOK(u) <=> SeenOK(u)'
        /\ SafeZone(u) <=> SafeZone(u)'
        /\ VMZone(u) <=> VMZone(u)'
  <2>1. \A u \in Threads \ {t} :
          /\ LocOK(u) /\ CritOK(u) /\ LazyOK(u) /\ MembarOK(u)
          /\ u \in threads => PollOK(u)
    BY DEF StopInv, LocalInv
  <2>2. \A u \in Threads \ {t} : own(u)' = own(u) /\ Vals(u)' = Vals(u)
    BY <1>3 DEF Others
  <2>3. \A u \in Threads \ {t} : LocOK(u)' /\ CritOK(u)' /\ LazyOK(u)'
    <3>1. \A u \in Threads \ {t} : LocOK(u)'
      BY SMTT(60), <1>2, <1>4, <2>1, <2>2 DEF LocOK
    <3>2. \A u \in Threads \ {t} : CritOK(u)' /\ LazyOK(u)'
      BY <1>2, <1>4, <2>1, <2>2 DEF CritOK, LazyOK
    <3> QED BY <3>1, <3>2
  <2>4. \A u \in Threads \ {t} : MembarOK(u)' /\ (u \in threads => PollOK(u)')
    BY <1>2, <1>4, <2>1, <2>2 DEF MembarOK, PollOK
  <2>5. \A u \in Threads \ {t} :
          /\ SeenOK(u) <=> SeenOK(u)'
          /\ SafeZone(u) <=> SafeZone(u)'
          /\ VMZone(u) <=> VMZone(u)'
    BY SMTT(60), <1>2, <1>4, <2>2 DEF SeenOK, SafeZone, VMZone
  <2> QED BY <2>3, <2>4, <2>5
<1>6. LocOK(t)' /\ CritOK(t)' /\ LazyOK(t)' /\ MembarOK(t)' /\ PollOK(t)' /\ SeenOK(t)'
  BY <1>0, <1>2, <1>3, <1>4 DEF Here, LocOK, CritOK, LazyOK, MembarOK, PollOK, SeenOK, SafeZone
<1>7. LocalInv'
  <2>1. Judging' <=> Judging
    BY <1>2 DEF Judging
  <2> QED BY <1>0, <1>2, <1>5, <1>6, <2>1 DEF LocalInv, Types, StopInv
<1>8. SyncInv'
  BY <1>2 DEF StopInv, SyncInv
<1>9. CASE vpc = "waiting"
  <2>1. /\ waiting' = waiting - 1 /\ calledBack' = [calledBack EXCEPT ![t] = TRUE]
        /\ jniActive' = jniActive + (IF crit[t] > 0 THEN 1 ELSE 0)
        /\ notified' = (notified \/ waiting' = 0)
    BY <1>0, <1>9 DEF BlockUnderLock, Types
  <2>2. calledBack'[t] /\ \A u \in Threads \ {t} : calledBack'[u] = calledBack[u]
    BY <1>0, <2>1 DEF TypeOK
  <2>3. type[t] = "call_back"
    BY <1>0, <1>9 DEF StopInv, TypesInv, JudgeInv, Judging, Types
  <2>4. TypeOK'
    <3>1. /\ waiting' \in Int /\ jniActive' \in Nat
          /\ pc' \in [Threads -> Pcs]
      BY SMTT(60), <1>0, <1>2, <2>1 DEF TypeOK, Pcs
    <3>2. notified' \in BOOLEAN /\ calledBack' \in [Threads -> BOOLEAN]
      BY <1>0, <2>1 DEF TypeOK
    <3> QED BY <1>0, <1>2, <1>3, <3>1, <3>2 DEF BlockUnderLock, TypeOK, StoreTypes, suspVars
  <2>5. JudgeInv'
    BY <1>0, <1>2, <1>5, <1>9, <2>2, <2>3 DEF StopInv, JudgeInv, Judging, Types
  <2>6. TypesInv'
    BY <1>0, <1>2, <1>4, <1>9, <2>2, <2>3 DEF StopInv, TypesInv, Judging
  <2>7. WaitingExact'
    <3>1. t \in Awaited /\ t \notin Awaited'
      BY <1>0, <1>2, <2>2, <2>3 DEF Awaited
    <3> QED BY <1>0, <1>2, <1>9, <2>1, <2>2, <3>1, OneFewer
  <2> QED BY <1>7, <1>8, <2>4, <2>5, <2>6, <2>7 DEF StopInv
<1>10. CASE vpc \in {"idle", "locked"}
  <2>1. UNCHANGED <<waiting, calledBack, jniActive, notified>>
    BY <1>0, <1>10 DEF BlockUnderLock, Types
  <2>2. TypeOK'
    <3>1. pc' \in [Threads -> Pcs]
      BY <1>0, <1>2 DEF TypeOK, Pcs
    <3> QED BY <1>0, <1>2, <1>3, <2>1, <3>1 DEF BlockUnderLock, TypeOK, StoreTypes, suspVars
  <2>3. \A u \in Threads : type[u] = "running" /\ ~calledBack[u]
    BY <1>10 DEF StopInv, TypesInv, Judging, TypeOK
  <2>4. JudgeInv' /\ WaitingExact'
    BY <1>2, <1>10 DEF JudgeInv, WaitingExact, Judging
  <2>5. TypesInv'
    BY <1>2, <1>10, <2>1, <2>3 DEF TypesInv
  <2> QED BY <1>7, <1>8, <2>2, <2>4, <2>5 DEF StopInv
<1> QED BY <1>1, <1>9, <1>10

-----------------------------------------------------------------------------

\* Before the first thread starts.
LEMMA InitStop == Init => StopInv
<1> SUFFICES ASSUME Init PROVE StopInv
  OBVIOUS
<1>1. TypeOK
  <2>1. seen \in [thread : Threads \cup {NoThread}, state : States]
    BY DEF Init, States, Stable
  <2>2. vis \in [Threads -> States] /\ buf \in [Threads -> Seq(States)]
    <3>1. << >> \in Seq(States) /\ "new" \in States
      BY SMTT(60) DEF States, Stable
    <3> QED BY <3>1 DEF Init
  <2>3. /\ pc \in [Threads -> Pcs] /\ dest \in [Threads -> Stable] /\ orig \in [Threads -> States]
        /\ crit \in [Threads -> Nat]
    BY DEF Init, States, Stable, Pcs
  <2>4. /\ calledBack \in [Threads -> BOOLEAN] /\ external \in [Threads -> BOOLEAN]
        /\ suspended \in [Threads -> BOOLEAN] /\ lazy \in [Threads -> BOOLEAN]
        /\ unlockFlag \in [Threads -> BOOLEAN]
    BY DEF Init
  <2>5. /\ type \in [Threads -> {"running", "at_safepoint", "call_back"}]
        /\ waiting \in Int /\ jniActive \in Nat /\ jniLockCount \in Nat /\ counter \in Nat
    BY SMTT(60) DEF Init
  <2> QED BY <2>1, <2>2, <2>3, <2>4, <2>5, Zenon DEF Init, TypeOK
<1>2. \A t \in Threads : own(t) = "new" /\ Vals(t) = {"new"}
  BY SMTT(60) DEF Init, own, Vals
<1>3. LocalInv
  BY SMTT(60), <1>2 DEF Init, LocalInv, LocOK, CritOK, LazyOK, MembarOK
<1>4. SyncInv /\ JudgeInv /\ TypesInv /\ WaitingExact
  BY DEF Init, SyncInv, JudgeInv, TypesInv, WaitingExact, Judging
<1> QED BY <1>1, <1>3, <1>4 DEF StopInv

\* Steps outside the model.
LEMMA StutterStop ==
  ASSUME StopInv, UNCHANGED vars
  PROVE  StopInv'
<1>0. UNCHANGED <<vmVars, threads, stopVars, storeVars, pc, locVars, suspVars, critVars>>
  BY DEF vars
<1>1. UNCHANGED <<thrVars, stopVars, storeVars, crit, unlockFlag, syncState, waiting, jniActive,
                  jniLockCount, counter, armed, vpc, seen, notified, type, calledBack>>
  BY <1>0 DEF thrVars, vmVars, stopVars, critVars, locVars, suspVars
<1>2. TypeOK /\ TypeOK'
  BY <1>1 DEF StopInv, TypeOK, thrVars, storeVars, locVars, suspVars
<1>3. SyncInv' /\ WaitingExact' /\ (Judging' <=> Judging)
  BY <1>1 DEF StopInv, SyncInv, WaitingExact, Judging, thrVars
<1>4. \A u \in threads : PollOK(u)'
  BY <1>1, ZoneFrame DEF StopInv, LocalInv, PollOK, thrVars
<1>5. /\ vpc' = "decide" => /\ seen'.state \in {"native", "blocked"} => SafeZone(seen'.thread)
                            /\ seen'.state = "vm" => VMZone(seen'.thread)
      /\ \A u \in Threads : type[u] # "running" => Judging' \/ vpc' = "restart"
      /\ vpc' = "waiting" => \A u \in threads : type[u] # "running"
      /\ vpc' \in {"stopped", "disarmed"} =>
           \A u \in threads : type[u] = "at_safepoint" \/ (type[u] = "call_back" /\ calledBack[u])
      /\ vpc' = "restart" => \A u \in threads : type[u] = "call_back" => calledBack[u]
  BY <1>1, <1>3 DEF StopInv, JudgeInv, TypesInv
<1> QED BY <1>1, <1>2, <1>3, <1>4, <1>5, MoveStep

\* StopInv is inductive.
LEMMA NextStop ==
  ASSUME StopInv, [Next]_vars
  PROVE  StopInv'
<1>1. ASSUME NEW t \in Threads, Inner(t) \/ Drain(t) PROVE StopInv'
  BY <1>1, PollSteps, TransitionSteps, BlockSteps, BlockUnderLockStep DEF Inner
<1>2. ASSUME NEW t \in Threads, Outer(t) PROVE StopInv'
  BY <1>2, PollSteps, JavaSteps, LockedSteps DEF Outer
<1>3. CASE VMStep
  BY <1>3, VMSteps, ArmStep, RollForwardStep, RestartStep DEF VMStep
<1> QED BY <1>1, <1>2, <1>3, StutterStop DEF Next

\* StopInv always holds: the argument behind all theorems below.
THEOREM StopInvariant == Spec => []StopInv
BY InitStop, NextStop, PTL DEF Spec

\* The type invariant.
THEOREM TypeCorrect == Spec => []TypeOK
<1>1. StopInv => TypeOK
  BY DEF StopInv
<1> QED BY <1>1, StopInvariant, PTL

\* While _state is _synchronized no thread of the list runs Java or VM code,
\* for any number of threads, of buffered stores and of safepoints, with and
\* without UseMembar, whatever states examine_state_of_thread read.
THEOREM WorldIsStopped == Spec => []StoppedWorld
<1>1. StopInv => StoppedWorld
  <2> SUFFICES ASSUME StopInv, syncState = "synchronized", NEW t \in threads PROVE ~Mutating(t)
    BY DEF StoppedWorld
  <2>1. /\ vpc \in {"stopped", "disarmed"} /\ t \in Threads /\ Judging
        /\ type[t] = "at_safepoint" \/ (type[t] = "call_back" /\ calledBack[t])
    BY DEF StopInv, SyncInv, TypesInv, TypeOK, Judging
  <2>2. SafeZone(t)
    BY <2>1 DEF StopInv, JudgeInv, TypesInv, SafeZone
  <2> QED BY <2>2 DEF SafeZone, Mutating
<1> QED BY <1>1, StopInvariant, PTL

\* _waiting_to_block counts exactly the threads that begin() still waits for:
\* block() and roll_forward() never both count a thread, nor does none of them.
THEOREM WaitingIsExact == Spec => []WaitingExact
<1>1. StopInv => WaitingExact
  BY DEF StopInv
<1> QED BY <1>1, StopInvariant, PTL

\* The asserts and fatal errors of block() and of the polling page handler
\* are never met.
THEOREM BlockAssertsHold == Spec => []BlockAsserts
<1>1. StopInv => BlockAsserts
  <2> SUFFICES ASSUME StopInv, NEW t \in threads, pc[t] = "block"
               PROVE  /\ own(t) = "Java" => syncState = "synchronizing" /\ type[t] = "running"
                      /\ own(t) # "Java" =>
                           own(t) \in {"vm_trans", "native_trans", "blocked_trans", "new_trans"}
                      /\ own(t) \in {"native_trans", "blocked_trans", "new_trans"} =>
                           type[t] # "call_back"
    BY DEF BlockAsserts
  <2>0. t \in Threads /\ Types
    BY TypesLemma DEF StopInv, TypeOK
  <2>1. own(t) \in {"new_trans", "native_trans", "vm_trans", "blocked_trans", "Java"}
    BY <2>0 DEF StopInv, LocalInv, LocOK
  <2>2. own(t) = "Java" => armed /\ type[t] = "running"
    BY DEF StopInv, LocalInv, PollOK
  <2>3. armed /\ type[t] = "running" => vpc \in {"spin", "decide", "waiting"}
    BY <2>0 DEF StopInv, SyncInv, TypesInv
  <2>4. own(t) \in {"native_trans", "blocked_trans", "new_trans"} => ~VMZone(t) /\ ~calledBack[t]
    BY <2>0 DEF VMZone, StopInv, TypesInv
  <2>5. type[t] = "call_back" => calledBack[t] \/ VMZone(t)
    BY <2>0 DEF StopInv, TypesInv, JudgeInv
  <2> QED BY <2>0, <2>1, <2>2, <2>3, <2>4, <2>5 DEF Types
<1> QED BY <1>1, StopInvariant, PTL

-----------------------------------------------------------------------------
(* What a step may do to the types and to the critical counts.             *)

\* The steps of the threads that leave both, and the VM thread, alone.
LEMMA ThreadTypes ==
  ASSUME NEW t \in Threads, Inner(t) \/ Outer(t) \/ Drain(t),
         ~BlockUnderLock(t), ~EnterCritical(t), ~LeaveCritical(t), ~LazyUnlock(t)
  PROVE  /\ UNCHANGED <<syncState, jniActive, jniLockCount, vpc, type, calledBack, crit>>
         /\ threads' # threads => vpc = "idle"
<1>1. CASE Inner(t)
  BY <1>1 DEF Inner, Check, SetTo, CheckNative, CheckFlags, SuspendTest, SuspendSelf, SuspendReturn,
              RestoreState, CheckAgain, SpecialExit, Block, BlockReturn, LazyExit,
              vmVars, stopVars, critVars
<1>2. CASE Outer(t)
  BY <1>2 DEF Outer, Start, Exit, EnterVM, Poll, JavaToNative, Leave, FromNative, RequestSuspend,
              Resume, ThreadsLockFree, vmVars, stopVars, critVars
<1>3. CASE Drain(t)
  BY <1>3 DEF Drain, vmVars, stopVars, critVars
<1> QED BY <1>1, <1>2, <1>3

\* The steps of a thread that change its critical count.
LEMMA CriticalTypes ==
  ASSUME StopInv, NEW t \in Threads, EnterCritical(t) \/ LeaveCritical(t) \/ LazyUnlock(t)
  PROVE  /\ UNCHANGED <<syncState, jniActive, jniLockCount, vpc, type, calledBack, threads>>
         /\ \A u \in Threads \ {t} : crit'[u] = crit[u]
         /\ (pc[t] = "run" /\ own(t) = "vm") \/ pc[t] = "lazyUnlock"
BY DEF EnterCritical, LeaveCritical, LazyUnlock, vmVars, stopVars, StopInv, TypeOK

\* A thread the VM thread has judged keeps its type until restart().
LEMMA TypeStable ==
  ASSUME StopInv, [Next]_vars, NEW t \in threads, type[t] = "at_safepoint", vpc # "restart"
  PROVE  type'[t] = "at_safepoint" /\ t \in threads'
<1>0. /\ TypeOK /\ t \in Threads
      /\ vpc # "idle"
      /\ vpc = "decide" => type[seen.thread] = "running"
  BY DEF StopInv, TypeOK, TypesInv, SyncInv, Judging
<1>1. ASSUME NEW u \in Threads, Inner(u) \/ Outer(u) \/ Drain(u)
      PROVE  type' = type /\ threads' = threads
  <2>1. CASE BlockUnderLock(u)
    BY <2>1 DEF BlockUnderLock
  <2>2. CASE EnterCritical(u) \/ LeaveCritical(u) \/ LazyUnlock(u)
    BY <2>2, CriticalTypes
  <2>3. CASE ~BlockUnderLock(u) /\ ~(EnterCritical(u) \/ LeaveCritical(u) \/ LazyUnlock(u))
    BY <1>0, <1>1, <2>3, ThreadTypes
  <2> QED BY <2>1, <2>2, <2>3
<1>2. CASE VMStep
  <2>1. ASSUME NEW u \in Threads, RollForward(u)
        PROVE  type'[t] = "at_safepoint" /\ t \in threads'
    <3>1. u # t
      BY <1>0, <2>1 DEF RollForward
    <3>2. type'[t] = type[t] /\ threads' = threads
      BY <1>0, <2>1, <3>1 DEF RollForward, AtSafepoint, TypeOK, thrVars, stopVars
    <3> QED BY <3>2
  <2>2. ASSUME NEW u \in Threads, Examine(u) \/ Restart(u)
        PROVE  type'[t] = "at_safepoint" /\ t \in threads'
    BY <2>2 DEF Examine, Restart, thrVars, stopVars
  <2>3. ASSUME \/ Begin \/ Synchronize \/ Arm \/ WaitToBlock \/ Notified \/ Stopped
               \/ Disarm \/ EndState \/ End
        PROVE  type'[t] = "at_safepoint" /\ t \in threads'
    BY <2>3 DEF Begin, Synchronize, Arm, WaitToBlock, Notified, Stopped, Disarm, EndState, End,
                thrVars, stopVars
  <2> QED BY <1>2, <2>1, <2>2, <2>3 DEF VMStep
<1>3. CASE UNCHANGED vars
  BY <1>3 DEF vars, stopVars
<1> QED BY <1>1, <1>2, <1>3 DEF Next

\* A thread judged to be at the safepoint does not get away before its end.
THEOREM NobodyEscapes == Spec => NoEscape
<1>1. ASSUME StopInv, StopInv', [Next]_vars
      PROVE  [\A t \in threads :
                type[t] = "at_safepoint" /\ syncState = "synchronizing"
                  /\ syncState' # "not_synchronized"
                  => type'[t] = "at_safepoint" /\ ~Mutating(t)']_vars
  <2> SUFFICES ASSUME NEW t \in threads, type[t] = "at_safepoint", syncState = "synchronizing",
                      syncState' # "not_synchronized"
               PROVE  type'[t] = "at_safepoint" /\ ~Mutating(t)'
    OBVIOUS
  <2>1. vpc # "restart"
    BY <1>1 DEF StopInv, SyncInv
  <2>2. type'[t] = "at_safepoint" /\ t \in threads'
    BY <1>1, <2>1, TypeStable
  <2>3. Judging'
    <3>1. t \in Threads
      BY <1>1 DEF StopInv, TypeOK
    <3>2. Judging' \/ vpc' = "restart"
      BY <1>1, <2>2, <3>1 DEF StopInv, TypesInv
    <3>3. vpc' # "restart"
      BY <1>1 DEF StopInv, SyncInv, TypeOK
    <3> QED BY <3>2, <3>3
  <2>4. SafeZone(t)'
    BY <1>1, <2>2, <2>3 DEF StopInv, JudgeInv
  <2> QED BY <2>2, <2>4 DEF SafeZone, Mutating
<1> QED BY <1>1, StopInvariant, PTL DEF Spec, NoEscape

-----------------------------------------------------------------------------
(* The number of threads in critical regions.                              *)

\* The threads _current_jni_active_count stands for.
Counted == {t \in threads : (type[t] = "at_safepoint" \/ calledBack[t]) /\ crit[t] > 0}

CountInv ==
  /\ Judging => jniActive = Cardinality(Counted)
  /\ vpc = "serialize" => jniActive = 0
  /\ syncState = "synchronized" => jniLockCount = jniActive

\* A thread is counted when it stops.
LEMMA CountOne ==
  ASSUME StopInv, NEW t \in threads, t \notin Counted, threads' = threads,
         jniActive = Cardinality(Counted),
         jniActive' = jniActive + (IF crit'[t] > 0 THEN 1 ELSE 0),
         type'[t] = "at_safepoint" \/ calledBack'[t],
         \A u \in Threads \ {t} : /\ type'[u] = type[u] /\ calledBack'[u] = calledBack[u]
                                  /\ crit'[u] = crit[u]
  PROVE  jniActive' = Cardinality(Counted')
<1>0. IsFiniteSet(Counted) /\ Cardinality(Counted) \in Nat /\ threads \subseteq Threads
  BY AwaitedFinite, FS_Subset, FS_CardinalityType DEF Counted, StopInv, TypeOK
<1>1. CASE crit'[t] > 0
  <2>1. Counted' = Counted \cup {t}
    BY <1>0, <1>1 DEF Counted
  <2>2. Cardinality(Counted \cup {t}) = Cardinality(Counted) + 1
    BY <1>0, FS_AddElement
  <2> QED BY <1>1, <2>1, <2>2
<1>2. CASE ~(crit'[t] > 0)
  <2>1. Counted' = Counted
    BY <1>0, <1>2 DEF Counted
  <2> QED BY SMTT(60), <1>0, <1>2, <2>1
<1> QED BY <1>1, <1>2

\* No thread changes its count once it has been counted.
LEMMA CountThreads ==
  ASSUME StopInv, StopInv', CountInv, NEW t \in Threads, Inner(t) \/ Outer(t) \/ Drain(t)
  PROVE  CountInv'
<1>1. CASE BlockUnderLock(t)
  <2>0. /\ TypeOK /\ pc[t] = "blockLock" /\ t \in threads /\ ~calledBack[t] /\ ~SafeZone(t)
        /\ (syncState = "synchronizing" <=> vpc \in {"serialize", "spin", "decide", "waiting"})
        /\ UNCHANGED <<syncState, jniLockCount, vpc, threads, type, crit>>
    BY <1>1 DEF BlockUnderLock, StopInv, LocalInv, LocOK, TypesInv, SafeZone, critVars, SyncInv
  <2>1. vpc \in {"idle", "locked", "waiting"}
    BY <1>1, <2>0 DEF BlockUnderLock, SafepointLockFree, StopInv, JudgeInv, TypesInv, Judging
  <2>2. CASE vpc = "waiting"
    <3>1. /\ calledBack' = [calledBack EXCEPT ![t] = TRUE]
          /\ jniActive' = jniActive + (IF crit[t] > 0 THEN 1 ELSE 0)
          /\ syncState = "synchronizing"
      BY <1>1, <2>0, <2>2 DEF BlockUnderLock
    <3>2. /\ calledBack'[t] /\ \A u \in Threads \ {t} : calledBack'[u] = calledBack[u]
      BY <2>0, <3>1 DEF TypeOK
    <3>3. t \notin Counted /\ jniActive = Cardinality(Counted)
      BY <2>0, <2>2 DEF Counted, StopInv, JudgeInv, Judging, CountInv
    <3>4. jniActive' = Cardinality(Counted')
      BY <2>0, <3>1, <3>2, <3>3, CountOne
    <3> QED BY <2>0, <2>2, <3>1, <3>4 DEF CountInv
  <2>3. CASE vpc \in {"idle", "locked"}
    <3>1. syncState # "synchronized"
      BY <2>3 DEF StopInv, SyncInv
    <3> QED BY <2>0, <2>3, <3>1 DEF CountInv, Judging
  <2> QED BY <2>1, <2>2, <2>3
<1>2. CASE EnterCritical(t) \/ LeaveCritical(t) \/ LazyUnlock(t)
  <2>0. /\ UNCHANGED <<syncState, jniActive, jniLockCount, vpc, type, calledBack, threads>>
        /\ \A u \in Threads \ {t} : crit'[u] = crit[u]
        /\ (pc[t] = "run" /\ own(t) = "vm") \/ pc[t] = "lazyUnlock"
        /\ threads \subseteq Threads
    BY <1>2, CriticalTypes DEF StopInv, TypeOK
  <2>1. Judging => ~(t \in threads /\ (type[t] = "at_safepoint" \/ calledBack[t]))
    BY <2>0 DEF StopInv, JudgeInv, TypesInv, SafeZone
  <2>2. Judging => Counted' = Counted
    BY <2>0, <2>1 DEF Counted
  <2> QED BY <2>0, <2>2 DEF CountInv, Judging
<1>3. CASE ~BlockUnderLock(t) /\ ~(EnterCritical(t) \/ LeaveCritical(t) \/ LazyUnlock(t))
  <2>0. /\ UNCHANGED <<syncState, jniActive, jniLockCount, vpc, type, calledBack, crit>>
        /\ threads' # threads => vpc = "idle"
    BY <1>3, ThreadTypes
  <2>1. Judging => Counted' = Counted
    BY <2>0 DEF Counted, Judging
  <2> QED BY <2>0, <2>1 DEF CountInv, Judging
<1> QED BY <1>1, <1>2, <1>3

\* The count is reset at the start and handed to the GC locker at the end.
LEMMA CountVM ==
  ASSUME StopInv, StopInv', CountInv, VMStep
  PROVE  CountInv'
<1>0. /\ TypeOK /\ Types
      /\ syncState' = "synchronized" <=> vpc' \in {"stopped", "disarmed"}
  BY TypesLemma DEF StopInv, SyncInv
<1>1. CASE Begin \/ Synchronize \/ EndState \/ End \/ \E t \in Threads : Restart(t)
  BY <1>0, <1>1 DEF Begin, Synchronize, EndState, End, Restart, CountInv, Judging, vmVars
<1>2. CASE Arm
  <2>1. \A u \in Threads : type[u] = "running"
    BY <1>0, <1>2 DEF Arm, Types, Judging
  <2>2. \A u \in Threads : ~calledBack[u]
    BY <2>1 DEF StopInv, TypesInv
  <2>3. Counted' = {}
    BY <1>0, <1>2, <2>1, <2>2 DEF Arm, Counted, Types, thrVars, stopVars
  <2>4. jniActive' = 0 /\ vpc' = "spin"
    BY <1>2 DEF Arm, CountInv
  <2> QED BY <1>0, <2>3, <2>4, FS_EmptySet DEF CountInv
<1>3. CASE WaitToBlock \/ Notified \/ Stopped \/ Disarm \/ \E t \in Threads : Examine(t)
  <2>1. /\ UNCHANGED <<threads, type, calledBack, crit, jniActive>> /\ Judging /\ vpc' # "serialize"
        /\ \/ syncState' = syncState /\ jniLockCount' = jniLockCount
           \/ jniLockCount' = jniActive
    BY <1>3 DEF WaitToBlock, Notified, Stopped, Disarm, Examine, Judging, thrVars, stopVars
  <2>2. Counted' = Counted
    BY <2>1 DEF Counted
  <2> QED BY <2>1, <2>2 DEF CountInv
<1>4. ASSUME NEW t \in Threads, RollForward(t)
      PROVE  CountInv'
  <2>0. /\ vpc = "decide" /\ vpc' = "spin" /\ t \in threads /\ type[t] = "running"
        /\ threads' = threads /\ ~calledBack[t] /\ t \notin Counted
        /\ jniActive = Cardinality(Counted)
    BY <1>4 DEF RollForward, StopInv, SyncInv, TypesInv, thrVars, Counted, CountInv, Judging
  <2>1. CASE AtSafepoint(t, crit'[t])
    <3>1. /\ type' = [type EXCEPT ![t] = "at_safepoint"]
          /\ jniActive' = jniActive + (IF crit'[t] > 0 THEN 1 ELSE 0)
      BY <2>1 DEF AtSafepoint
    <3>2. type'[t] = "at_safepoint" /\ \A u \in Threads \ {t} : type'[u] = type[u]
      BY <1>0, <3>1 DEF TypeOK
    <3>3. calledBack' = calledBack /\ \A u \in Threads \ {t} : crit'[u] = crit[u]
      BY <1>0, <1>4, <2>0, <3>2 DEF RollForward, TypeOK, stopVars
    <3>4. jniActive' = Cardinality(Counted')
      BY <2>0, <3>1, <3>2, <3>3, CountOne
    <3> QED BY <1>0, <2>0, <3>4 DEF CountInv
  <2>2. CASE /\ type' = [type EXCEPT ![t] = "call_back"]
             /\ calledBack' = [calledBack EXCEPT ![t] = FALSE]
             /\ UNCHANGED <<jniActive, crit>>
    <3>1. /\ type'[t] = "call_back" /\ ~calledBack'[t]
          /\ \A u \in Threads \ {t} : type'[u] = type[u] /\ calledBack'[u] = calledBack[u]
      BY <1>0, <2>2 DEF TypeOK
    <3>2. Counted' = Counted
      BY <1>0, <2>0, <2>2, <3>1 DEF Counted, Types
    <3> QED BY <1>0, <2>0, <2>2, <3>2 DEF CountInv
  <2>3. CASE UNCHANGED <<type, calledBack, jniActive, crit>>
    <3>1. Counted' = Counted
      BY <2>0, <2>3 DEF Counted
    <3> QED BY <1>0, <2>0, <2>3, <3>1 DEF CountInv
  <2>4. \/ AtSafepoint(t, crit'[t])
        \/ /\ type' = [type EXCEPT ![t] = "call_back"]
           /\ calledBack' = [calledBack EXCEPT ![t] = FALSE]
           /\ UNCHANGED <<jniActive, crit>>
        \/ UNCHANGED <<type, calledBack, jniActive, crit>>
    <3>1. crit' = [crit EXCEPT ![t] = crit[t] + 1] => crit'[t] = crit[t] + 1
      BY <1>0 DEF TypeOK
    <3> QED BY <1>4, <3>1 DEF RollForward, stopVars
  <2> QED BY <2>1, <2>2, <2>3, <2>4
<1> QED BY <1>1, <1>2, <1>3, <1>4 DEF VMStep

\* The GC locker is told the true number of threads in critical regions, the
\* regions that the VM thread entered for lazy critical natives included.
THEOREM JniCountIsExact == Spec => []JniCountExact
<1>1. Init => CountInv
  BY DEF Init, CountInv, Judging
<1>2. ASSUME StopInv, StopInv', CountInv, [Next]_vars
      PROVE  CountInv'
  <2>1. CASE UNCHANGED vars
    <3>1. UNCHANGED <<syncState, jniActive, jniLockCount, vpc, threads, type, calledBack, crit>>
      BY <2>1 DEF vars, vmVars, stopVars, critVars
    <3>2. Counted' = Counted
      BY <3>1 DEF Counted
    <3> QED BY <1>2, <3>1, <3>2 DEF CountInv, Judging
  <2> QED BY <1>2, <2>1, CountThreads, CountVM DEF Next
<1>3. StopInv /\ CountInv => JniCountExact
  <2> SUFFICES ASSUME StopInv, CountInv, syncState = "synchronized"
               PROVE  jniLockCount = Cardinality({t \in threads : crit[t] > 0})
    BY DEF JniCountExact
  <2>1. /\ vpc \in {"stopped", "disarmed"}
        /\ \A t \in threads : type[t] = "at_safepoint" \/ calledBack[t]
    BY DEF StopInv, SyncInv, TypesInv
  <2>2. Counted = {t \in threads : crit[t] > 0}
    BY <2>1 DEF Counted
  <2> QED BY <2>1, <2>2 DEF CountInv, Judging
<1> QED BY <1>1, <1>2, <1>3, StopInvariant, PTL DEF Spec

-----------------------------------------------------------------------------
(* Critical regions.                                                       *)

\* t runs Java code or a lazy critical native, or its transition leads there.
Bare(t) ==
  \/ lazy[t] \/ own(t) = "Java"
  \/ pc[t] \in {"blockLock", "blockThreads"} /\ orig[t] = "Java"
  \/ pc[t] \notin {"none", "run"} /\ dest[t] = "Java"

\* Such a thread has left the regions it entered itself, and the VM thread has
\* entered one for it only if it is still in a lazy critical native.
LeakOK(t) == (unlockFlag[t] => lazy[t]) /\ (Bare(t) => JniRegions(t) = 0)

LeakInv == \A t \in Threads : LeakOK(t)

\* A step of t leaves alone what LeakInv says of the others.
Apart(t) ==
  \A u \in Threads \ {t} :
    /\ own(u)' = own(u) /\ pc'[u] = pc[u] /\ dest'[u] = dest[u] /\ orig'[u] = orig[u]
    /\ crit'[u] = crit[u] /\ lazy'[u] = lazy[u] /\ unlockFlag'[u] = unlockFlag[u]

LEMMA LeakLocal ==
  ASSUME LeakInv, NEW t \in Threads, Apart(t), LeakOK(t)'
  PROVE  LeakInv'
<1>1. ASSUME NEW u \in Threads \ {t}
      PROVE  LeakOK(u)'
  <2>1. /\ own(u)' = own(u) /\ pc'[u] = pc[u] /\ dest'[u] = dest[u] /\ orig'[u] = orig[u]
        /\ crit'[u] = crit[u] /\ lazy'[u] = lazy[u] /\ unlockFlag'[u] = unlockFlag[u]
    BY DEF Apart
  <2>2. (Bare(u)' <=> Bare(u)) /\ JniRegions(u)' = JniRegions(u)
    BY <2>1 DEF Bare, JniRegions
  <2> QED BY <2>1, <2>2 DEF LeakInv, LeakOK
<1> QED BY <1>1 DEF LeakInv

\* A step that leaves the counts and flags of its thread alone, and takes it
\* towards Java code only if it holds no region.
LEMMA LeakQuiet ==
  ASSUME LeakInv, NEW t \in Threads, Apart(t),
         crit'[t] = crit[t], lazy'[t] = lazy[t], unlockFlag'[t] = unlockFlag[t],
         Bare(t)' => Bare(t) \/ JniRegions(t) = 0
  PROVE  LeakInv'
<1>1. JniRegions(t)' = JniRegions(t)
  BY DEF JniRegions
<1>2. LeakOK(t)'
  BY <1>1 DEF LeakInv, LeakOK
<1> QED BY <1>2, LeakLocal

\* The steps that store nothing.
LEMMA LeakPolls ==
  ASSUME StopInv, LeakInv, NEW t \in Threads,
         \/ CheckNative(t) \/ CheckAgain(t) \/ SpecialExit(t) \/ SuspendReturn(t)
         \/ Poll(t) \/ Start(t) \/ \E u \in Threads : RequestSuspend(t, u)
  PROVE  LeakInv'
<1>0. StoreTypes /\ TypeOK
  BY HereLemma
<1>1. /\ UNCHANGED <<storeVars, dest, orig, crit, lazy, unlockFlag>>
      /\ pc' = pc \/ \E l \in Pcs \ {"blockLock", "blockThreads"} : Goto(t, l)
      /\ pc[t] \notin {"none", "run"} \/ own(t) = "Java" \/ pc'[t] \in {"none", "run"}
  <2>1. CASE CheckNative(t) \/ CheckAgain(t) \/ Poll(t)
    BY <1>0, <2>1 DEF CheckNative, CheckAgain, Poll, Pcs, locVars, critVars
  <2>2. CASE SpecialExit(t) \/ SuspendReturn(t)
    BY <1>0, <2>2 DEF SpecialExit, SuspendReturn, AfterSuspend, Pcs, locVars, critVars
  <2>3. CASE Start(t) \/ \E u \in Threads : RequestSuspend(t, u)
    BY <1>0, <2>3 DEF Start, RequestSuspend, Goto, Pcs, TypeOK, locVars, critVars
  <2> QED BY <2>1, <2>2, <2>3
<1>2. \A u \in Threads : own(u)' = own(u)
  BY <1>0, <1>1, NoStoreEffect
<1>3. Apart(t)
  BY <1>0, <1>1, <1>2 DEF Apart, Goto, TypeOK
<1>4. pc'[t] = pc[t] \/ pc'[t] \notin {"blockLock", "blockThreads"}
  BY <1>0, <1>1 DEF Goto, TypeOK
<1>5. Bare(t)' => Bare(t)
  BY <1>1, <1>2, <1>4 DEF Bare
<1> QED BY <1>1, <1>3, <1>5, LeakQuiet

\* The stores of the transitions.
LEMMA LeakStores ==
  ASSUME StopInv, LeakInv, NEW t \in Threads,
         \/ Drain(t) \/ Exit(t) \/ \E u \in Threads : Resume(t, u)
         \/ EnterVM(t) \/ SuspendSelf(t) \/ SuspendTest(t) \/ RestoreState(t)
         \/ Check(t) \/ SetTo(t)
  PROVE  LeakInv'
<1>0. StoreTypes /\ TypeOK /\ Here(t)
  BY HereLemma
<1>1. CASE Drain(t) \/ Exit(t) \/ \E u \in Threads : Resume(t, u)
  <2>1. own(t)' = own(t) /\ Others(t)
    BY <1>0, <1>1, DrainEffect, FenceEffect DEF Exit, Resume, Fence, Here
  <2>2. UNCHANGED <<pc, dest, orig, crit, lazy, unlockFlag>>
    BY <1>1 DEF Drain, Exit, Resume, locVars, critVars
  <2>3. Apart(t) /\ (Bare(t)' => Bare(t))
    BY <2>1, <2>2 DEF Apart, Others, Bare
  <2> QED BY <2>2, <2>3, LeakQuiet
<1>2. CASE EnterVM(t)
  <2>1. own(t)' = "vm" /\ Others(t) /\ own(t) = "Java"
    BY <1>0, <1>2, StoreEffect, StateNames DEF EnterVM, Stable
  <2>2. UNCHANGED <<pc, dest, orig, crit, lazy, unlockFlag>>
    BY <1>2 DEF EnterVM, locVars, critVars
  <2>3. Apart(t) /\ (Bare(t)' => Bare(t))
    BY <2>1, <2>2 DEF Apart, Others, Bare
  <2> QED BY <2>2, <2>3, LeakQuiet
<1>3. CASE SuspendSelf(t)
  <2>1. own(t)' = own(t) /\ Others(t)
    BY <1>0, <1>3, FenceEffect DEF SuspendSelf, Fence, Here
  <2>2. /\ UNCHANGED <<dest, orig, crit, lazy, unlockFlag>>
        /\ pc[t] = "suspend" /\ pc'[t] \in {"suspended", "restore", "setTo", "run"}
        /\ \A u \in Threads \ {t} : pc'[u] = pc[u]
    BY <1>0, <1>3 DEF SuspendSelf, Goto, AfterSuspend, TypeOK, locVars, critVars
  <2>3. Apart(t) /\ (Bare(t)' => Bare(t))
    BY <2>1, <2>2 DEF Apart, Others, Bare
  <2> QED BY <2>2, <2>3, LeakQuiet
<1>4. CASE SuspendTest(t)
  <2>1. own(t)' \in {own(t), "blocked"} /\ Others(t)
    BY <1>0, <1>4, StoreEffect, NoStoreEffect, StateNames DEF SuspendTest, Stable, Others
  <2>2. /\ UNCHANGED <<dest, orig, crit, lazy, unlockFlag>>
        /\ pc[t] = "suspTest" /\ pc'[t] \in {"suspend", "check2"}
        /\ \A u \in Threads \ {t} : pc'[u] = pc[u]
    BY <1>0, <1>4 DEF SuspendTest, Goto, TypeOK, locVars, critVars
  <2>3. Apart(t) /\ (Bare(t)' => Bare(t))
    BY <2>1, <2>2 DEF Apart, Others, Bare
  <2> QED BY <2>2, <2>3, LeakQuiet
<1>5. CASE RestoreState(t)
  <2>1. own(t)' = "native_trans" /\ Others(t)
    BY <1>0, <1>5, TransEffect, StateNames DEF RestoreState
  <2>2. /\ UNCHANGED <<dest, orig, crit, lazy, unlockFlag>>
        /\ pc[t] = "restore" /\ pc'[t] = "check2"
        /\ \A u \in Threads \ {t} : pc'[u] = pc[u]
    BY <1>0, <1>5 DEF RestoreState, Goto, TypeOK, locVars, critVars
  <2>3. Apart(t) /\ (Bare(t)' => Bare(t))
    BY <2>1, <2>2 DEF Apart, Others, Bare
  <2> QED BY <2>2, <2>3, LeakQuiet
<1>6. CASE Check(t) \/ SetTo(t)
  <2>0. dest[t] \in States
    BY <1>0, StateNames DEF Here
  <2>1. own(t)' \in {own(t), dest[t]} /\ Others(t)
    BY <1>0, <1>6, <2>0, StoreEffect, NoStoreEffect DEF Check, SetTo, Finish, Others
  <2>2. /\ UNCHANGED <<dest, orig, crit, lazy, unlockFlag>>
        /\ pc[t] \in {"check", "setTo"} /\ pc'[t] \in {"block", "special", "run", "lazyExit"}
        /\ \A u \in Threads \ {t} : pc'[u] = pc[u]
    BY <1>0, <1>6 DEF Check, SetTo, Finish, Goto, TypeOK, locVars, critVars
  <2>3. Apart(t) /\ (Bare(t)' => Bare(t))
    BY <2>1, <2>2 DEF Apart, Others, Bare
  <2> QED BY <2>2, <2>3, LeakQuiet
<1> QED BY <1>1, <1>2, <1>3, <1>4, <1>5, <1>6

\* The calls of transitions, and block().
LEMMA LeakBlocks ==
  ASSUME StopInv, LeakInv, NEW t \in Threads,
         \/ \E to \in Stable : Leave(t, to)
         \/ \E to \in {"vm", "Java"} : FromNative(t, to)
         \/ Block(t) \/ BlockUnderLock(t) \/ BlockReturn(t)
  PROVE  LeakInv'
<1>0. StoreTypes /\ TypeOK /\ Here(t)
  BY HereLemma
<1>1. ASSUME NEW to \in Stable, Leave(t, to)
      PROVE  LeakInv'
  <2>0. own(t) \in {"new", "vm", "blocked"} /\ Trans(own(t)) \in States \ {"Java"}
    BY <1>1 DEF Leave, Targets, Trans, States
  <2>1. own(t)' # "Java" /\ Others(t)
    BY <1>0, <1>1, <2>0, TransEffect DEF Leave
  <2>2. /\ UNCHANGED <<orig, crit, lazy, unlockFlag>>
        /\ pc'[t] = "check" /\ dest'[t] = to /\ (to = "Java" => JniRegions(t) = 0)
        /\ \A u \in Threads \ {t} : pc'[u] = pc[u] /\ dest'[u] = dest[u]
    BY <1>0, <1>1 DEF Leave, Goto, TypeOK, critVars
  <2>3. Apart(t)
    BY <2>1, <2>2 DEF Apart, Others
  <2>4. Bare(t)' => Bare(t) \/ JniRegions(t) = 0
    BY <2>1, <2>2 DEF Bare
  <2> QED BY <2>2, <2>3, <2>4, LeakQuiet
<1>2. ASSUME NEW to \in {"vm", "Java"}, FromNative(t, to)
      PROVE  LeakInv'
  <2>1. own(t)' = "native_trans" /\ Others(t)
    BY <1>0, <1>2, TransEffect, StateNames DEF FromNative
  <2>2. /\ UNCHANGED <<orig, crit, lazy, unlockFlag>>
        /\ pc'[t] = "checkNative" /\ dest'[t] = to /\ (to = "Java" => JniRegions(t) = 0)
        /\ \A u \in Threads \ {t} : pc'[u] = pc[u] /\ dest'[u] = dest[u]
    BY <1>0, <1>2 DEF FromNative, Goto, TypeOK, critVars
  <2>3. Apart(t)
    BY <2>1, <2>2 DEF Apart, Others
  <2>4. Bare(t)' => Bare(t) \/ JniRegions(t) = 0
    BY <2>1, <2>2 DEF Bare
  <2> QED BY <2>2, <2>3, <2>4, LeakQuiet
<1>3. CASE Block(t)
  <2>1. own(t)' \in {own(t), "vm", "blocked"} /\ Others(t)
    BY <1>0, <1>3, StoreEffect, NoStoreEffect, StateNames DEF Block, Stable, Others
  <2>2. /\ UNCHANGED <<dest, crit, lazy, unlockFlag>>
        /\ pc[t] = "block" /\ orig'[t] = own(t)
        /\ \A u \in Threads \ {t} : pc'[u] = pc[u] /\ orig'[u] = orig[u]
    BY <1>0, <1>3 DEF Block, Goto, TypeOK, critVars
  <2>3. Apart(t)
    BY <2>1, <2>2 DEF Apart, Others
  <2>4. Bare(t)' => Bare(t)
    BY <2>1, <2>2 DEF Bare
  <2> QED BY <2>2, <2>3, <2>4, LeakQuiet
<1>4. CASE BlockUnderLock(t)
  <2>1. own(t)' = "blocked" /\ Others(t)
    BY <1>0, <1>4, FenceEffect, StateNames DEF BlockUnderLock, Stable
  <2>2. /\ UNCHANGED <<dest, orig, crit, lazy, unlockFlag>>
        /\ pc[t] = "blockLock" /\ \A u \in Threads \ {t} : pc'[u] = pc[u]
    BY <1>0, <1>4 DEF BlockUnderLock, Goto, TypeOK, locVars, critVars
  <2>3. Apart(t) /\ (Bare(t)' => Bare(t))
    BY <2>1, <2>2 DEF Apart, Others, Bare
  <2> QED BY <2>2, <2>3, LeakQuiet
<1>5. CASE BlockReturn(t)
  <2>1. own(t)' = orig[t] /\ Others(t)
    BY <1>0, <1>5, FenceEffect DEF BlockReturn, Here
  <2>2. /\ UNCHANGED <<dest, orig, crit, lazy, unlockFlag>>
        /\ pc[t] = "blockThreads" /\ pc'[t] \in {"special", "setTo"}
        /\ \A u \in Threads \ {t} : pc'[u] = pc[u]
    BY <1>0, <1>5 DEF BlockReturn, AfterBlock, Goto, TypeOK, locVars, critVars
  <2>3. Apart(t) /\ (Bare(t)' => Bare(t))
    BY <2>1, <2>2 DEF Apart, Others, Bare
  <2> QED BY <2>2, <2>3, LeakQuiet
<1> QED BY <1>1, <1>2, <1>3, <1>4, <1>5

\* The steps that change the counts or the flags.
LEMMA LeakCritical ==
  ASSUME StopInv, LeakInv, NEW t \in Threads,
         \/ \E isLazy \in BOOLEAN : JavaToNative(t, isLazy)
         \/ CheckFlags(t) \/ LazyExit(t) \/ LazyUnlock(t)
         \/ EnterCritical(t) \/ LeaveCritical(t)
  PROVE  LeakInv'
<1>0. StoreTypes /\ TypeOK /\ Here(t) /\ LeakOK(t)
  BY HereLemma DEF LeakInv
<1>1. ASSUME NEW isLazy \in BOOLEAN, JavaToNative(t, isLazy)
      PROVE  LeakInv'
  <2>0. pc[t] = "run" /\ own(t) = "Java" /\ ~lazy[t] /\ ~unlockFlag[t] /\ JniRegions(t) = 0
    BY <1>0, <1>1 DEF JavaToNative, Here, LazyOK, LeakOK, Bare
  <2>1. Others(t)
    BY <1>0, <1>1, StoreEffect, StateNames DEF JavaToNative, Stable
  <2>2. /\ UNCHANGED <<pc, dest, orig, crit, unlockFlag>>
        /\ \A u \in Threads \ {t} : lazy'[u] = lazy[u]
    BY <1>0, <1>1 DEF JavaToNative, TypeOK, locVars
  <2>3. Apart(t)
    BY <2>1, <2>2 DEF Apart, Others
  <2>4. JniRegions(t)' = JniRegions(t)
    BY <2>2 DEF JniRegions
  <2>5. LeakOK(t)'
    BY <2>0, <2>2, <2>4 DEF LeakOK
  <2> QED BY <2>3, <2>5, LeakLocal
<1>2. CASE CheckFlags(t)
  <2>0. dest[t] \in States /\ pc[t] = "checkFlags"
    BY <1>0, <1>2, StateNames DEF Here, CheckFlags
  <2>1. own(t)' \in {own(t), dest[t]} /\ Others(t)
    BY <1>0, <1>2, <2>0, StoreEffect, NoStoreEffect DEF CheckFlags, Others
  <2>2. /\ UNCHANGED <<dest, orig, crit, unlockFlag>> /\ pc'[t] \in {"suspTest", "run"}
        /\ lazy'[t] = lazy[t] \/ (~lazy'[t] /\ ~(dest[t] = "Java" /\ unlockFlag[t]))
        /\ \A u \in Threads \ {t} : pc'[u] = pc[u] /\ lazy'[u] = lazy[u]
    BY <1>0, <1>2 DEF CheckFlags, Goto, TypeOK, locVars
  <2>3. Apart(t)
    BY <2>1, <2>2 DEF Apart, Others
  <2>4. JniRegions(t)' = JniRegions(t)
    BY <2>2 DEF JniRegions
  <2>5. lazy[t] => dest[t] = "Java"
    BY <1>0, <2>0 DEF Here, LazyOK
  <2>6. Bare(t)' => Bare(t)
    BY <2>0, <2>1, <2>2, <2>5 DEF Bare
  <2>7. unlockFlag'[t] => lazy'[t]
    BY <1>0, <2>2, <2>5 DEF LeakOK
  <2>8. LeakOK(t)'
    BY <1>0, <2>4, <2>6, <2>7 DEF LeakOK
  <2> QED BY <2>3, <2>8, LeakLocal
<1>3. CASE LazyExit(t)
  <2>0. pc[t] = "lazyExit" /\ own(t) = "Java"
    BY <1>0, <1>3 DEF LazyExit, Here, LocOK
  <2>1. Others(t)
    BY <1>0, <1>3, StoreEffect, NoStoreEffect, StateNames DEF LazyExit, Stable, Others
  <2>2. /\ UNCHANGED <<dest, orig, crit, unlockFlag>>
        /\ lazy'[t] = lazy[t] \/ (~lazy'[t] /\ ~unlockFlag[t])
        /\ \A u \in Threads \ {t} : pc'[u] = pc[u] /\ lazy'[u] = lazy[u]
    BY <1>0, <1>3 DEF LazyExit, Goto, TypeOK, locVars
  <2>3. Apart(t)
    BY <2>1, <2>2 DEF Apart, Others
  <2>4. JniRegions(t)' = JniRegions(t) /\ Bare(t)
    BY <2>0, <2>2 DEF JniRegions, Bare
  <2>5. LeakOK(t)'
    BY <1>0, <2>2, <2>4 DEF LeakOK
  <2> QED BY <2>3, <2>5, LeakLocal
<1>4. CASE LazyUnlock(t)
  <2>0. pc[t] = "lazyUnlock" /\ unlockFlag[t] /\ JniRegions(t) = 0
    BY <1>0, <1>4 DEF LazyUnlock, Here, CritOK, LeakOK, Bare
  <2>1. Others(t)
    BY <1>0, <1>4, TransEffect, StateNames DEF LazyUnlock
  <2>2. /\ orig' = orig /\ ~unlockFlag'[t] /\ crit'[t] = crit[t] - 1
        /\ \A u \in Threads \ {t} : /\ pc'[u] = pc[u] /\ dest'[u] = dest[u] /\ crit'[u] = crit[u]
                                    /\ lazy'[u] = lazy[u] /\ unlockFlag'[u] = unlockFlag[u]
    BY <1>0, <1>4 DEF LazyUnlock, Goto, TypeOK
  <2>3. Apart(t)
    BY <2>1, <2>2 DEF Apart, Others
  <2>4. JniRegions(t)' = 0
    BY SMTT(30), <1>0, <2>0, <2>2 DEF JniRegions, Here
  <2>5. LeakOK(t)'
    BY <2>2, <2>4 DEF LeakOK
  <2> QED BY <2>3, <2>5, LeakLocal
<1>5. CASE EnterCritical(t) \/ LeaveCritical(t)
  <2>0. /\ pc[t] = "run" /\ own(t) = "vm" /\ ~lazy[t]
        /\ UNCHANGED <<storeVars, pc, dest, orig, lazy, unlockFlag>>
        /\ \A u \in Threads \ {t} : crit'[u] = crit[u]
    BY <1>0, <1>5 DEF EnterCritical, LeaveCritical, Here, LazyOK, TypeOK, locVars
  <2>1. \A u \in Threads : own(u)' = own(u)
    BY <1>0, <2>0, NoStoreEffect
  <2>2. Apart(t)
    BY <2>0, <2>1 DEF Apart
  <2>3. ~Bare(t)'
    BY <2>0, <2>1 DEF Bare
  <2>4. LeakOK(t)'
    BY <1>0, <2>0, <2>3 DEF LeakOK
  <2> QED BY <2>2, <2>4, LeakLocal
<1> QED BY <1>1, <1>2, <1>3, <1>4, <1>5

\* The VM thread enters a region for a thread only together with the flag that
\* makes the thread leave it.
LEMMA LeakVM ==
  ASSUME StopInv, LeakInv, VMStep
  PROVE  LeakInv'
<1>0. TypeOK /\ StoreTypes
  BY DEF StopInv, TypeOK, StoreTypes
<1>1. \A u \in Threads : own(u)' = own(u)
  <2>1. CASE Arm
    BY <1>0, <2>1, SerializeEffect DEF Arm
  <2>2. CASE ~Arm
    <3>1. UNCHANGED storeVars
      BY <2>2 DEF VMStep, Begin, Synchronize, Examine, RollForward, WaitToBlock, Notified, Stopped,
                  Disarm, EndState, Restart, End
    <3> QED BY <1>0, <3>1, NoStoreEffect
  <2> QED BY <2>1, <2>2
<1>2. UNCHANGED <<pc, dest, orig, lazy>>
  BY DEF VMStep, Begin, Synchronize, Arm, Examine, RollForward, WaitToBlock, Notified, Stopped,
         Disarm, EndState, Restart, End, thrVars, locVars
<1>3. CASE UNCHANGED <<crit, unlockFlag>>
  <2> SUFFICES ASSUME NEW u \in Threads PROVE LeakOK(u)'
    BY DEF LeakInv
  <2>1. (Bare(u)' <=> Bare(u)) /\ JniRegions(u)' = JniRegions(u)
    BY <1>1, <1>2, <1>3 DEF Bare, JniRegions
  <2> QED BY <1>2, <1>3, <2>1 DEF LeakInv, LeakOK
<1>4. ASSUME NEW t \in Threads, LazyCritical(t, seen.state),
             crit' = [crit EXCEPT ![t] = @ + 1], unlockFlag' = [unlockFlag EXCEPT ![t] = TRUE]
      PROVE  LeakInv'
  <2>1. lazy[t] /\ ~unlockFlag[t] /\ JniRegions(t) = 0
    BY <1>4 DEF LazyCritical, LeakInv, LeakOK, Bare
  <2>2. /\ unlockFlag'[t] /\ crit'[t] = crit[t] + 1 /\ crit[t] \in Nat
        /\ \A u \in Threads \ {t} : crit'[u] = crit[u] /\ unlockFlag'[u] = unlockFlag[u]
    BY <1>0, <1>4 DEF TypeOK
  <2>3. Apart(t)
    BY <1>1, <1>2, <2>2 DEF Apart
  <2>4. JniRegions(t)' = 0
    BY SMTT(30), <2>1, <2>2 DEF JniRegions
  <2>5. LeakOK(t)'
    BY <1>2, <2>1, <2>4 DEF LeakOK
  <2> QED BY <2>3, <2>5, LeakLocal
<1>5. \/ UNCHANGED <<crit, unlockFlag>>
      \/ \E t \in Threads : /\ LazyCritical(t, seen.state)
                            /\ crit' = [crit EXCEPT ![t] = @ + 1]
                            /\ unlockFlag' = [unlockFlag EXCEPT ![t] = TRUE]
  BY DEF VMStep, Begin, Synchronize, Arm, Examine, RollForward, WaitToBlock, Notified, Stopped,
         Disarm, EndState, Restart, End
<1> QED BY <1>3, <1>4, <1>5

\* A thread back in Java code has left every critical region, those that
\* check_for_lazy_critical_native entered on its behalf included.
THEOREM NothingLeaks == Spec => []NoCriticalLeak
<1>1. Init => LeakInv
  <2> SUFFICES ASSUME Init, NEW t \in Threads PROVE LeakOK(t)
    BY DEF LeakInv
  <2>1. ~lazy[t] /\ ~unlockFlag[t] /\ pc[t] = "none" /\ buf[t] = << >> /\ vis[t] = "new"
    BY DEF Init
  <2>2. ~Bare(t)
    BY <2>1 DEF Bare, own
  <2> QED BY <2>1, <2>2 DEF LeakOK
<1>2. ASSUME StopInv, LeakInv, [Next]_vars
      PROVE  LeakInv'
  <2>1. ASSUME NEW t \in Threads, Inner(t) \/ Outer(t) \/ Drain(t)
        PROVE  LeakInv'
    BY <1>2, <2>1, LeakPolls, LeakStores, LeakBlocks, LeakCritical DEF Inner, Outer
  <2>2. CASE UNCHANGED vars
    <3> SUFFICES ASSUME NEW t \in Threads PROVE LeakOK(t)'
      BY DEF LeakInv
    <3>1. UNCHANGED <<storeVars, pc, dest, orig, crit, lazy, unlockFlag>> /\ StoreTypes
      BY <1>2, <2>2, HereLemma DEF vars, locVars, critVars
    <3>2. own(t)' = own(t)
      BY <3>1, NoStoreEffect
    <3>3. (Bare(t)' <=> Bare(t)) /\ JniRegions(t)' = JniRegions(t)
      BY <3>1, <3>2 DEF Bare, JniRegions
    <3> QED BY <1>2, <3>1, <3>3 DEF LeakInv, LeakOK
  <2> QED BY <1>2, <2>1, <2>2, LeakVM DEF Next
<1>3. StopInv /\ LeakInv => NoCriticalLeak
  <2> SUFFICES ASSUME StopInv, LeakInv, NEW t \in Threads, pc[t] = "run", own(t) = "Java"
               PROVE  crit[t] = 0 /\ ~unlockFlag[t]
    BY DEF NoCriticalLeak
  <2>1. ~lazy[t] /\ crit[t] \in Nat
    BY HereLemma DEF Here, LazyOK
  <2>2. ~unlockFlag[t] /\ JniRegions(t) = 0
    BY <2>1 DEF LeakInv, LeakOK, Bare
  <2> QED BY SMTT(30), <2>1, <2>2 DEF JniRegions
<1> QED BY <1>1, <1>2, <1>3, StopInvariant, PTL DEF Spec
=============================================================================
