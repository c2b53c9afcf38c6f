------------------------------- MODULE Mutex --------------------------------
(***************************************************************************)
(* Cyg_Mutex and Cyg_Condition_Variable on top of the kernel, with the     *)
(* SIMPLE priority-inversion protocol in its INHERIT and CEILING forms.    *)
(* unlock() does not hand the mutex over: it frees it and wakes the first  *)
(* waiter, which competes for it again when it runs.                       *)
(***************************************************************************)
EXTENDS Threads

CONSTANTS
    Mutexes,    \* the mutexes; each names its own wait queue
    Condvars,   \* the condition variables; each names its own wait queue
    None,       \* the NULL owner
    Protocols,  \* the protocols in use; the first one set is FirstProtocol
    FirstProtocol,
    Ceilings,   \* the ceilings a mutex may be given
    MaxHeld     \* bound on the mutexes one thread holds at a time

ASSUME MutexAssumption ==
    /\ Mutexes \cup Condvars \subseteq WaitQueue
    /\ Mutexes \cap Condvars = {}
    /\ IsFiniteSet(Mutexes)
    /\ None \notin AllThread
    /\ Protocols \subseteq {"NONE", "INHERIT", "CEILING"}
    /\ FirstProtocol \in Protocols
    /\ Ceilings \subseteq UserPriority
    /\ MaxHeld \in Nat

VARIABLES
    owner,      \* the owner of each mutex; locked is owner # None
    protocol,   \* the protocol of each mutex
    ceiling,    \* the ceiling of each mutex
    mx          \* the mutex of the call each thread is in

mutexVars == <<k, pc, ticks, owner, protocol, ceiling, mx>>

\* pc is also "lock": in the loop of lock(); "cwait", "ctwait": past the unlock
\* of a condition wait; "relock": about to lock the mutex again; "cvlock": in
\* the loop of that lock().
InLock(t) == pc[t] \in {"lock", "cvlock"}

\* With INHERIT as the default the constructor leaves the ceiling unset.
MutexInit ==
    /\ Init
    /\ owner = [m \in Mutexes |-> None]
    /\ protocol = [m \in Mutexes |-> FirstProtocol]
    /\ ceiling \in [Mutexes -> Ceilings]
    /\ mx = [t \in AllThread |-> CHOOSE m \in Mutexes : TRUE]

Held(t) == {m \in Mutexes : owner[m] = t}

-----------------------------------------------------------------------------
(* Cyg_SchedThread: counting mutexes, inheriting and restoring priority *)

CountMutex(k1, m, t) ==
    IF protocol[m] = "NONE" THEN k1
    ELSE [k1 EXCEPT !.mutex_count[t] = @ + 1]

\* Mutant: a lock() that fails does not undo count_mutex().
UncountMutexOwner(k1, m, t) ==
    IF protocol[m] = "NONE" \/ owner[m] # t THEN k1
    ELSE ClearInheritedPriority([k1 EXCEPT !.mutex_count[t] = @ - 1], t)

\* uncount_mutex() and then disinherit_priority() or clear_priority_ceiling().
UncountMutex(k1, m, t) ==
    IF protocol[m] = "NONE" THEN k1
    ELSE ClearInheritedPriority([k1 EXCEPT !.mutex_count[t] = @ - 1], t)

RaiseToCeiling(k1, m, t) ==
    IF protocol[m] = "CEILING" THEN SetInheritedPriority(k1, t, ceiling[m])
    ELSE k1

\* A waiter lends its priority to the owner.
Inherit(k1, m, t) ==
    IF protocol[m] = "INHERIT"
    THEN SetInheritedPriority(k1, owner[m], k1.priority[t])
    ELSE k1

-----------------------------------------------------------------------------
(* Cyg_Mutex *)

\* The head of the lock() loop, in state k1, by the current thread; "at" is
\* where it continues if it has to sleep.
Acquire(k1, m, at) ==
    LET k2 == Enqueue(Sleep(SetSleepReason(k1, "WAIT")), m, self)
    IN  \/ /\ owner[m] = None
           /\ k' = Unlock(k1)
           /\ owner' = [owner EXCEPT ![m] = self]
           /\ pc' = [pc EXCEPT ![self] = "user"]
        \/ /\ owner[m] # None
           /\ k' = Reschedule(Inherit(k2, m, self))
           /\ pc' = [pc EXCEPT ![self] = at]
           /\ UNCHANGED owner

\* lock() up to its first turn of the loop.
Lock(m, at) ==
    /\ owner[m] # self
    /\ Acquire(RaiseToCeiling(CountMutex(k, m, self), m, self), m, at)
    /\ mx' = [mx EXCEPT ![self] = m]
    /\ UNCHANGED <<ticks, protocol, ceiling>>

MutexLock(m) ==
    /\ "lock" \in Ops
    /\ InThread
    /\ Cardinality(Held(self)) < MaxHeld
    /\ Lock(m, "lock")

\* Mutant: one attempt at the mutex; a release() of the thread ends the wait.
MutexLockWokenOnce ==
    LET m == mx[self]
        reason == k.wake_reason[self]
    IN  /\ k.sched_lock = "inner"
        /\ pc[self] \in {"lock", "cvlock"}
        /\ UNCHANGED <<ticks, protocol, ceiling, mx>>
        /\ \/ /\ reason = "EXIT"
              /\ k' = Reschedule(Exit(k))
              /\ pc' = [pc EXCEPT ![self] = "user"]
              /\ UNCHANGED owner
           \/ /\ reason \in {"DESTRUCT", "BREAK"}
              /\ k' = Unlock(UncountMutex(k, m, self))
              /\ pc' = [pc EXCEPT ![self] = "user"]
              /\ UNCHANGED owner
           \/ /\ reason \notin {"EXIT", "DESTRUCT", "BREAK"}
              /\ Acquire(k, m, pc[self])

\* lock() back from the reschedule() in its loop; if it fails, a condition
\* wait calls it again.
MutexLockWoken ==
    LET m == mx[self]
        reason == k.wake_reason[self]
    IN  /\ k.sched_lock = "inner"
        /\ pc[self] \in {"lock", "cvlock"}
        /\ UNCHANGED <<ticks, protocol, ceiling, mx>>
        /\ \/ /\ reason = "EXIT"
              /\ k' = Reschedule(Exit(k))
              /\ pc' = [pc EXCEPT ![self] = "user"]
              /\ UNCHANGED owner
           \/ /\ reason \in {"DESTRUCT", "BREAK"}
              /\ k' = Unlock(UncountMutex(k, m, self))
              /\ pc' = [pc EXCEPT ![self] =
                          IF @ = "lock" THEN "user" ELSE "relock"]
              /\ UNCHANGED owner
           \/ /\ reason \notin {"EXIT", "DESTRUCT", "BREAK"}
              /\ Acquire(k, m, pc[self])

MutexTrylock(m) ==
    /\ "trylock" \in Ops
    /\ InThread
    /\ Cardinality(Held(self)) < MaxHeld
    /\ \/ /\ owner[m] = None
          /\ owner' = [owner EXCEPT ![m] = self]
          /\ k' = Unlock(RaiseToCeiling(CountMutex(k, m, self), m, self))
       \/ /\ owner[m] # None
          /\ k' = Unlock(k)
          /\ UNCHANGED owner
    /\ UNCHANGED <<pc, ticks, protocol, ceiling, mx>>

\* dequeue(), with INHERIT relay_priority() to the owner-to-be, and wake().
WakeHeir(m) ==
    LET t  == Head(k.wait_queue[m])
        k1 == LeaveQueue(k, t)
        k2 == IF protocol[m] = "INHERIT"
              THEN RelayPriority(k1, t, owner[m], m) ELSE k1
    IN  Wake(SetWakeReason(k2, t, "DONE"), t)

\* Mutant: no waiter is woken.
UnlockedNoWake(m) == UncountMutex(k, m, owner[m])

\* unlock() by the owner, before the scheduler is unlocked.
Unlocked(m) ==
    UncountMutex(IF k.wait_queue[m] = <<>> THEN k ELSE WakeHeir(m), m, owner[m])

MutexUnlock(m) ==
    /\ "lock" \in Ops
    /\ InThread
    /\ owner[m] = self
    /\ k' = Unlock(Unlocked(m))
    /\ owner' = [owner EXCEPT ![m] = None]
    /\ UNCHANGED <<pc, ticks, protocol, ceiling, mx>>

\* release() dequeues every waiter and breaks its wait.
MutexRelease(m) ==
    /\ "mutex_release" \in Ops
    /\ InThread
    /\ k' = Unlock(ReleaseAll(k, m))
    /\ UNCHANGED <<pc, ticks, owner, protocol, ceiling, mx>>

MutexSetCeiling(m, p) ==
    /\ "set_ceiling" \in Ops
    /\ InThread
    /\ k' = Unlock(k)
    /\ ceiling' = [ceiling EXCEPT ![m] = p]
    /\ UNCHANGED <<pc, ticks, owner, protocol, mx>>

MutexSetProtocol(m, x) ==
    /\ "set_protocol" \in Ops
    /\ InThread
    /\ k' = Unlock(k)
    /\ protocol' = [protocol EXCEPT ![m] = x]
    /\ UNCHANGED <<pc, ticks, owner, ceiling, mx>>

-----------------------------------------------------------------------------
(* Cyg_Condition_Variable *)

CondWait(v, m) ==
    /\ "cond" \in Ops
    /\ InThread
    /\ owner[m] = self
    /\ k' = Unlock(Enqueue(Sleep([Unlocked(m) EXCEPT
                                    !.sleep_reason[self] = "WAIT",
                                    !.wake_reason[self] = "NONE"]), v, self))
    /\ owner' = [owner EXCEPT ![m] = None]
    /\ pc' = [pc EXCEPT ![self] = "cwait"]
    /\ mx' = [mx EXCEPT ![self] = m]
    /\ UNCHANGED <<ticks, protocol, ceiling>>

\* Mutant: the thread is queued even if its timeout has already passed.
CondTimedWaitQueues(v, m, past) ==
    LET k1 == SetTimer(Sleep(Unlocked(m)), "TIMEOUT", past)
    IN  /\ "ctimed" \in Ops
        /\ InThread
        /\ owner[m] = self
        /\ k' = Unlock(Enqueue(k1, v, self))
        /\ owner' = [owner EXCEPT ![m] = None]
        /\ pc' = [pc EXCEPT ![self] = "ctwait"]
        /\ mx' = [mx EXCEPT ![self] = m]
        /\ UNCHANGED <<ticks, protocol, ceiling>>

\* past: the timeout has passed; the timer wakes the thread at once and it
\* is not put on the queue.
CondTimedWait(v, m, past) ==
    LET k1 == SetTimer(Sleep(Unlocked(m)), "TIMEOUT", past)
    IN  /\ "ctimed" \in Ops
        /\ InThread
        /\ owner[m] = self
        /\ k' = Unlock(IF k1.wake_reason[self] = "NONE"
                       THEN Enqueue(k1, v, self) ELSE k1)
        /\ owner' = [owner EXCEPT ![m] = None]
        /\ pc' = [pc EXCEPT ![self] = "ctwait"]
        /\ mx' = [mx EXCEPT ![self] = m]
        /\ UNCHANGED <<ticks, protocol, ceiling>>

\* Back from the wait, the scheduler unlocked: clear the timer, act on EXIT.
CondWoken ==
    LET k1 == IF pc[self] = "ctwait" THEN Unlock(ClearTimer(k, self)) ELSE k
    IN  /\ k.sched_lock = "thread"
        /\ pc[self] \in {"cwait", "ctwait"}
        /\ \/ /\ k.wake_reason[self] = "EXIT"
              /\ k' = Reschedule(Exit(k1))
              /\ pc' = [pc EXCEPT ![self] = "user"]
           \/ /\ k.wake_reason[self] # "EXIT"
              /\ k' = k1
              /\ pc' = [pc EXCEPT ![self] = "relock"]
        /\ UNCHANGED <<ticks, owner, protocol, ceiling, mx>>

\* while (!mx->lock()) continue;
CondRelock ==
    /\ k.sched_lock = "thread"
    /\ pc[self] = "relock"
    /\ Lock(mx[self], "cvlock")

WakeWaiter(k1, t) == Wake(SetWakeReason(LeaveQueue(k1, t), t, "DONE"), t)

CondSignal(v) ==
    /\ "cond" \in Ops
    /\ InThreadOrDsr
    /\ k' = Unlock(IF k.wait_queue[v] = <<>> THEN k
                   ELSE WakeWaiter(k, Head(k.wait_queue[v])))
    /\ UNCHANGED <<pc, ticks, owner, protocol, ceiling, mx>>

CondBroadcast(v) ==
    /\ "cond" \in Ops
    /\ InThreadOrDsr
    /\ k' = Unlock(WakeAll(k, v, "DONE"))
    /\ UNCHANGED <<pc, ticks, owner, protocol, ceiling, mx>>

MutexOperation(m) ==
    \/ MutexLock(m)
    \/ MutexTrylock(m)
    \/ MutexUnlock(m)
    \/ MutexRelease(m)
    \/ \E p \in Ceilings : MutexSetCeiling(m, p)
    \/ \E x \in Protocols : MutexSetProtocol(m, x)

CondOperation(v) ==
    \/ \E m \in Mutexes :
         \/ CondWait(v, m)
         \/ \E past \in BOOLEAN : CondTimedWait(v, m, past)
    \/ CondSignal(v)
    \/ CondBroadcast(v)

MutexNext ==
    \/ \E m \in Mutexes : MutexOperation(m)
    \/ MutexLockWoken
    \/ \E v \in Condvars : CondOperation(v)
    \/ CondWoken
    \/ CondRelock
    \/ Next /\ UNCHANGED <<owner, protocol, ceiling, mx>>

MutexSpec == MutexInit /\ [][MutexNext]_mutexVars

-----------------------------------------------------------------------------
(* Properties *)

\* mutex_count counts the mutexes a thread owns and the one it is waiting for,
\* along every way out of lock(), unlock() and the condition waits; the
\* asserts "Non-positive mutex count" rest on it.
MutexCountAgrees ==
    \A t \in Thread :
        "EXITED" \notin k.state[t] =>
            k.mutex_count[t] =
                Cardinality(Held(t) \cup IF InLock(t) THEN {mx[t]} ELSE {})

\* An inherited priority is given back with the last mutex.
PriorityGivenBack ==
    \A t \in Thread : k.priority_inherited[t] => k.mutex_count[t] > 0

\* A free mutex on which threads sleep has a woken thread on its way to claim
\* it, even if another takes it first; only kill() can stop that thread.
NoLostWakeup ==
    \A m \in Mutexes :
        owner[m] = None /\ k.wait_queue[m] # <<>> =>
            \E t \in Thread :
                InLock(t) /\ mx[t] = m /\ k.wake_reason[t] = "DONE"

\* Exactly the sleeping waiters are queued, each on the object it waits for.
WaitersAreQueued ==
    /\ WaitQueuesOK(k)
    /\ \A t \in Thread :
         "SLEEPING" \in k.state[t] =>
           /\ InLock(t) => t \in Range(k.wait_queue[mx[t]])
           /\ pc[t] \in {"cwait", "ctwait"} =>
                \E v \in Condvars : t \in Range(k.wait_queue[v])

\* Priority inheritance: no waiter has a better priority than the owner.
OwnerIsUrgent ==
    \A m \in Mutexes :
        protocol[m] = "INHERIT" /\ owner[m] # None =>
            \A t \in Range(k.wait_queue[m]) :
                k.priority[owner[m]] <= k.priority[t]

\* get_priority() is what the application last set: inheriting, relaying and
\* giving back priorities never changes it.
BasePriorityKept ==
    [][\A t \in Thread :
          \/ GetPriority(k', t) = GetPriority(k, t)
          \/ \E p \in UserPriority :
                ThreadSetPriority(t, p) /\ GetPriority(k', t) = p]_mutexVars

\* "It is essential that we exit this function with the mutex claimed": a
\* condition wait returns to its caller as the owner, or not at all.
CondWaitReturnsOwner ==
    [][\A t \in Thread :
          pc[t] \in {"cwait", "ctwait", "relock", "cvlock"} /\ pc'[t] = "user" =>
              owner'[mx[t]] = t \/ "EXITED" \in k'.state[t]]_mutexVars

=============================================================================
