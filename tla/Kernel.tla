------------------------------- MODULE Kernel -------------------------------
(***************************************************************************)
(* The eCos kernel as the rest of the system sees it while the scheduler   *)
(* lock is held: the thread control blocks, the multi-level run queues,    *)
(* the wait queues of the synchronization objects and the reschedule flag. *)
(*                                                                         *)
(* The kernel is configured as packages/kernel/current/cdl does by default *)
(* for the single-CPU qca953x target: MLQUEUE scheduler, timeslicing,      *)
(* unsorted wait queues, thread timers, and mutexes with the SIMPLE        *)
(* priority-inversion protocol.  Every function of Cyg_Thread and of the   *)
(* scheduler runs with the scheduler locked, so it is an operator from a   *)
(* kernel state k to the kernel state it leaves; the modules that extend   *)
(* this one turn compositions of these operators into actions.             *)
(***************************************************************************)
EXTENDS Integers, Sequences, SequencesExt, FiniteSets

CONSTANTS
    Thread,          \* the application's threads
    Idle,            \* Cyg_IdleThread
    MinPriority,     \* CYG_THREAD_MIN_PRIORITY; 0 is the best priority
    TimesliceTicks,  \* CYGNUM_KERNEL_SCHED_TIMESLICE_TICKS
    CountMod,        \* 2^32: timeslice_count is a cyg_ucount32
    WaitQueue        \* the Cyg_ThreadQueues of the synchronization objects

ASSUME KernelAssumption ==
    /\ IsFiniteSet(Thread)
    /\ Idle \notin Thread
    /\ MinPriority \in Nat \ {0}
    /\ TimesliceTicks \in Nat \ {0}
    /\ CountMod \in Nat
    /\ TimesliceTicks < CountMod

AllThread    == Thread \cup {Idle}
Priority     == 0..MinPriority
UserPriority == 0..(MinPriority - 1)

\* thread.hxx keeps the state as a bit mask; RUNNING is the empty mask.
StateBit == {"SLEEPING", "COUNTSLEEP", "SUSPENDED", "EXITED"}
RUNNING  == {}
SLEEPSET == {"SLEEPING", "COUNTSLEEP"}

SleepReason == {"NONE", "WAIT", "DELAY", "TIMEOUT"}
WakeReason  == {"NONE", "TIMEOUT", "BREAK", "DESTRUCT", "EXIT", "DONE"}

(***************************************************************************)
(* sched_lock abstracts the lock counter and the place the CPU is at:      *)
(*   "start"   before Cyg_Scheduler::start(), lock 1                       *)
(*   "thread"  lock 0, the current thread runs                             *)
(*   "unlock"  inside unlock_inner(0): DSRs run, then a reschedule         *)
(*   "tick"    inside the clock DSR called from there                      *)
(*   "resched" inside unlock_inner(1), called by reschedule(): no DSRs     *)
(*   "inner"   back from reschedule(), lock still 1                        *)
(***************************************************************************)
SchedLock == {"start", "thread", "unlock", "tick", "resched", "inner"}

\* Where a descheduled thread continues: thread_entry() still has to unlock.
Context == {"thread", "unlock", "inner"}

KernelState ==
    [state              : [AllThread -> SUBSET StateBit],
     suspend_count      : [AllThread -> Nat],
     wakeup_count       : [AllThread -> Nat],
     sleep_reason       : [AllThread -> SleepReason],
     wake_reason        : [AllThread -> WakeReason],
     timer              : [AllThread -> BOOLEAN],
     priority           : [AllThread -> Priority],
     original_priority  : [AllThread -> Priority],
     priority_inherited : [AllThread -> BOOLEAN],
     mutex_count        : [AllThread -> Int],
     timeslice          : [AllThread -> 0..(CountMod - 1)],
     context            : [AllThread -> Context],
     run_queue          : [Priority -> Seq(AllThread)],
     queue_map          : SUBSET Priority,
     wait_queue         : [WaitQueue -> Seq(AllThread)],
     current            : AllThread,
     need_reschedule    : BOOLEAN,
     timeslice_count    : 0..(CountMod - 1),
     sched_lock         : SchedLock]

\* All threads created and still suspended, the idle thread resumed and made
\* current by its constructor, the scheduler not yet started.
KernelInit(prio) ==
    [state              |-> [t \in AllThread |->
                               IF t = Idle THEN RUNNING ELSE {"SUSPENDED"}],
     suspend_count      |-> [t \in AllThread |-> IF t = Idle THEN 0 ELSE 1],
     wakeup_count       |-> [t \in AllThread |-> 0],
     sleep_reason       |-> [t \in AllThread |-> "NONE"],
     wake_reason        |-> [t \in AllThread |-> "NONE"],
     timer              |-> [t \in AllThread |-> FALSE],
     priority           |-> prio,
     original_priority  |-> prio,
     priority_inherited |-> [t \in AllThread |-> FALSE],
     mutex_count        |-> [t \in AllThread |-> 0],
     timeslice          |-> [t \in AllThread |-> TimesliceTicks],
     context            |-> [t \in AllThread |-> "unlock"],
     run_queue          |-> [p \in Priority |->
                               IF p = MinPriority THEN <<Idle>> ELSE <<>>],
     queue_map          |-> {MinPriority},
     wait_queue         |-> [q \in WaitQueue |-> <<>>],
     current            |-> Idle,
     need_reschedule    |-> TRUE,
     timeslice_count    |-> TimesliceTicks,
     sched_lock         |-> "start"]

-----------------------------------------------------------------------------
(* The multi-level queue scheduler *)

Runnable(k, t) == k.state[t] = RUNNING

\* Cyg_CList::rotate moves the head of the circular list to the next node.
Rotate(q) == IF q = <<>> THEN q ELSE Append(Tail(q), Head(q))

Schedule(k) == Head(k.run_queue[Min(k.queue_map)])

\* Mutant: the priorities are not compared.
SetNeedRescheduleIfAsleep(k, t) ==
    [k EXCEPT !.need_reschedule = @ \/ ~Runnable(k, k.current)]

SetNeedReschedule(k, t) ==
    [k EXCEPT !.need_reschedule =
        \/ @
        \/ k.priority[k.current] > k.priority[t]
        \/ ~Runnable(k, k.current)]

\* Mutant: remove() is not called.
LeaveQueueForgotten(k, t) == k

\* Cyg_SchedThread::remove: leave the wait queue, if on one.
LeaveQueue(k, t) ==
    [k EXCEPT !.wait_queue =
        [q \in WaitQueue |-> RemoveFirst(k.wait_queue[q], t)]]

Enqueue(k, q, t) == [k EXCEPT !.wait_queue[q] = Append(@, t)]

AddThread(k, t) ==
    LET p  == k.priority[t]
        k1 == LeaveQueue(k, t)
        k2 == [k1 EXCEPT !.run_queue[p] = Append(@, t),
                         !.queue_map    = @ \cup {p},
                         !.timeslice[t] = TimesliceTicks]
    IN  SetNeedReschedule(k2, t)

\* Mutant: the bit of an emptied queue stays set.
RemThreadKeepsBit(k, t) ==
    [k EXCEPT !.run_queue[k.priority[t]] = RemoveFirst(@, t)]

RemThread(k, t) ==
    LET p == k.priority[t]
        q == RemoveFirst(k.run_queue[p], t)
    IN  [k EXCEPT !.run_queue[p] = q,
                  !.queue_map    = IF q = <<>> THEN @ \ {p} ELSE @]

\* Mutant: the queue is not rotated.
TimesliceCpuNoRotate(k) ==
    IF Runnable(k, k.current)
    THEN [k EXCEPT !.timeslice_count = TimesliceTicks, !.need_reschedule = TRUE]
    ELSE k

\* Called when timeslice_count reaches zero.
TimesliceCpu(k) ==
    LET t == k.current
        q == Rotate(k.run_queue[k.priority[t]])
    IN  IF Runnable(k, t)
        THEN [k EXCEPT !.run_queue[k.priority[t]] = q,
                       !.need_reschedule = @ \/ Head(q) # t,
                       !.timeslice_count = TimesliceTicks]
        ELSE k

Timeslice(k) ==
    LET n  == (k.timeslice_count + CountMod - 1) % CountMod
        k1 == [k EXCEPT !.timeslice_count = n]
    IN  IF n = 0 THEN TimesliceCpu(k1) ELSE k1

\* yield() is static: it acts on the current thread, which is running.
Yield(k) ==
    LET t == k.current
        q == Rotate(k.run_queue[k.priority[t]])
    IN  IF Runnable(k, t)
        THEN [k EXCEPT !.run_queue[k.priority[t]] = q,
                       !.need_reschedule = @ \/ Head(q) # t,
                       !.timeslice[t] = IF Head(q) # t THEN @ ELSE TimesliceTicks]
        ELSE k

RotateQueue(k, p) ==
    IF k.run_queue[p] = <<>> THEN k
    ELSE [k EXCEPT !.run_queue[p] = Rotate(@), !.need_reschedule = TRUE]

\* Switching from the current thread to n: unlock_inner() saves and restores
\* the timeslice counts around HAL_THREAD_SWITCH_CONTEXT.
SwitchTo(k, n, after) ==
    IF n = k.current
    THEN [k EXCEPT !.need_reschedule = FALSE, !.sched_lock = after]
    ELSE [k EXCEPT !.current = n,
                   !.need_reschedule = FALSE,
                   !.context[k.current] = after,
                   !.sched_lock = k.context[n],
                   !.timeslice[k.current] = k.timeslice_count,
                   !.timeslice_count = k.timeslice[n]]

\* unlock_inner() past its DSRs; "after" is where its caller continues.
UnlockInner(k) ==
    LET after == IF k.sched_lock = "resched" THEN "inner" ELSE "thread"
    IN  IF Runnable(k, k.current) /\ ~k.need_reschedule
        THEN [k EXCEPT !.sched_lock = after]
        ELSE SwitchTo(k, Schedule(k), after)

\* Cyg_Scheduler::start_cpu: load the first thread, no context is saved.
StartCpu(k) ==
    LET n == Schedule(k)
    IN  [k EXCEPT !.current = n,
                  !.need_reschedule = FALSE,
                  !.timeslice_count = TimesliceTicks,
                  !.sched_lock = k.context[n]]

-----------------------------------------------------------------------------
(* Cyg_Thread: reasons and the thread timer *)

SetSleepReason(k, r) ==
    [k EXCEPT !.sleep_reason[k.current] = r, !.wake_reason[k.current] = "NONE"]

SetWakeReason(k, t, r) ==
    [k EXCEPT !.sleep_reason[t] = "NONE", !.wake_reason[t] = r]

ClearTimer(k, t) == [k EXCEPT !.timer[t] = FALSE]

-----------------------------------------------------------------------------
(* Cyg_Thread: sleeping, waking, suspending *)

Sleep(k) ==
    LET t  == k.current
        k1 == IF Runnable(k, t) THEN RemThread(k, t) ELSE k
    IN  [k1 EXCEPT !.state[t] = @ \cup {"SLEEPING"}]

\* Mutant: COUNTSLEEP survives the wake-up.
WakeKeepsCountSleep(k, t) ==
    LET k1 == LeaveQueue([k EXCEPT !.state[t] = @ \ {"SLEEPING"}], t)
    IN  IF k.state[t] \cap SLEEPSET = {} THEN k
        ELSE IF Runnable(k1, t) THEN AddThread(k1, t) ELSE k1

Wake(k, t) ==
    LET k1 == LeaveQueue([k EXCEPT !.state[t] = @ \ SLEEPSET], t)
    IN  IF k.state[t] \cap SLEEPSET = {} THEN k
        ELSE IF Runnable(k1, t) THEN AddThread(k1, t) ELSE k1

CountedWake(k, t) ==
    IF "COUNTSLEEP" \notin k.state[t]
    THEN [k EXCEPT !.wakeup_count[t] = @ + 1]
    ELSE Wake(SetWakeReason(k, t, "DONE"), t)

\* Mutant: only a running thread is marked.
SuspendOnlyRunning(k, t) ==
    IF Runnable(k, t)
    THEN [RemThread(k, t) EXCEPT !.suspend_count[t] = @ + 1,
                                 !.state[t] = {"SUSPENDED"}]
    ELSE [k EXCEPT !.suspend_count[t] = @ + 1]

Suspend(k, t) ==
    LET k1 == IF Runnable(k, t) THEN RemThread(k, t) ELSE k
    IN  [k1 EXCEPT !.suspend_count[t] = @ + 1,
                   !.state[t] = @ \cup {"SUSPENDED"}]

\* Mutant: the state becomes RUNNING, whatever else holds the thread.
UnsuspendRuns(k, t) ==
    AddThread([k EXCEPT !.suspend_count[t] = 0, !.state[t] = RUNNING], t)

\* The common end of resume() and force_resume().
Unsuspend(k, t) ==
    LET k1 == [k EXCEPT !.suspend_count[t] = 0, !.state[t] = @ \ {"SUSPENDED"}]
    IN  IF Runnable(k1, t) THEN AddThread(k1, t) ELSE k1

\* Mutant: the count is not tested before it is decremented.
ResumeUnchecked(k, t) ==
    IF k.suspend_count[t] = 1 THEN Unsuspend(k, t)
    ELSE [k EXCEPT !.suspend_count[t] = @ - 1]

Resume(k, t) ==
    IF k.suspend_count[t] = 1 THEN Unsuspend(k, t)
    ELSE IF k.suspend_count[t] > 0 THEN [k EXCEPT !.suspend_count[t] = @ - 1]
    ELSE k

ForceResume(k, t) ==
    IF k.suspend_count[t] > 0 THEN Unsuspend(k, t) ELSE k

\* Mutant: the sleep reason is not looked at.
ReleaseUnchecked(k, t) == Wake(SetWakeReason(k, t, "BREAK"), t)

Release(k, t) ==
    IF k.sleep_reason[t] = "NONE" THEN k
    ELSE Wake(SetWakeReason(k, t, "BREAK"), t)

\* Cyg_ThreadTimer::alarm, called when the one-shot timer of t expires.
ThreadTimerAlarm(k, t) ==
    LET k1 == ClearTimer(k, t)
    IN  CASE k.sleep_reason[t] = "DELAY"   -> Wake(SetWakeReason(k1, t, "DONE"), t)
          [] k.sleep_reason[t] = "TIMEOUT" -> Wake(SetWakeReason(k1, t, "TIMEOUT"), t)
          [] OTHER                         -> k1

\* set_timer() of the current thread.  A trigger that is not in the future
\* runs the alarm function at once, inside Cyg_Counter::add_alarm().
SetTimer(k, r, past) ==
    LET t  == k.current
        k1 == [SetSleepReason(k, r) EXCEPT !.timer[t] = TRUE]
    IN  IF past THEN ThreadTimerAlarm(k1, t) ELSE k1

-----------------------------------------------------------------------------
(* Emptying a wait queue: while (!queue.empty()) *)

\* dequeue(), set_wake_reason(r) and wake() for each thread in turn.
WakeAll(k, q, r) ==
    LET s == k.wait_queue[q]
        after[i \in 0..Len(s)] ==
            IF i = 0 THEN k
            ELSE Wake(SetWakeReason(LeaveQueue(after[i - 1], s[i]), s[i], r), s[i])
    IN  after[Len(s)]

\* dequeue() and release() for each.
ReleaseAll(k, q) ==
    LET s == k.wait_queue[q]
        after[i \in 0..Len(s)] ==
            IF i = 0 THEN k
            ELSE Release(LeaveQueue(after[i - 1], s[i]), s[i])
    IN  after[Len(s)]

-----------------------------------------------------------------------------
(* Cyg_Thread: termination *)

Exit(k) ==
    LET t  == k.current
        k1 == ClearTimer(k, t)
    IN  IF k.state[t] = {"EXITED"} THEN k1
        ELSE RemThread([k1 EXCEPT !.state[t] = {"EXITED"}], t)

\* kill() of a thread other than the current one.
Kill(k, t) ==
    LET k1 == ClearTimer(ForceResume(k, t), t)
        k2 == IF Runnable(k1, t) THEN RemThread(k1, t) ELSE k1
    IN  IF k1.wake_reason[t] = "EXIT" THEN Wake(k1, t)
        ELSE IF k1.sleep_reason[t] = "NONE"
        THEN [k2 EXCEPT !.state[t] = {"EXITED"}]
        ELSE Wake(SetWakeReason(k1, t, "EXIT"), t)

-----------------------------------------------------------------------------
(* Cyg_Thread and Cyg_SchedThread: priorities *)

OnQueue(k, t) == {q \in WaitQueue : t \in Range(k.wait_queue[q])}

\* An inherited priority is not lowered; a waiting thread goes to the tail of
\* its queue again.
SetPriority(k, t, p) ==
    LET inherited == k.priority_inherited[t]
        k1 == IF Runnable(k, t) THEN RemThread(k, t)
              ELSE IF "SLEEPING" \in k.state[t] THEN LeaveQueue(k, t) ELSE k
        k2 == [k1 EXCEPT
                 !.original_priority[t] = IF inherited THEN p ELSE @,
                 !.priority[t] = IF inherited /\ @ <= p THEN @ ELSE p]
        k3 == IF Runnable(k, t) THEN AddThread(k2, t)
              ELSE IF "SLEEPING" \in k.state[t]
              THEN [k2 EXCEPT !.wait_queue =
                      [q \in WaitQueue |->
                         IF q \in OnQueue(k, t)
                         THEN Append(k2.wait_queue[q], t)
                         ELSE k2.wait_queue[q]]]
              ELSE k2
    IN  IF t = k.current THEN [k3 EXCEPT !.need_reschedule = TRUE]
        ELSE SetNeedReschedule(k3, t)

\* Mutant: a second inheritance overwrites the original priority.
SetInheritedPriorityTwice(k, t, p) ==
    IF p >= k.priority[t] THEN k
    ELSE [SetPriority([k EXCEPT !.priority_inherited[t] = FALSE], t, p) EXCEPT
            !.original_priority[t] = k.priority[t],
            !.priority_inherited[t] = TRUE]

SetInheritedPriority(k, t, p) ==
    LET k1 == SetPriority([k EXCEPT !.priority_inherited[t] = FALSE], t, p)
    IN  IF p >= k.priority[t] THEN k
        ELSE [k1 EXCEPT
                !.original_priority[t] =
                    IF k.priority_inherited[t] THEN @ ELSE k.priority[t],
                !.priority_inherited[t] = TRUE]

\* Mutant: the priority is not passed on.
RelayPriorityForgotten(k, t, exOwner, q) == k

\* relay_inherited_priority: called after the new owner left the queue.
RelayPriority(k, t, exOwner, q) ==
    IF k.wait_queue[q] = <<>> THEN k
    ELSE SetInheritedPriority(k, t, k.priority[exOwner])

\* Mutant: the flag stays set.
ClearInheritedPriorityKeepsFlag(k, t) ==
    IF k.mutex_count[t] # 0 \/ ~k.priority_inherited[t] THEN k
    ELSE SetPriority(k, t, k.original_priority[t])

ClearInheritedPriority(k, t) ==
    LET k1 == [k EXCEPT !.priority_inherited[t] = FALSE]
    IN  IF k.mutex_count[t] # 0 \/ ~k.priority_inherited[t] THEN k
        ELSE IF k.priority[t] < k.original_priority[t]
        THEN SetPriority(k1, t, k.original_priority[t])
        ELSE k1

\* get_priority(): the priority the application last gave the thread.
GetPriority(k, t) ==
    IF k.priority_inherited[t] THEN k.original_priority[t] ELSE k.priority[t]

-----------------------------------------------------------------------------
(* What every operation must keep true of the kernel state *)

\* The run queue of each priority holds exactly the runnable threads of that
\* priority, each once, and queue_map marks the non-empty ones: the asserts
\* "Map and queue disagree" and "Runnable thread on a queue!".
RunQueuesOK(k) ==
    /\ \A p \in Priority :
         /\ IsInjective(k.run_queue[p])
         /\ Range(k.run_queue[p]) =
                {t \in AllThread : Runnable(k, t) /\ k.priority[t] = p}
    /\ k.queue_map = {p \in Priority : k.run_queue[p] # <<>>}

\* The idle thread stays runnable, alone at the worst priority: the asserts
\* "Idle thread vanished!!!" and "Idle thread trying to sleep!".
IdleOK(k) ==
    \A t \in AllThread :
        /\ t = Idle => Runnable(k, t)
        /\ t = Idle <=> k.priority[t] = MinPriority
        /\ t = Idle <=> k.original_priority[t] = MinPriority

\* A thread is on at most one wait queue, at most once, and only asleep.
WaitQueuesOK(k) ==
    \A q \in WaitQueue :
        /\ IsInjective(k.wait_queue[q])
        /\ \A t \in Range(k.wait_queue[q]) :
             /\ "SLEEPING" \in k.state[t]
             /\ \A r \in WaitQueue : t \in Range(k.wait_queue[r]) => r = q

\* No runnable thread beats the current one unless a reschedule is due, and
\* code outside the scheduler runs only in a runnable thread.
CurrentOK(k) ==
    /\ ~k.need_reschedule =>
         \A t \in AllThread :
            Runnable(k, t) => k.priority[k.current] <= k.priority[t]
    /\ k.sched_lock \in {"thread", "inner"} =>
         Runnable(k, k.current) /\ ~k.need_reschedule

\* A sleeping thread can be woken: it has a sleep reason, so release(), kill()
\* and the timer act on it, no wake reason is pending, and a sleep with a
\* deadline has its timer armed.
SleepersOK(k) ==
    \A t \in AllThread :
        /\ "COUNTSLEEP" \in k.state[t] => "SLEEPING" \in k.state[t]
        /\ "SLEEPING" \in k.state[t] =>
             /\ k.sleep_reason[t] # "NONE"
             /\ k.wake_reason[t] = "NONE"
             /\ k.sleep_reason[t] \in {"DELAY", "TIMEOUT"} => k.timer[t]
             /\ "EXITED" \notin k.state[t]

\* The SUSPENDED bit and the count agree: the assert "SUSPENDED bit not set".
SuspendOK(k) ==
    \A t \in AllThread :
        "SUSPENDED" \in k.state[t] <=> k.suspend_count[t] > 0

=============================================================================
