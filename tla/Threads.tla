------------------------------ MODULE Threads -------------------------------
(***************************************************************************)
(* Threads, the scheduler and the clock DSR of the eCos kernel, without    *)
(* any synchronization object: the operations a thread (or a DSR, where    *)
(* doc/kernel.sgml allows it) may call on itself or on another thread, and *)
(* the reschedule that ends each of them.                                  *)
(***************************************************************************)
EXTENDS Kernel

CONSTANTS
    Ops,         \* the operations this system's threads and DSRs call
    BasePriority,\* the priority each thread is created with
    MaxSuspend,  \* bound on nested suspend() calls
    MaxWakeup,   \* bound on queued counted wakeups
    MaxTicks     \* bound on the clock DSRs that one unlock() has to run

ASSUME ThreadsAssumption ==
    /\ BasePriority \in [Thread -> UserPriority]
    /\ MaxSuspend \in Nat
    /\ MaxWakeup \in Nat
    /\ MaxTicks \in Nat

VARIABLES
    k,    \* the kernel state
    pc,   \* what each thread does when it next runs
    ticks \* clock DSRs run since the last reschedule

vars == <<k, pc, ticks>>

\* "user" application code; "delay", "csleep": past the unlock() of delay() or
\* counted_sleep(); "ctsleep": back from the reschedule() of the timed one.
PC == {"user", "delay", "csleep", "ctsleep"}

Init ==
    /\ k = KernelInit([t \in AllThread |->
                         IF t = Idle THEN MinPriority ELSE BasePriority[t]])
    /\ pc = [t \in AllThread |-> "user"]
    /\ ticks = 0

self == k.current

-----------------------------------------------------------------------------
(* Execution contexts *)

\* Application code of the current thread, scheduler unlocked.
InThread == k.sched_lock = "thread" /\ self # Idle /\ pc[self] = "user"

\* A DSR runs when an interrupt finds the scheduler unlocked, or before the
\* reschedule of an unlock() that finds DSRs pending.
InThreadOrDsr == k.sched_lock \in {"thread", "unlock"}

\* Every operation locks the scheduler first and unlocks it last.
Unlock(k1) == [k1 EXCEPT !.sched_lock = "unlock"]

\* reschedule() inside an operation.
Reschedule(k1) == [k1 EXCEPT !.sched_lock = "resched"]

-----------------------------------------------------------------------------
(* Operations on a thread *)

ThreadSuspend(t) ==
    /\ "suspend" \in Ops
    /\ InThreadOrDsr
    /\ k.suspend_count[t] < MaxSuspend
    /\ k' = Unlock(Suspend(k, t))
    /\ UNCHANGED <<pc, ticks>>

ThreadResume(t) ==
    /\ "resume" \in Ops
    /\ InThreadOrDsr
    /\ k' = Unlock(Resume(k, t))
    /\ UNCHANGED <<pc, ticks>>

ThreadRelease(t) ==
    /\ "release" \in Ops
    /\ InThreadOrDsr
    /\ k' = Unlock(Release(k, t))
    /\ UNCHANGED <<pc, ticks>>

ThreadCountedWake(t) ==
    /\ "counted" \in Ops
    /\ InThreadOrDsr
    /\ k.wakeup_count[t] < MaxWakeup
    /\ k' = Unlock(CountedWake(k, t))
    /\ UNCHANGED <<pc, ticks>>

ThreadCancelCountedWake(t) ==
    /\ "counted" \in Ops
    /\ InThread
    /\ k' = Unlock([k EXCEPT !.wakeup_count[t] = 0])
    /\ UNCHANGED <<pc, ticks>>

ThreadSetPriority(t, p) ==
    /\ "set_priority" \in Ops
    /\ InThread
    /\ k' = Unlock(SetPriority(k, t, p))
    /\ UNCHANGED <<pc, ticks>>

\* kill() of another thread; of the current one it is exit().
ThreadKill(t) ==
    /\ "kill" \in Ops
    /\ InThread
    /\ t # self
    /\ k' = Unlock(Kill(k, t))
    /\ UNCHANGED <<pc, ticks>>

-----------------------------------------------------------------------------
(* Operations of the current thread on itself *)

ThreadExit ==
    /\ "kill" \in Ops
    /\ InThread
    /\ k' = Reschedule(Exit(k))
    /\ UNCHANGED <<pc, ticks>>

ThreadYield ==
    /\ "yield" \in Ops
    /\ InThread
    /\ k' = Unlock(Yield(k))
    /\ UNCHANGED <<pc, ticks>>

ThreadRotateQueue(p) ==
    /\ "rotate_queue" \in Ops
    /\ InThread
    /\ k' = Unlock(RotateQueue(k, p))
    /\ UNCHANGED <<pc, ticks>>

\* past: the delay is zero ticks, so the timer expires inside set_timer().
ThreadDelay(past) ==
    /\ (IF past THEN "delay0" ELSE "delay") \in Ops
    /\ InThread
    /\ k' = Unlock(SetTimer(Sleep(k), "DELAY", past))
    /\ pc' = [pc EXCEPT ![self] = "delay"]
    /\ UNCHANGED ticks

CountSleep(k1) == [Sleep(k1) EXCEPT !.state[k1.current] = @ \cup {"COUNTSLEEP"}]

ThreadCountedSleep ==
    /\ "counted" \in Ops
    /\ InThread
    /\ k' = Unlock(IF k.wakeup_count[self] = 0
                   THEN CountSleep(SetSleepReason(k, "WAIT"))
                   ELSE [k EXCEPT !.wakeup_count[self] = @ - 1])
    /\ pc' = [pc EXCEPT ![self] = "csleep"]
    /\ UNCHANGED ticks

ThreadCountedSleepTimed(past) ==
    LET k1 == SetTimer(k, "TIMEOUT", past)
    IN  /\ "counted" \in Ops
        /\ InThread
        /\ \/ /\ k.wakeup_count[self] > 0
              /\ k' = Unlock([k EXCEPT !.wakeup_count[self] = @ - 1])
              /\ pc' = [pc EXCEPT ![self] = "csleep"]
           \/ /\ k.wakeup_count[self] = 0
              /\ k1.wake_reason[self] # "NONE"
              /\ k' = Unlock(k1)
              /\ pc' = [pc EXCEPT ![self] = "csleep"]
           \/ /\ k.wakeup_count[self] = 0
              /\ k1.wake_reason[self] = "NONE"
              /\ k' = Reschedule(CountSleep(SetSleepReason(k1, "TIMEOUT")))
              /\ pc' = [pc EXCEPT ![self] = "ctsleep"]
        /\ UNCHANGED ticks

\* Mutant: the timer is not cleared.
CountedSleepTimedWokenKeepsTimer ==
    /\ k.sched_lock = "inner"
    /\ pc[self] = "ctsleep"
    /\ k' = Unlock(k)
    /\ pc' = [pc EXCEPT ![self] = "csleep"]
    /\ UNCHANGED ticks

\* counted_sleep(delay) back from reschedule(): clear the timer and unlock.
CountedSleepTimedWoken ==
    /\ k.sched_lock = "inner"
    /\ pc[self] = "ctsleep"
    /\ k' = Unlock(ClearTimer(k, self))
    /\ pc' = [pc EXCEPT ![self] = "csleep"]
    /\ UNCHANGED ticks

\* Mutant: delay() does not look for EXIT.
SleepReturnIgnoresExit ==
    LET k1 == IF pc[self] = "delay" THEN ClearTimer(k, self) ELSE k
    IN  /\ k.sched_lock = "thread"
        /\ pc[self] \in {"delay", "csleep"}
        /\ k' = IF k.wake_reason[self] = "DESTRUCT"
                THEN Reschedule(Exit(k1))
                ELSE Unlock(k1)
        /\ pc' = [pc EXCEPT ![self] = "user"]
        /\ UNCHANGED ticks

\* The ends of delay() and of counted_sleep(), after the unlock: act on the
\* wake reason.
SleepReturn ==
    LET k1 == IF pc[self] = "delay" THEN ClearTimer(k, self) ELSE k
    IN  /\ k.sched_lock = "thread"
        /\ pc[self] \in {"delay", "csleep"}
        /\ k' = IF k.wake_reason[self] \in {"DESTRUCT", "EXIT"}
                THEN Reschedule(Exit(k1))
                ELSE Unlock(k1)
        /\ pc' = [pc EXCEPT ![self] = "user"]
        /\ UNCHANGED ticks

-----------------------------------------------------------------------------
(* Start-up, clock DSR and reschedule *)

\* cyg_user_start() resumes threads before the scheduler runs.
StartResume(t) ==
    /\ k.sched_lock = "start"
    /\ k' = Resume(k, t)
    /\ UNCHANGED <<pc, ticks>>

SchedulerStart ==
    /\ k.sched_lock = "start"
    /\ k' = StartCpu(k)
    /\ UNCHANGED <<pc, ticks>>

\* The clock DSR is Cyg_Counter::tick(), which calls the alarm functions of
\* the expired thread timers, and then timeslice(); nothing interleaves.
ClockDsr ==
    /\ "tick" \in Ops
    /\ InThreadOrDsr
    /\ ticks < MaxTicks
    /\ k' = [k EXCEPT !.sched_lock = "tick"]
    /\ ticks' = ticks + 1
    /\ UNCHANGED pc

ClockDsrAlarm(t) ==
    /\ k.sched_lock = "tick"
    /\ k.timer[t]
    /\ k' = ThreadTimerAlarm(k, t)
    /\ UNCHANGED <<pc, ticks>>

ClockDsrTimeslice ==
    /\ k.sched_lock = "tick"
    /\ k' = Unlock(Timeslice(k))
    /\ UNCHANGED <<pc, ticks>>

RescheduleOrReturn ==
    /\ k.sched_lock \in {"unlock", "resched"}
    /\ k' = UnlockInner(k)
    /\ ticks' = 0
    /\ UNCHANGED pc

OperationOn(t) ==
    \/ ThreadSuspend(t)
    \/ ThreadResume(t)
    \/ ThreadRelease(t)
    \/ ThreadCountedWake(t)
    \/ ThreadCancelCountedWake(t)
    \/ ThreadKill(t)
    \/ \E p \in UserPriority : ThreadSetPriority(t, p)

Next ==
    \/ \E t \in Thread : OperationOn(t)
    \/ ThreadExit
    \/ ThreadYield
    \/ \E p \in UserPriority : ThreadRotateQueue(p)
    \/ \E past \in BOOLEAN : ThreadDelay(past)
    \/ ThreadCountedSleep
    \/ \E past \in BOOLEAN : ThreadCountedSleepTimed(past)
    \/ CountedSleepTimedWoken
    \/ SleepReturn
    \/ \E t \in Thread : StartResume(t) \/ ClockDsrAlarm(t)
    \/ SchedulerStart
    \/ ClockDsr
    \/ ClockDsrTimeslice
    \/ RescheduleOrReturn

Spec == Init /\ [][Next]_vars

-----------------------------------------------------------------------------
(* Properties *)

\* The kernel state and the threads' continuations have their types.
TypeOK ==
    /\ k \in KernelState
    /\ pc \in [AllThread -> PC]
    /\ ticks \in 0..MaxTicks

\* The run queues and queue_map always agree with the thread states
\* (the consistency asserts of add_thread(), rem_thread() and schedule()), and
\* the idle thread is always there to be scheduled.
RunQueuesConsistent == RunQueuesOK(k) /\ IdleOK(k)

\* Whenever application code runs, it is that of a runnable, unsuspended,
\* live thread, and no runnable thread has a better priority: unlock_inner()
\* never misses a reschedule that some operation or DSR made necessary.
BestThreadRuns ==
    k.sched_lock = "thread" =>
        /\ Runnable(k, self)
        /\ k.suspend_count[self] = 0
        /\ \A t \in AllThread : Runnable(k, t) => k.priority[self] <= k.priority[t]

\* No thread sleeps beyond the reach of its timer, of release() and of kill().
SleepersCanBeWoken == SleepersOK(k)

\* A thread is SUSPENDED exactly while its suspend count is positive, through
\* every interleaving of suspend(), resume(), kill() and exit().
SuspendCountAgrees == SuspendOK(k)

\* A timer armed for one sleep is never left to cut a later one short:
\* delay() and counted_sleep() clear it whichever way the sleep ended.
NoStaleTimer == \A t \in Thread : k.timer[t] => pc[t] \in {"delay", "ctsleep"}

\* kill() of a sleeping thread leaves it to exit by itself; it never comes
\* back to application code, whatever wakes or resumes it meanwhile.
KilledNeverReturns ==
    \A t \in Thread :
        k.wake_reason[t] = "EXIT" /\ pc[t] = "user" => "EXITED" \in k.state[t]

\* exit() and kill() are final: no wake-up, resume, release or priority change
\* revives an exited thread, and a pending death is never cancelled.
DeathIsFinal ==
    [][\A t \in Thread :
          /\ "EXITED" \in k.state[t] => "EXITED" \in k'.state[t]
          /\ k.wake_reason[t] = "EXIT" => k'.wake_reason[t] = "EXIT"]_vars

-----------------------------------------------------------------------------
(* Liveness *)

\* Clock interrupts keep coming whatever the threads do, a DSR that has begun
\* ends, and an unlock() that has run its DSRs reaches its reschedule.
Fairness ==
    /\ SF_vars(ClockDsr)
    /\ WF_vars(ClockDsrTimeslice)
    /\ WF_vars(RescheduleOrReturn)
    /\ WF_vars(SchedulerStart)

FairSpec == Spec /\ Fairness

\* Timeslicing: a runnable thread to which no other is preferred gets the CPU,
\* however long its equals would run.
EqualsTakeTurns ==
    \A t \in Thread : Runnable(k, t) ~> (k.current = t \/ ~Runnable(k, t))

=============================================================================
